------------------------- MODULE ConsignmentOutcome -------------------------
(***************************************************************************)
(* What the offline delivery path promises, with no outbox, no network and *)
(* no batches: the server judges a proof of delivery in one indivisible    *)
(* step, on the outcome the consignment has at that moment, and the driver *)
(* is never told anything but a judgement that was passed on that proof    *)
(* (src/docs/offline-sync-architecture.md, section 3).  Dispatch may       *)
(* revise the outcome of any consignment at any time.  FieldSync           *)
(* implements this specification.                                          *)
(***************************************************************************)

CONSTANTS
  Shipment,   \* consignments
  Pod,        \* proofs of delivery recorded by the driver
  Target      \* the consignment of each proof: a function in [Pod -> Shipment]

VARIABLES
  outcome,    \* what the server holds of each consignment
  judged,     \* judgements passed on each proof that may still be heard of
  told        \* what the driver was last told about each proof

vars == <<outcome, judged, told>>

Outcome == {"open", "delivered", "cancelled"}
Judgement == {"accepted", "rejected"}

Init ==
  /\ outcome = [s \in Shipment |-> "open"]
  /\ judged = [p \in Pod |-> {}]
  /\ told = [p \in Pod |-> "nothing"]

(* No proof gains a judgement but p the judgement v; any may be lost.      *)
Gains(p, v) ==
  /\ judged' \in [Pod -> SUBSET Judgement]
  /\ \A q \in Pod : judged'[q] \subseteq judged[q] \cup {w \in {v} : q = p}

(* A proof is rejected if its consignment is cancelled, and is accepted    *)
(* otherwise: the consignment is then delivered, if it was not before.     *)
Judge(p) ==
  /\ \/ /\ outcome[Target[p]] = "cancelled"
        /\ Gains(p, "rejected")
        /\ UNCHANGED outcome
     \/ /\ outcome[Target[p]] # "cancelled"
        /\ Gains(p, "accepted")
        /\ outcome' = [outcome EXCEPT ![Target[p]] = "delivered"]
  /\ UNCHANGED told

(* Dispatch revises outcomes; no judgement is passed or withdrawn by it.   *)
Revise ==
  /\ outcome' \in [Shipment -> Outcome]
  /\ UNCHANGED <<judged, told>>

(* The driver's view of any set of proofs is refreshed (an answer arrives) *)
(* or forgotten (an item is dismissed or cleared); judgements may be lost. *)
Tell ==
  /\ UNCHANGED outcome
  /\ told' \in [Pod -> {"nothing"} \cup Judgement]
  /\ \A p \in Pod : told'[p] \in {told[p], "nothing"} \cup judged[p]
  /\ judged' \in [Pod -> SUBSET Judgement]
  /\ \A p \in Pod : judged'[p] \subseteq judged[p]

Next == Tell \/ Revise \/ (\E p \in Pod : Judge(p))

Spec == Init /\ [][Next]_vars

=============================================================================
