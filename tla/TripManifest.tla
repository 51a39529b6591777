------------------------------ MODULE TripManifest ------------------------------
(***************************************************************************)
(* What the trip store promises to those who read it: a trip is ordered    *)
(* with a set of shipments, appears with all of them on its manifest or    *)
(* not at all, never disappears, and its manifest only grows.              *)
(***************************************************************************)
CONSTANTS Trip, Shipment, Absent

VARIABLES
  ordered,  \* the shipments each trip was ordered with, Absent before
  manifest  \* the shipments a reader finds on each trip, Absent before it appears

vars == <<ordered, manifest>>

Init ==
  /\ ordered = [t \in Trip |-> Absent]
  /\ manifest = [t \in Trip |-> Absent]

Order(t, riders) ==
  /\ ordered[t] = Absent
  /\ ordered' = [ordered EXCEPT ![t] = riders]
  /\ UNCHANGED manifest

(* The trip appears, complete. *)
Appear(t) ==
  /\ ordered[t] # Absent /\ manifest[t] = Absent
  /\ manifest' = [manifest EXCEPT ![t] = ordered[t]]
  /\ UNCHANGED ordered

(* A trip ordered without shipments appears in the step that orders it. *)
OrderEmpty(t) ==
  /\ ordered[t] = Absent
  /\ ordered' = [ordered EXCEPT ![t] = {}]
  /\ manifest' = [manifest EXCEPT ![t] = {}]

Add(t, s) ==
  /\ manifest[t] # Absent
  /\ manifest' = [manifest EXCEPT ![t] = @ \cup {s}]
  /\ UNCHANGED ordered

Next ==
  \E t \in Trip :
    \/ \E riders \in SUBSET Shipment : Order(t, riders)
    \/ Appear(t) \/ OrderEmpty(t)
    \/ \E s \in Shipment : Add(t, s)

Spec == Init /\ [][Next]_vars
=============================================================================
