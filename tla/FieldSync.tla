------------------------------ MODULE FieldSync ------------------------------
(***************************************************************************)
(* The driver's in-cab outbox (src/mobile/src/services/sync.service.ts),   *)
(* the network, and the batch synchronisation engine of the server         *)
(* (src/src/lib/services/sync.service.ts behind POST /api/v1/sync).        *)
(*                                                                         *)
(* Both ends are single-threaded JavaScript: a step below is what runs     *)
(* between two awaits.  The client awaits only its fetch; the server       *)
(* awaits an audit-log write per operation, so requests and dispatch       *)
(* actions interleave between operations but not inside one.               *)
(*                                                                         *)
(* The outbox array always holds its newest item first (unshift), so an    *)
(* item's place in it is given by "born", the order of enqueueing, which   *)
(* is also the order of clientTimestamp.                                   *)
(***************************************************************************)
EXTENDS Integers, FiniteSets

CONSTANTS
  Pod, Checkpoint, Reading, Report,  \* operations by type; Report: hazard or SOS
  Key, KeyOf,       \* deduplication keys of alerts; the key of each report
  Signed,           \* proofs whose payload carries a signature
  Unknown,          \* operations about entities the server may not know, now or at times
  Shipment, Target, \* consignments; the consignment of each proof
  Stop, StopOf,     \* itinerary stops; the stop of each checkpoint clearance
  Trip, TripOf,     \* trips; the trip of each stop
  Carried,          \* consignments on the scheduled trip the GPS pings name
  Slot, Idle,       \* HTTP exchanges that can be open at once; none
  NoProof, Office,  \* no signature; one entered by the office
  MaxQueuedItems, MaxBatch, MaxRetryAttempts,
  MaxCounted        \* records counted per reading

Op == Pod \cup Checkpoint \cup Reading \cup Report

ASSUME OpAssumption ==
  /\ Pod \cap (Checkpoint \cup Reading \cup Report) = {}
  /\ Checkpoint \cap (Reading \cup Report) = {}
  /\ Reading \cap Report = {}
  /\ Signed \subseteq Pod /\ Unknown \subseteq Op /\ Carried \subseteq Shipment
  /\ Target \in [Pod -> Shipment]
  /\ StopOf \in [Checkpoint -> Stop] /\ TripOf \in [Stop -> Trip]
  /\ KeyOf \in [Report -> Key]
  /\ Idle \notin Slot /\ NoProof \notin Pod \cup {Office}
ASSUME BoundAssumption ==
  /\ MaxQueuedItems \in Nat \ {0} /\ MaxBatch \in Nat \ {0}
  /\ MaxRetryAttempts \in Nat \ {0} /\ MaxCounted \in Nat \ {0}

VARIABLES
  \* the mobile client
  status,     \* outbox status; NEW before enqueueing, GONE once removed
  retryCount, \* saturates at MaxRetryAttempts, the only value compared with
  born, clock,
  evicted,    \* operations dropped by the capacity rule (history)
  online,     \* isOnlineState
  call,       \* the exchange the running syncOutboxBatch awaits, or Idle
  \* the network and the request handlers
  req, session,
  \* the server's records
  ship, proof, trip, cleared, departed,
  ingested,   \* records written per reading, counted up to MaxCounted
  raised,     \* deduplication keys under which an alert was ever raised
  \* history, read by no action
  processed,  \* operations the server has handled at least once
  revoked,    \* trips that were cancelled at some time
  settled     \* consignments dispatch left alone since a proof was accepted

client == <<status, retryCount, born, clock, evicted, online, call>>
records == <<ship, proof, trip, cleared, departed, ingested, raised>>
server == <<records, processed, revoked, settled>>
vars == <<client, req, session, server>>

Status == {"NEW", "QUEUED", "SYNCING", "SYNCED", "CONFLICT", "FAILED",
           "AUTH_REQUIRED", "GONE"}
Result == {"none", "SYNCED", "CONFLICT", "FAILED"}
ShipStatus == {"OPEN", "DELIVERED", "CANCELLED"}

(* An exchange: what the client sent and awaits, what the server has yet   *)
(* to handle, and the results so far.  Once the client has given it up,    *)
(* nobody reads what it sent or any result: neither is kept.               *)
Request ==
  [phase : {"free", "transit", "running", "done", "lost"}, ops : SUBSET Op,
   todo : SUBSET Op, result : [Op -> Result],
   code : {"ok", "unauthorized", "rejected"}]

FreeRequest ==
  [phase |-> "free", ops |-> {}, todo |-> {},
   result |-> [o \in Op |-> "none"], code |-> "ok"]

TypeOK ==
  /\ status \in [Op -> Status]
  /\ retryCount \in [Op -> 0..MaxRetryAttempts]
  /\ born \in [Op -> Nat] /\ clock \in Nat
  /\ evicted \subseteq Op /\ processed \subseteq Op
  /\ online \in BOOLEAN /\ session \in BOOLEAN /\ departed \in BOOLEAN
  /\ call \in Slot \cup {Idle}
  /\ req \in [Slot -> Request]
  /\ ship \in [Shipment -> ShipStatus]
  /\ proof \in [Shipment -> Pod \cup {NoProof, Office}]
  /\ trip \in [Trip -> {"ACTIVE", "CANCELLED"}]
  /\ cleared \subseteq Stop
  /\ ingested \in [Reading -> 0..MaxCounted]
  /\ raised \subseteq Key /\ settled \subseteq Shipment /\ revoked \subseteq Trip

Init ==
  /\ status = [o \in Op |-> "NEW"] /\ retryCount = [o \in Op |-> 0]
  /\ born = [o \in Op |-> 0] /\ clock = 0 /\ evicted = {}
  /\ online = TRUE /\ call = Idle
  /\ req = [r \in Slot |-> FreeRequest] /\ session = TRUE
  /\ ship = [s \in Shipment |-> "OPEN"]
  /\ proof = [s \in Shipment |-> NoProof]
  /\ trip = [t \in Trip |-> "ACTIVE"]
  /\ cleared = {} /\ departed = FALSE
  /\ ingested = [o \in Reading |-> 0]
  /\ raised = {} /\ processed = {} /\ revoked = {} /\ settled = {}

-----------------------------------------------------------------------------
(* The mobile client. *)

Held == {o \in Op : status[o] \notin {"NEW", "GONE"}}

Oldest(S) == CHOOSE o \in S : \A p \in S : born[o] <= born[p]

(* What enqueueOperation drops at capacity: the first item of the array    *)
(* that is synced or a GPS ping, else the first item.                      *)
Expendable == {o \in Held : status[o] = "SYNCED" \/ o \in Reading}
Candidates == IF Expendable # {} THEN Expendable ELSE Held
Dropped ==
  {o \in Candidates :
     Cardinality(Held) >= MaxQueuedItems /\ \A p \in Candidates : born[p] <= born[o]}

(* syncOutboxBatch up to its fetch, run on the statuses st left by its     *)
(* caller: nothing while another cycle runs or when nothing is pending.    *)
Sendable(st) == {o \in Op : st[o] \in {"QUEUED", "FAILED"}}

StartSync(st) ==
  LET pending == Sendable(st) IN
  IF call # Idle \/ pending = {}
  THEN status' = st /\ UNCHANGED <<call, req>>
  ELSE \E r \in Slot :
         /\ req[r].phase = "free"
         /\ call' = r
         /\ req' = [req EXCEPT ![r] = [FreeRequest EXCEPT !.phase = "transit",
                                         !.ops = pending, !.todo = pending]]
         /\ status' = [o \in Op |-> IF o \in pending THEN "SYNCING" ELSE st[o]]

Enqueue(o) ==
  LET next == [p \in Op |-> IF p = o THEN "QUEUED"
                             ELSE IF p \in Dropped THEN "GONE" ELSE status[p]]
  IN
  /\ status[o] = "NEW"
  /\ clock' = clock + 1
  /\ born' = [born EXCEPT ![o] = clock + 1]
  /\ evicted' = evicted \cup Dropped
  /\ IF online THEN StartSync(next)
               ELSE status' = next /\ UNCHANGED <<call, req>>
  /\ UNCHANGED <<retryCount, online, session, server>>

(* "Force Sync Now": the button is disabled while offline. *)
SyncNow ==
  /\ online
  /\ call = Idle /\ Sendable(status) # {}
  /\ StartSync(status)
  /\ UNCHANGED <<retryCount, born, clock, evicted, online, session, server>>

(* "Retry Now" is offered on failed items; the screen can still show the   *)
(* button for an item that a cycle has just taken up.                      *)
Retry(o) ==
  LET next == [status EXCEPT ![o] = "QUEUED"] IN
  /\ status[o] \in {"FAILED", "SYNCING"}
  /\ retryCount' = [retryCount EXCEPT ![o] = 0]
  /\ IF online THEN StartSync(next)
               ELSE status' = next /\ UNCHANGED <<call, req>>
  /\ UNCHANGED <<born, clock, evicted, online, session, server>>

(* "Acknowledge & Dismiss" of a conflict: removeOutboxItem. *)
Dismiss(o) ==
  /\ status[o] = "CONFLICT"
  /\ status' = [status EXCEPT ![o] = "GONE"]
  /\ UNCHANGED <<retryCount, born, clock, evicted, online, call, req, session, server>>

ClearSynced ==
  /\ \E o \in Op : status[o] = "SYNCED"
  /\ status' = [o \in Op |-> IF status[o] = "SYNCED" THEN "GONE" ELSE status[o]]
  /\ UNCHANGED <<retryCount, born, clock, evicted, online, call, req, session, server>>

(* Plausible slip: the transition to online only sets the flag.            *)
GoOnlineQuietly ==
  /\ ~online
  /\ online' = TRUE
  /\ UNCHANGED <<status, retryCount, born, clock, evicted, call, req, session, server>>

(* A health probe answers (every 15 s), or the platform reports a network: *)
(* the transition to online flushes the outbox.                            *)
GoOnline ==
  /\ ~online
  /\ online' = TRUE
  /\ StartSync(status)
  /\ UNCHANGED <<retryCount, born, clock, evicted, session, server>>

GoOffline ==
  /\ online
  /\ online' = FALSE
  /\ UNCHANGED <<status, retryCount, born, clock, evicted, call, req, session, server>>

(* The items of the exchange that are still in the outbox. *)
Awaiting(r) == {o \in req[r].ops : status[o] \notin {"NEW", "GONE"}}

Bumped(n) == IF n < MaxRetryAttempts THEN n + 1 ELSE n

(* Plausible slip: the error path forgets the items it was sending.        *)
RequeueNothing(r) == UNCHANGED <<status, retryCount>>

(* handleNetworkSyncFailure: back to the queue, or failed once exhausted.  *)
RequeueAll(r) ==
  /\ retryCount' = [o \in Op |-> IF o \in Awaiting(r) THEN Bumped(retryCount[o])
                                                      ELSE retryCount[o]]
  /\ status' = [o \in Op |->
       IF o \notin Awaiting(r) THEN status[o]
       ELSE IF Bumped(retryCount[o]) >= MaxRetryAttempts THEN "FAILED" ELSE "QUEUED"]

(* The response was a batch result: every item takes its own result; an    *)
(* item the server said nothing of counts as synced.                       *)
ReceiveResults(r) ==
  /\ call = r /\ req[r].phase = "done" /\ req[r].code = "ok"
  /\ status' = [o \in Op |->
       IF o \notin Awaiting(r) THEN status[o]
       ELSE IF req[r].result[o] = "none" THEN "SYNCED" ELSE req[r].result[o]]
  /\ retryCount' = [o \in Op |->
       IF o \in Awaiting(r) /\ req[r].result[o] = "FAILED"
       THEN Bumped(retryCount[o]) ELSE retryCount[o]]
  /\ online' = TRUE
  /\ call' = Idle
  /\ req' = [req EXCEPT ![r] = FreeRequest]
  /\ UNCHANGED <<born, clock, evicted, session, server>>

(* Plausible slip: the rejected items are taken out of the outbox.         *)
ReceiveUnauthorizedDrops(r) ==
  /\ call = r /\ req[r].phase = "done" /\ req[r].code = "unauthorized"
  /\ status' = [o \in Op |-> IF o \in Awaiting(r) THEN "GONE" ELSE status[o]]
  /\ call' = Idle
  /\ req' = [req EXCEPT ![r] = FreeRequest]
  /\ UNCHANGED <<retryCount, born, clock, evicted, online, session, server>>

(* 401: the items are frozen, not dropped. *)
ReceiveUnauthorized(r) ==
  /\ call = r /\ req[r].phase = "done" /\ req[r].code = "unauthorized"
  /\ status' = [o \in Op |-> IF o \in Awaiting(r) THEN "AUTH_REQUIRED" ELSE status[o]]
  /\ call' = Idle
  /\ req' = [req EXCEPT ![r] = FreeRequest]
  /\ UNCHANGED <<retryCount, born, clock, evicted, online, session, server>>

(* Any other HTTP error; the client stays online. *)
ReceiveError(r) ==
  /\ call = r /\ req[r].phase = "done" /\ req[r].code = "rejected"
  /\ RequeueAll(r)
  /\ call' = Idle
  /\ req' = [req EXCEPT ![r] = FreeRequest]
  /\ UNCHANGED <<born, clock, evicted, online, session, server>>

(* Plausible slip: the single-flight flag is not reset on the error path.  *)
FetchFailsNoFinally(r) ==
  /\ call = r
  /\ RequeueAll(r)
  /\ online' = FALSE
  /\ UNCHANGED <<born, clock, evicted, call, req, session, server>>

(* The fetch throws: unreachable, or aborted after requestTimeoutMs.  A    *)
(* request that left the device may still be served.                       *)
FetchFails(r) ==
  /\ call = r
  /\ RequeueAll(r)
  /\ online' = FALSE
  /\ call' = Idle
  /\ req' = IF req[r].phase \in {"done", "lost"}
            THEN [req EXCEPT ![r] = FreeRequest]
            ELSE [req EXCEPT ![r].ops = {}, ![r].result = FreeRequest.result]
  /\ UNCHANGED <<born, clock, evicted, session, server>>

-----------------------------------------------------------------------------
(* The network and the route handler of POST /api/v1/sync. *)

(* The response leaves the server; nobody may be waiting for it any more.  *)
Respond(r, c) ==
  req' = [req EXCEPT ![r] = IF call = r
                            THEN [@ EXCEPT !.phase = "done", !.code = c]
                            ELSE FreeRequest]

Arrive(r) ==
  /\ req[r].phase = "transit"
  /\ \/ ~session /\ Respond(r, "unauthorized")
     \/ session /\ Cardinality(req[r].todo) > MaxBatch /\ Respond(r, "rejected")
     \/ /\ session /\ Cardinality(req[r].todo) <= MaxBatch
        /\ req' = [req EXCEPT ![r].phase = "running"]
  /\ UNCHANGED <<client, session, server>>

(* Plausible slip: the results gathered so far are sent as the answer.     *)
ServerErrorPartial(r) ==
  /\ req[r].phase \in {"transit", "running"}
  /\ Respond(r, "ok")
  /\ UNCHANGED <<client, session, server>>

(* The platform fails the request (5xx, function timeout): the operations  *)
(* handled so far stay handled.                                            *)
ServerError(r) ==
  /\ req[r].phase \in {"transit", "running"}
  /\ Respond(r, "rejected")
  /\ UNCHANGED <<client, session, server>>

(* A request or a response is lost in the mountains. *)
Lose(r) ==
  /\ req[r].phase \in {"transit", "done"}
  /\ req' = [req EXCEPT ![r] = IF call = r THEN [@ EXCEPT !.phase = "lost"]
                                           ELSE FreeRequest]
  /\ UNCHANGED <<client, session, server>>

Finish(r) ==
  /\ req[r].phase = "running" /\ req[r].todo = {}
  /\ Respond(r, "ok")
  /\ UNCHANGED <<client, session, server>>

(* Plausible slip: the answer ignores what processing an operation found.  *)
AnswerSynced(r, o, res) ==
  /\ req' = [req EXCEPT ![r].todo = @ \ {o},
                        ![r].result[o] = IF call = r THEN "SYNCED" ELSE @]
  /\ processed' = processed \cup {o}
  /\ UNCHANGED <<client, session>>

(* processSyncBatch takes the operations by clientTimestamp; the result of *)
(* one is recorded before the next is taken.                               *)
Answer(r, o, res) ==
  /\ req' = [req EXCEPT ![r].todo = @ \ {o},
                        ![r].result[o] = IF call = r THEN res ELSE @]
  /\ processed' = processed \cup {o}
  /\ UNCHANGED <<client, session>>

(* Plausible slip: the batch is worked off as sent, newest first.          *)
NextOfUnsorted(r) == CHOOSE o \in req[r].todo : \A p \in req[r].todo : born[p] <= born[o]

NextOf(r) == Oldest(req[r].todo)

Turn(r, o) ==
  /\ req[r].phase = "running" /\ req[r].todo # {}
  /\ o = NextOf(r)

(* Not found, or refused by validation: the error is this item's result.   *)
ProcessUnknown(r, o) ==
  /\ Turn(r, o) /\ o \in Unknown
  /\ Answer(r, o, "FAILED")
  /\ UNCHANGED <<records, revoked, settled>>

(* Plausible slip: a late proof is written like a first one.               *)
LateProofOverwrites(s, o) == IF o \in Signed THEN o ELSE NoProof

(* The signature on record after a proof of an already delivered           *)
(* consignment.                                                            *)
LateProof(s, o) == IF proof[s] = NoProof /\ o \in Signed THEN o ELSE proof[s]

ProcessPod(r, o) ==
  LET s == Target[o] IN
  /\ Turn(r, o) /\ o \in Pod
  /\ \/ /\ ship[s] = "CANCELLED"
        /\ Answer(r, o, "CONFLICT")
        /\ UNCHANGED <<ship, proof, settled>>
     \/ /\ ship[s] = "DELIVERED"
        /\ Answer(r, o, "SYNCED")
        /\ proof' = [proof EXCEPT ![s] = LateProof(s, o)]
        /\ settled' = settled \cup {s}
        /\ UNCHANGED ship
     \/ /\ ship[s] = "OPEN"
        /\ Answer(r, o, "SYNCED")
        /\ ship' = [ship EXCEPT ![s] = "DELIVERED"]
        /\ proof' = [proof EXCEPT ![s] = IF o \in Signed THEN o ELSE NoProof]
        /\ settled' = settled \cup {s}
  /\ UNCHANGED <<trip, cleared, departed, ingested, raised, revoked>>

ProcessCheckpoint(r, o) ==
  LET p == StopOf[o] IN
  /\ Turn(r, o) /\ o \in Checkpoint
  /\ \/ /\ trip[TripOf[p]] = "CANCELLED"
        /\ Answer(r, o, "CONFLICT")
        /\ UNCHANGED cleared
     \/ /\ trip[TripOf[p]] # "CANCELLED"
        /\ Answer(r, o, "SYNCED")
        /\ cleared' = cleared \cup {p}
  /\ UNCHANGED <<ship, proof, trip, departed, ingested, raised, revoked, settled>>

(* A GPS ping is written to the telemetry store each time it is received;  *)
(* the first ping of a scheduled trip also puts the trip en route, which   *)
(* sets every consignment it carries in transit, delivered ones included.  *)
ProcessReading(r, o) ==
  /\ Turn(r, o) /\ o \in Reading
  /\ Answer(r, o, "SYNCED")
  /\ ingested' = [ingested EXCEPT ![o] = IF @ < MaxCounted THEN @ + 1 ELSE @]
  /\ departed' = TRUE
  /\ ship' = IF departed THEN ship
             ELSE [s \in Shipment |-> IF s \in Carried THEN "OPEN" ELSE ship[s]]
  /\ settled' = IF departed THEN settled ELSE settled \ Carried
  /\ UNCHANGED <<proof, trip, cleared, raised, revoked>>

(* A hazard report or SOS raises an alert, unless the alert engine finds   *)
(* one of the same key still active and inside its cooldown: an earlier    *)
(* delivery of this report, another report of this cab, or one of another  *)
(* cab (the titles are constants, and without a shipment id the key names  *)
(* no vehicle).  It is answered SYNCED either way.                         *)
ProcessReport(r, o) ==
  /\ Turn(r, o) /\ o \in Report
  /\ Answer(r, o, "SYNCED")
  /\ raised' = raised \cup {KeyOf[o]}
  /\ UNCHANGED <<ship, proof, trip, cleared, departed, ingested, revoked, settled>>

Process(r) ==
  \E o \in Op :
    \/ ProcessUnknown(r, o) \/ ProcessPod(r, o) \/ ProcessCheckpoint(r, o)
    \/ ProcessReading(r, o) \/ ProcessReport(r, o)

-----------------------------------------------------------------------------
(* The rest of the system: dispatch, other cabs, the driver's session.     *)

(* Dispatch gives a consignment another status, whatever status it had: a  *)
(* PATCH any, a trip that is created or departs "on the way", one that is  *)
(* completed "delivered", a DELETE "cancelled".  A trip's loop over its    *)
(* consignments awaits an audit-log write after each.                      *)
ReviseShipment(s) ==
  /\ \E st \in ShipStatus \ {ship[s]} : ship' = [ship EXCEPT ![s] = st]
  /\ settled' = settled \ {s}
  /\ UNCHANGED <<client, req, session, proof, trip, cleared, departed, ingested, raised,
                 processed, revoked>>

(* A PATCH of a consignment also takes a signature, or none, in place of   *)
(* the one on record.                                                      *)
EditSignature(s) ==
  /\ \E sig \in {NoProof, Office} \ {proof[s]} : proof' = [proof EXCEPT ![s] = sig]
  /\ settled' = settled \ {s}
  /\ UNCHANGED <<client, req, session, ship, trip, cleared, departed, ingested, raised,
                 processed, revoked>>

(* PATCH of a trip: it is cancelled, or a cancelled one is taken up again. *)
EditTrip(t) ==
  /\ \/ /\ trip[t] = "ACTIVE"
        /\ trip' = [trip EXCEPT ![t] = "CANCELLED"] /\ revoked' = revoked \cup {t}
     \/ /\ trip[t] = "CANCELLED"
        /\ trip' = [trip EXCEPT ![t] = "ACTIVE"] /\ UNCHANGED revoked
  /\ UNCHANGED <<client, req, session, ship, proof, cleared, departed, ingested, raised,
                 processed, settled>>

(* Another cab's report raises an alert under a key of this cab's reports. *)
OtherCabReports(k) ==
  /\ k \notin raised
  /\ raised' = raised \cup {k}
  /\ UNCHANGED <<client, req, session, ship, proof, trip, cleared, departed, ingested,
                 processed, revoked, settled>>

SessionExpires == session /\ session' = FALSE /\ UNCHANGED <<client, req, server>>
Reauthenticate == ~session /\ session' = TRUE /\ UNCHANGED <<client, req, server>>

Driver ==
  \/ \E o \in Op : Enqueue(o) \/ Retry(o) \/ Dismiss(o)
  \/ SyncNow \/ ClearSynced

Connectivity == GoOnline \/ GoOffline

Receive(r) ==
  ReceiveResults(r) \/ ReceiveUnauthorized(r) \/ ReceiveError(r) \/ FetchFails(r)

Handler(r) == Arrive(r) \/ Process(r) \/ Finish(r)

Faults(r) == ServerError(r) \/ Lose(r)

Dispatch ==
  \/ \E s \in Shipment : ReviseShipment(s) \/ EditSignature(s)
  \/ \E t \in Trip : EditTrip(t)
  \/ \E k \in Key : OtherCabReports(k)

Next ==
  \/ Driver \/ Connectivity \/ Dispatch \/ SessionExpires \/ Reauthenticate
  \/ \E r \in Slot : Receive(r) \/ Handler(r) \/ Faults(r)

Spec == Init /\ [][Next]_vars

(* The fairness the two event loops and the timers provide: an answer or   *)
(* the abort timer ends every fetch (sync.service.ts:158-170), the server  *)
(* works on what it has received, and the connectivity monitor probes      *)
(* again every 15 s (sync.service.ts:359-365).                             *)
Fairness ==
  /\ WF_vars(\E r \in Slot : Receive(r)) /\ WF_vars(\E r \in Slot : Handler(r))
  /\ WF_vars(GoOnline)

FairSpec == Spec /\ Fairness

(* A day without faults: the network and the platform never fail, nobody   *)
(* loses the session, and the driver keeps pressing "Force Sync Now".      *)
Healthy ==
  \/ Driver
  \/ \E r \in Slot : ReceiveResults(r) \/ ReceiveError(r) \/ Handler(r)

HealthySpec ==
  /\ Init /\ [][Healthy]_vars
  /\ \A r \in Slot : WF_vars(ReceiveResults(r) \/ ReceiveError(r)) /\ WF_vars(Handler(r))
  /\ WF_vars(SyncNow)

-----------------------------------------------------------------------------
(* Properties. *)

(* The operation has taken effect / the server had grounds to refuse it.   *)
Applied(o) ==
  /\ o \in Checkpoint => StopOf[o] \in cleared
  /\ o \in Reading => ingested[o] > 0
  /\ o \in Report => KeyOf[o] \in raised

Refused(o) == o \in Checkpoint /\ TripOf[StopOf[o]] \in revoked

(* What the outbox shows of a clearance, a reading or a report agrees with *)
(* the server, through lost answers, retries, late requests and concurrent *)
(* edits: a synced one has taken effect (a report: an alert was raised     *)
(* under its key, its own or another report's), a conflict means the trip  *)
(* really was cancelled.  Proofs of delivery are ImplementsOutcome's.      *)
ToldTheTruth ==
  \A o \in Op \ Pod :
    /\ status[o] = "SYNCED" => Applied(o)
    /\ status[o] = "CONFLICT" => Refused(o)

(* The outbox of proofs, as the driver sees it, implements the abstract    *)
(* promise: every proof judged in one step, every answer such a judgement. *)
(* The judgements that can still be heard of are those of the exchange the *)
(* client awaits.                                                          *)
Outcome == INSTANCE ConsignmentOutcome WITH
  outcome <- [s \in Shipment |->
    IF ship[s] = "DELIVERED" THEN "delivered"
    ELSE IF ship[s] = "CANCELLED" THEN "cancelled" ELSE "open"],
  judged <- [p \in Pod |->
    IF call = Idle THEN {}
    ELSE IF req[call].result[p] = "SYNCED" THEN {"accepted"}
    ELSE IF req[call].result[p] = "CONFLICT" THEN {"rejected"} ELSE {}],
  told <- [p \in Pod |->
    IF status[p] = "SYNCED" THEN "accepted"
    ELSE IF status[p] = "CONFLICT" THEN "rejected" ELSE "nothing"]

ImplementsOutcome == Outcome!Spec

(* Once a proof of a consignment was accepted, no proof replaces or erases *)
(* the signature on record, however many are replayed or arrive late,      *)
(* until dispatch touches the consignment: reopened by a departure, a new  *)
(* trip or an edit, it takes the next signature like a first one.          *)
SignatureWrittenOnce ==
  [][\A s \in settled \cap settled' : proof[s] # NoProof => proof'[s] = proof[s]]_vars

(* An operation leaves the outbox, or is shown as settled, only after the  *)
(* server has handled it; the one exception is the capacity rule.          *)
NothingLost ==
  \A o \in Op :
    /\ status[o] \in {"SYNCED", "CONFLICT"} => o \in processed
    /\ status[o] = "GONE" => o \in processed \cup evicted

(* Operations reach the server first in the order they were recorded, even *)
(* when an earlier request is still under way or was given up; only an     *)
(* item frozen by a 401, or dropped, is overtaken.                         *)
FirstInFirstHandled ==
  \A o, p \in Op :
    born[o] > 0 /\ born[o] < born[p] /\ p \in processed /\ o \notin processed
      => status[o] \in {"AUTH_REQUIRED", "GONE"}

(* An item marked SYNCING belongs to the exchange being awaited: no error  *)
(* path strands an item in a status that no later cycle picks up.          *)
SyncingIsInFlight ==
  \A o \in Op : status[o] = "SYNCING" => call # Idle /\ o \in req[call].ops

(* Every synchronisation cycle ends and gives back the single-flight flag. *)
SyncEnds == (call # Idle) ~> (call = Idle)

(* What is pending when the device is offline and idle is taken up again   *)
(* once the network is back.                                               *)
OutageFlushes ==
  \A o \in Op :
    (status[o] \in {"QUEUED", "FAILED"} /\ ~online /\ call = Idle)
      ~> (status[o] \notin {"QUEUED", "FAILED"})

(* Claims of the documents and comments that the code does not keep.       *)

(* "As soon as the driver re-authenticates the pending outbox              *)
(* automatically flushes": a frozen item is released.                      *)
ReauthenticationFlushes ==
  <>[]session =>
    \A o \in Op : (status[o] = "AUTH_REQUIRED") ~> (status[o] # "AUTH_REQUIRED")

(* "The backend deduplicates and writes exactly one position record".      *)
IngestedOnce == \A o \in Reading : ingested[o] <= 1

(* An outbox of several hundred operations is accepted by the server.      *)
BacklogDrains ==
  \A o \in Op : (status[o] \in {"QUEUED", "FAILED"}) ~> (o \in processed \cup evicted)

(* "The system never silently overwrites conflicting server state": a      *)
(* consignment that dispatch cancelled is not revived by what a cab sends. *)
CancelledStays ==
  [][req' # req => \A s \in Shipment : ship[s] = "CANCELLED" => ship'[s] = "CANCELLED"]_vars
=============================================================================
