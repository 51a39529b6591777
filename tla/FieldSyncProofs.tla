--------------------------- MODULE FieldSyncProofs ---------------------------
(***************************************************************************)
(* Proofs about FieldSync for any number of operations, consignments and   *)
(* HTTP exchanges, any outbox capacity, batch limit and retry limit, with  *)
(* dispatch editing consignments and trips at any time.                    *)
(***************************************************************************)
EXTENDS FieldSync, TLAPS, WellFoundedInduction

-----------------------------------------------------------------------------
(* Every action writes values of the declared types. *)

LEMMA InitType == Init => TypeOK
  <1> SUFFICES ASSUME Init PROVE TypeOK
    OBVIOUS
  <1>1. FreeRequest \in Request
    BY DEF FreeRequest, Request, Result
  <1>2. retryCount \in [Op -> 0..MaxRetryAttempts]
    BY BoundAssumption DEF Init
  <1>3. proof \in [Shipment -> Pod \cup {NoProof, Office}]
    BY DEF Init
  <1>4. ingested \in [Reading -> 0..MaxCounted]
    BY BoundAssumption DEF Init
  <1>5. QED
    BY <1>1, <1>2, <1>3, <1>4 DEF Init, TypeOK, Status, ShipStatus

(* Starting a cycle keeps the client and the exchanges well-typed. *)
LEMMA StartSyncType ==
  ASSUME TypeOK, NEW st \in [Op -> Status], StartSync(st)
  PROVE  /\ status' \in [Op -> Status]
         /\ call' \in Slot \cup {Idle}
         /\ req' \in [Slot -> Request]
  <1>1. CASE call # Idle \/ Sendable(st) = {}
    BY <1>1 DEF StartSync, TypeOK
  <1>2. CASE ~(call # Idle \/ Sendable(st) = {})
    <2>1. PICK r \in Slot :
            /\ call' = r
            /\ req' = [req EXCEPT ![r] = [FreeRequest EXCEPT !.phase = "transit",
                                  !.ops = Sendable(st), !.todo = Sendable(st)]]
            /\ status' = [o \in Op |-> IF o \in Sendable(st) THEN "SYNCING" ELSE st[o]]
      BY <1>2 DEF StartSync
    <2>2. [FreeRequest EXCEPT !.phase = "transit",
                           !.ops = Sendable(st), !.todo = Sendable(st)] \in Request
      BY DEF FreeRequest, Request, Result, Sendable
    <2>3. status' \in [Op -> Status]
      BY <2>1 DEF Status
    <2>4. QED
      BY <2>1, <2>2, <2>3 DEF TypeOK
  <1>3. QED
    BY <1>1, <1>2

LEMMA FreeType == FreeRequest \in Request
  BY DEF FreeRequest, Request, Result

LEMMA RespondType ==
  ASSUME TypeOK, NEW r \in Slot, NEW c \in {"ok", "unauthorized", "rejected"}, Respond(r, c)
  PROVE  req' \in [Slot -> Request]
  <1>1. req[r] \in Request /\ req \in [Slot -> Request]
    BY DEF TypeOK
  <1>2. [req[r] EXCEPT !.phase = "done", !.code = c] \in Request
    BY <1>1 DEF Request
  <1>3. QED
    BY <1>1, <1>2, FreeType DEF Respond

LEMMA AnswerType ==
  ASSUME TypeOK, NEW r \in Slot, NEW o \in Op, NEW res \in Result, Answer(r, o, res)
  PROVE  /\ req' \in [Slot -> Request]
         /\ processed' \subseteq Op
         /\ UNCHANGED <<client, session>>
  <1>1. req[r] \in Request /\ req \in [Slot -> Request]
    BY DEF TypeOK
  <1> DEFINE heard == IF call = r THEN res ELSE req[r].result[o]
  <1>2. [req[r] EXCEPT !.todo = @ \ {o}, !.result[o] = heard] \in Request
    BY <1>1 DEF Request
  <1>3. req' = [req EXCEPT ![r] = [req[r] EXCEPT !.todo = @ \ {o}, !.result[o] = heard]]
    BY <1>1 DEF Answer, Request
  <1>4. QED
    BY <1>1, <1>2, <1>3 DEF Answer, TypeOK

LEMMA RequeueType ==
  ASSUME TypeOK, NEW r \in Slot, RequeueAll(r)
  PROVE  /\ status' \in [Op -> Status]
         /\ retryCount' \in [Op -> 0..MaxRetryAttempts]
  <1>1. \A n \in 0..MaxRetryAttempts : Bumped(n) \in 0..MaxRetryAttempts
    BY BoundAssumption DEF Bumped
  <1>2. retryCount' \in [Op -> 0..MaxRetryAttempts]
    BY <1>1 DEF RequeueAll, TypeOK
  <1>3. status' \in [Op -> Status]
    BY DEF RequeueAll, TypeOK, Status
  <1>4. QED
    BY <1>2, <1>3

(* The driver and the connectivity monitor. *)
LEMMA DriverType ==
  ASSUME TypeOK, Driver \/ Connectivity
  PROVE  TypeOK'
  <1>1. ASSUME NEW o \in Op, Enqueue(o) PROVE TypeOK'
    <2> DEFINE next == [p \in Op |-> IF p = o THEN "QUEUED"
                                     ELSE IF p \in Dropped THEN "GONE" ELSE status[p]]
    <2>1. next \in [Op -> Status]
      BY DEF TypeOK, Status
    <2>2. /\ status' \in [Op -> Status]
          /\ call' \in Slot \cup {Idle}
          /\ req' \in [Slot -> Request]
      <3>1. CASE online
        BY <1>1, <2>1, <3>1, StartSyncType DEF Enqueue
      <3>2. CASE ~online
        BY <1>1, <2>1, <3>2 DEF Enqueue, TypeOK
      <3>3. QED
        BY <3>1, <3>2
    <2>3. evicted' \subseteq Op
      BY <1>1 DEF Enqueue, TypeOK, Dropped, Candidates, Expendable, Held
    <2>4. born' \in [Op -> Nat] /\ clock' \in Nat
      BY <1>1 DEF Enqueue, TypeOK
    <2>5. QED
      BY <1>1, <2>2, <2>3, <2>4 DEF Enqueue, TypeOK, server, records
  <1>2. ASSUME NEW o \in Op, Retry(o) PROVE TypeOK'
    <2> DEFINE next == [status EXCEPT ![o] = "QUEUED"]
    <2>1. next \in [Op -> Status]
      BY DEF TypeOK, Status
    <2>2. /\ status' \in [Op -> Status]
          /\ call' \in Slot \cup {Idle}
          /\ req' \in [Slot -> Request]
      <3>1. CASE online
        BY <1>2, <2>1, <3>1, StartSyncType DEF Retry
      <3>2. CASE ~online
        BY <1>2, <2>1, <3>2 DEF Retry, TypeOK
      <3>3. QED
        BY <3>1, <3>2
    <2>3. retryCount' \in [Op -> 0..MaxRetryAttempts]
      BY <1>2, BoundAssumption DEF Retry, TypeOK
    <2>4. QED
      BY <1>2, <2>2, <2>3 DEF Retry, TypeOK, server, records
  <1>3. ASSUME NEW o \in Op, Dismiss(o) PROVE TypeOK'
    BY <1>3 DEF Dismiss, TypeOK, Status, server, records
  <1>4. CASE ClearSynced
    BY <1>4 DEF ClearSynced, TypeOK, Status, server, records
  <1>5. ASSUME SyncNow \/ GoOnline PROVE TypeOK'
    <2>1. /\ status' \in [Op -> Status]
          /\ call' \in Slot \cup {Idle}
          /\ req' \in [Slot -> Request]
      BY <1>5, StartSyncType DEF SyncNow, GoOnline, TypeOK
    <2>2. QED
      BY <1>5, <2>1 DEF SyncNow, GoOnline, TypeOK, server, records
  <1>6. CASE GoOffline
    BY <1>6 DEF GoOffline, TypeOK, server, records
  <1>7. QED
    BY <1>1, <1>2, <1>3, <1>4, <1>5, <1>6 DEF Driver, Connectivity

LEMMA ReceiveType ==
  ASSUME TypeOK, NEW r \in Slot, Receive(r)
  PROVE  TypeOK'
  <1>1. [req EXCEPT ![r] = FreeRequest] \in [Slot -> Request]
    BY FreeType DEF TypeOK
  <1>2. CASE ReceiveResults(r)
    <2>1. req[r] \in Request
      BY DEF TypeOK
    <2>2. status' \in [Op -> Status]
      BY <1>2, <2>1 DEF ReceiveResults, TypeOK, Request, Result, Status
    <2>3. retryCount' \in [Op -> 0..MaxRetryAttempts]
      <3>1. \A n \in 0..MaxRetryAttempts : Bumped(n) \in 0..MaxRetryAttempts
        BY BoundAssumption DEF Bumped
      <3>2. QED
        BY <1>2, <3>1 DEF ReceiveResults, TypeOK
    <2>4. QED
      BY <1>1, <1>2, <2>2, <2>3 DEF ReceiveResults, TypeOK, server, records
  <1>3. CASE ReceiveUnauthorized(r)
    BY <1>1, <1>3 DEF ReceiveUnauthorized, TypeOK, Status, server, records
  <1>4. CASE ReceiveError(r)
    BY <1>1, <1>4, RequeueType DEF ReceiveError, TypeOK, server, records
  <1>5. CASE FetchFails(r)
    <2>1. req[r] \in Request /\ FreeRequest.result \in [Op -> Result]
      BY DEF TypeOK, FreeRequest, Result
    <2>2. [req[r] EXCEPT !.ops = {}, !.result = FreeRequest.result] \in Request
      BY <2>1 DEF Request
    <2>3. [req EXCEPT ![r].ops = {}, ![r].result = FreeRequest.result] \in [Slot -> Request]
      BY <2>1, <2>2 DEF TypeOK, Request
    <2>4. req' \in [Slot -> Request]
      BY <1>1, <1>5, <2>3 DEF FetchFails
    <2>5. QED
      BY <1>5, <2>4, RequeueType DEF FetchFails, TypeOK, server, records
  <1>6. QED
    BY <1>2, <1>3, <1>4, <1>5 DEF Receive

LEMMA HandlerType ==
  ASSUME TypeOK, NEW r \in Slot, Handler(r) \/ Faults(r)
  PROVE  TypeOK'
  <1>1. req[r] \in Request /\ req \in [Slot -> Request]
    BY DEF TypeOK
  <1>2. ASSUME req' \in [Slot -> Request], UNCHANGED <<client, session, server>>
        PROVE  TypeOK'
    BY <1>2 DEF TypeOK, client, server, records
  <1>3. CASE Arrive(r)
    <2>1. req' \in [Slot -> Request]
      BY <1>1, <1>3, RespondType DEF Arrive, Request
    <2>2. QED
      BY <1>2, <1>3, <2>1 DEF Arrive
  <1>4. CASE Finish(r) \/ ServerError(r)
    BY <1>2, <1>4, RespondType DEF Finish, ServerError
  <1>5. CASE Lose(r)
    <2>1. [req[r] EXCEPT !.phase = "lost"] \in Request
      BY <1>1 DEF Request
    <2>2. QED
      BY <1>1, <1>2, <1>5, <2>1, FreeType DEF Lose
  <1>6. ASSUME NEW o \in Op, ProcessUnknown(r, o) PROVE TypeOK'
    BY <1>6, AnswerType DEF ProcessUnknown, TypeOK, client, records, Result
  <1>7. ASSUME NEW o \in Op, ProcessPod(r, o) PROVE TypeOK'
    <2>1. Answer(r, o, "CONFLICT") \/ Answer(r, o, "SYNCED")
      BY <1>7 DEF ProcessPod
    <2>2. /\ req' \in [Slot -> Request]
          /\ processed' \subseteq Op
          /\ UNCHANGED <<client, session>>
      BY <2>1, AnswerType DEF Result
    <2>3. ship' \in [Shipment -> ShipStatus]
      BY <1>7 DEF ProcessPod, TypeOK, ShipStatus
    <2>4. proof' \in [Shipment -> Pod \cup {NoProof, Office}]
      BY <1>7 DEF ProcessPod, TypeOK, LateProof
    <2>5. settled' \subseteq Shipment
      BY <1>7, OpAssumption DEF ProcessPod, TypeOK
    <2>6. QED
      BY <1>7, <2>2, <2>3, <2>4, <2>5 DEF ProcessPod, TypeOK, client
  <1>8. ASSUME NEW o \in Op, ProcessCheckpoint(r, o) PROVE TypeOK'
    <2>1. Answer(r, o, "CONFLICT") \/ Answer(r, o, "SYNCED")
      BY <1>8 DEF ProcessCheckpoint
    <2>2. cleared' \subseteq Stop
      BY <1>8, OpAssumption DEF ProcessCheckpoint, TypeOK
    <2>3. QED
      BY <1>8, <2>1, <2>2, AnswerType DEF ProcessCheckpoint, TypeOK, client, Result
  <1>9. ASSUME NEW o \in Op, ProcessReading(r, o) PROVE TypeOK'
    <2>1. ingested' \in [Reading -> 0..MaxCounted]
      BY <1>9, BoundAssumption DEF ProcessReading, TypeOK
    <2>2. ship' \in [Shipment -> ShipStatus] /\ settled' \subseteq Shipment
      BY <1>9 DEF ProcessReading, TypeOK, ShipStatus
    <2>3. QED
      BY <1>9, <2>1, <2>2, AnswerType DEF ProcessReading, TypeOK, client, Result
  <1>10. ASSUME NEW o \in Op, ProcessReport(r, o) PROVE TypeOK'
    <2>1. raised' \subseteq Key
      BY <1>10, OpAssumption DEF ProcessReport, TypeOK
    <2>2. QED
      BY <1>10, <2>1, AnswerType DEF ProcessReport, TypeOK, client, Result
  <1>11. QED
    BY <1>3, <1>4, <1>5, <1>6, <1>7, <1>8, <1>9, <1>10 DEF Handler, Process, Faults

LEMMA DispatchType ==
  ASSUME TypeOK, Dispatch \/ SessionExpires \/ Reauthenticate
  PROVE  TypeOK'
  <1>1. ASSUME NEW s \in Shipment, ReviseShipment(s) PROVE TypeOK'
    BY <1>1 DEF ReviseShipment, TypeOK, client
  <1>2. ASSUME NEW s \in Shipment, EditSignature(s) PROVE TypeOK'
    BY <1>2 DEF EditSignature, TypeOK, client
  <1>3. ASSUME NEW t \in Trip, EditTrip(t) PROVE TypeOK'
    BY <1>3 DEF EditTrip, TypeOK, client
  <1>4. ASSUME NEW k \in Key, OtherCabReports(k) PROVE TypeOK'
    BY <1>4 DEF OtherCabReports, TypeOK, client
  <1>5. CASE SessionExpires \/ Reauthenticate
    BY <1>5 DEF SessionExpires, Reauthenticate, TypeOK, client, server, records
  <1>6. QED
    BY <1>1, <1>2, <1>3, <1>4, <1>5 DEF Dispatch

LEMMA StutterType == TypeOK /\ UNCHANGED vars => TypeOK'
  BY DEF TypeOK, vars, client, server, records

(* Whatever is recorded, lost, retried or cancelled, both ends keep to     *)
(* their declared states (all of FieldSync's actions).                     *)
THEOREM TypeCorrect == Spec => []TypeOK
  <1>1. TypeOK /\ [Next]_vars => TypeOK'
    BY DriverType, ReceiveType, HandlerType, DispatchType, StutterType DEF Next
  <1>2. QED
    BY <1>1, InitType, PTL DEF Spec

-----------------------------------------------------------------------------
(* The inductive invariant.  What the driver is shown comes from the       *)
(* result map of some exchange, so ToldTheTruth is preserved only because  *)
(* every exchange, awaited or abandoned, carries a true and, once it ends, *)
(* a complete result map.                                                  *)

ResultsTrue ==
  \A r \in Slot : \A o \in Op :
    /\ req[r].result[o] # "none" => o \in processed
    /\ req[r].result[o] = "SYNCED" => Applied(o)
    /\ req[r].result[o] = "CONFLICT" => o \in Pod \/ Refused(o)

ResultsComplete ==
  \A r \in Slot : r = call =>
    /\ req[r].phase \in {"transit", "running"}
         => \A o \in req[r].ops \ req[r].todo : req[r].result[o] # "none"
    /\ req[r].phase = "done" /\ req[r].code = "ok"
         => \A o \in req[r].ops : req[r].result[o] # "none"

CancelledWasRevoked == \A t \in Trip : trip[t] = "CANCELLED" => t \in revoked

(* What dispatch has left alone since a proof was accepted is delivered.   *)
SettledIsDelivered == \A s \in settled : ship[s] = "DELIVERED"

IInv ==
  /\ TypeOK /\ ResultsTrue /\ ResultsComplete /\ CancelledWasRevoked
  /\ ToldTheTruth /\ NothingLost /\ SyncingIsInFlight

(* What happened stays on record: an operation that took effect, or was    *)
(* refused, remains so.                                                    *)
Monotone ==
  /\ \A o \in Reading : ingested[o] > 0 => ingested'[o] > 0
  /\ cleared \subseteq cleared' /\ processed \subseteq processed'
  /\ raised \subseteq raised' /\ revoked \subseteq revoked'

LEMMA ServerMonotone ==
  ASSUME UNCHANGED server PROVE Monotone
  BY DEF server, records, Monotone

LEMMA ProcessMonotone ==
  ASSUME TypeOK, NEW r \in Slot, Process(r)
  PROVE  Monotone
  <1>1. \A o \in Reading : ingested[o] \in 0..MaxCounted
    BY DEF TypeOK
  <1>2. ASSUME NEW o \in Op, ProcessUnknown(r, o) PROVE Monotone
    BY <1>2 DEF ProcessUnknown, Answer, Monotone, records
  <1>3. ASSUME NEW o \in Op, ProcessPod(r, o) PROVE Monotone
    BY <1>3 DEF ProcessPod, Answer, Monotone
  <1>4. ASSUME NEW o \in Op, ProcessCheckpoint(r, o) PROVE Monotone
    BY <1>4 DEF ProcessCheckpoint, Answer, Monotone
  <1>5. ASSUME NEW o \in Op, ProcessReading(r, o) PROVE Monotone
    BY <1>1, <1>5 DEF ProcessReading, Answer, Monotone, TypeOK
  <1>6. ASSUME NEW o \in Op, ProcessReport(r, o) PROVE Monotone
    BY <1>6 DEF ProcessReport, Answer, Monotone
  <1>7. QED
    BY <1>2, <1>3, <1>4, <1>5, <1>6 DEF Process

LEMMA DispatchMonotone ==
  ASSUME Dispatch PROVE Monotone
  BY DEF Dispatch, ReviseShipment, EditSignature, EditTrip, OtherCabReports, Monotone

LEMMA StillTrue ==
  ASSUME Monotone, NEW o \in Op
  PROVE  /\ Applied(o) => Applied(o)'
         /\ Refused(o) => Refused(o)'
  BY OpAssumption DEF Monotone, Applied, Refused

-----------------------------------------------------------------------------
(* Result maps stay true and complete. *)

(* Starting, giving up, losing or ending an exchange invents no result. *)
LEMMA ExchangeKeepsResults ==
  ASSUME TypeOK, ResultsTrue, Monotone,
         \A r \in Slot : \A o \in Op :
           req'[r].result[o] \in {req[r].result[o], "none"}
  PROVE  ResultsTrue'
  <1> SUFFICES ASSUME NEW r \in Slot, NEW o \in Op
      PROVE  /\ req'[r].result[o] # "none" => o \in processed'
             /\ req'[r].result[o] = "SYNCED" => Applied(o)'
             /\ req'[r].result[o] = "CONFLICT" => o \in Pod \/ Refused(o)'
    BY DEF ResultsTrue
  <1>1. QED
    BY StillTrue DEF ResultsTrue, Monotone

LEMMA AnswerKeepsResults ==
  ASSUME TypeOK, ResultsTrue, ResultsComplete, Monotone,
         NEW r \in Slot, NEW o \in Op, NEW res \in Result \ {"none"},
         Answer(r, o, res),
         res = "SYNCED" => Applied(o)',
         res = "CONFLICT" => o \in Pod \/ Refused(o)'
  PROVE  ResultsTrue' /\ ResultsComplete'
  <1>1. req \in [Slot -> Request] /\ req[r] \in Request
    BY DEF TypeOK
  <1>2. \A q \in Slot \ {r} : req'[q] = req[q]
    BY <1>1 DEF Answer
  <1>3. /\ req'[r].phase = req[r].phase /\ req'[r].ops = req[r].ops
        /\ req'[r].code = req[r].code
        /\ req'[r].todo = req[r].todo \ {o}
        /\ req'[r].result = [req[r].result EXCEPT ![o] = IF call = r THEN res ELSE @]
        /\ call' = call
    BY <1>1 DEF Answer, Request, client
  <1>4. req[r].result \in [Op -> Result]
    BY <1>1 DEF Request
  <1>5. ResultsTrue'
    <2> SUFFICES ASSUME NEW q \in Slot, NEW p \in Op
        PROVE  /\ req'[q].result[p] # "none" => p \in processed'
               /\ req'[q].result[p] = "SYNCED" => Applied(p)'
               /\ req'[q].result[p] = "CONFLICT" => p \in Pod \/ Refused(p)'
      BY DEF ResultsTrue
    <2>1. CASE q = r /\ p = o /\ call = r
      BY <1>3, <1>4, <2>1 DEF Answer
    <2>2. CASE ~(q = r /\ p = o /\ call = r)
      <3>1. req'[q].result[p] = req[q].result[p]
        BY <1>2, <1>3, <1>4, <2>2
      <3>2. QED
        BY <3>1, StillTrue DEF ResultsTrue, Monotone
    <2>3. QED
      BY <2>1, <2>2
  <1>6. ResultsComplete'
    <2>1. \A p \in Op : req[r].result[p] # "none" => req'[r].result[p] # "none"
      BY <1>3, <1>4
    <2>2. call = r => req'[r].result[o] # "none"
      BY <1>3, <1>4
    <2>3. req[r].ops \subseteq Op
      BY <1>1 DEF Request
    <2>4. SUFFICES ASSUME NEW q \in Slot, q = call
          PROVE  /\ req'[q].phase \in {"transit", "running"}
                      => \A p \in req'[q].ops \ req'[q].todo : req'[q].result[p] # "none"
                 /\ req'[q].phase = "done" /\ req'[q].code = "ok"
                      => \A p \in req'[q].ops : req'[q].result[p] # "none"
      BY <1>3 DEF ResultsComplete
    <2>5. CASE q = r
      BY <1>3, <2>1, <2>2, <2>3, <2>4, <2>5 DEF ResultsComplete
    <2>6. CASE q # r
      BY <1>2, <2>4, <2>6 DEF ResultsComplete
    <2>7. QED
      BY <2>5, <2>6
  <1>7. QED
    BY <1>5, <1>6

(* What the operations of one batch find on record is what they answer. *)
LEMMA ProcessKeepsResults ==
  ASSUME TypeOK, ResultsTrue, ResultsComplete, CancelledWasRevoked,
         NEW r \in Slot, Process(r)
  PROVE  ResultsTrue' /\ ResultsComplete'
  <1> USE ProcessMonotone DEF Result
  <1>1. ASSUME NEW o \in Op, ProcessUnknown(r, o) PROVE ResultsTrue' /\ ResultsComplete'
    BY <1>1, AnswerKeepsResults DEF ProcessUnknown
  <1>2. ASSUME NEW o \in Op, ProcessPod(r, o) PROVE ResultsTrue' /\ ResultsComplete'
    <2>1. o \in Pod /\ o \notin Checkpoint \cup Reading \cup Report
      BY <1>2, OpAssumption DEF ProcessPod
    <2>2. Answer(r, o, "CONFLICT") \/ Answer(r, o, "SYNCED")
      BY <1>2 DEF ProcessPod
    <2>3. QED
      BY <1>2, <2>1, <2>2, AnswerKeepsResults DEF Applied
  <1>3. ASSUME NEW o \in Op, ProcessCheckpoint(r, o)
        PROVE  ResultsTrue' /\ ResultsComplete'
    <2>1. o \in Checkpoint /\ o \notin Pod \cup Reading \cup Report
          /\ TripOf[StopOf[o]] \in Trip
      BY <1>3, OpAssumption DEF ProcessCheckpoint
    <2>2. CASE trip[TripOf[StopOf[o]]] = "CANCELLED"
      <3>1. Answer(r, o, "CONFLICT") /\ revoked' = revoked
        BY <1>3, <2>2 DEF ProcessCheckpoint
      <3>2. Refused(o)'
        BY <2>1, <2>2, <3>1 DEF Refused, CancelledWasRevoked
      <3>3. QED
        BY <1>3, <3>1, <3>2, AnswerKeepsResults
    <2>3. CASE trip[TripOf[StopOf[o]]] # "CANCELLED"
      <3>1. Answer(r, o, "SYNCED") /\ StopOf[o] \in cleared'
        BY <1>3, <2>3 DEF ProcessCheckpoint
      <3>2. QED
        BY <1>3, <2>1, <3>1, AnswerKeepsResults DEF Applied
    <2>4. QED
      BY <2>2, <2>3
  <1>4. ASSUME NEW o \in Op, ProcessReading(r, o) PROVE ResultsTrue' /\ ResultsComplete'
    <2>1. Answer(r, o, "SYNCED") /\ o \in Reading /\ o \notin Checkpoint \cup Report
      BY <1>4, OpAssumption DEF ProcessReading
    <2>2. ingested'[o] > 0
      BY <1>4, BoundAssumption DEF ProcessReading, TypeOK
    <2>3. QED
      BY <1>4, <2>1, <2>2, AnswerKeepsResults DEF Applied
  <1>5. ASSUME NEW o \in Op, ProcessReport(r, o) PROVE ResultsTrue' /\ ResultsComplete'
    <2>1. Answer(r, o, "SYNCED") /\ o \in Report /\ o \notin Checkpoint \cup Reading
      BY <1>5, OpAssumption DEF ProcessReport
    <2>2. KeyOf[o] \in raised'
      BY <1>5 DEF ProcessReport
    <2>3. QED
      BY <1>5, <2>1, <2>2, AnswerKeepsResults DEF Applied
  <1>6. QED
    BY <1>1, <1>2, <1>3, <1>4, <1>5 DEF Process

LEMMA StartSyncKeepsResults ==
  ASSUME TypeOK, ResultsTrue, ResultsComplete, UNCHANGED server,
         NEW st \in [Op -> Status], StartSync(st)
  PROVE  ResultsTrue' /\ ResultsComplete'
  <1>1. CASE UNCHANGED <<call, req>>
    BY <1>1, ServerMonotone, ExchangeKeepsResults DEF ResultsComplete
  <1>2. CASE ~UNCHANGED <<call, req>>
    <2>1. PICK r \in Slot :
            /\ call' = r
            /\ req' = [req EXCEPT ![r] = [FreeRequest EXCEPT !.phase = "transit",
                                  !.ops = Sendable(st), !.todo = Sendable(st)]]
      BY <1>2 DEF StartSync
    <2>2. \A q \in Slot \ {r} : req'[q] = req[q]
      BY <2>1 DEF TypeOK
    <2>3. /\ req'[r].phase = "transit" /\ req'[r].ops = req'[r].todo
          /\ \A o \in Op : req'[r].result[o] = "none"
      BY <2>1 DEF TypeOK, FreeRequest
    <2>4. ResultsTrue'
      BY <2>2, <2>3, ServerMonotone, ExchangeKeepsResults
    <2>5. ResultsComplete'
      BY <2>1, <2>3 DEF ResultsComplete
    <2>6. QED
      BY <2>4, <2>5
  <1>3. QED
    BY <1>1, <1>2

(* An exchange that is freed, or whose response has no result map, says    *)
(* nothing.                                                                *)
LEMMA ReceiveKeepsResults ==
  ASSUME TypeOK, ResultsTrue, NEW r \in Slot, Receive(r)
  PROVE  ResultsTrue' /\ ResultsComplete'
  <1>1. req \in [Slot -> Request] /\ req[r] \in Request
    BY DEF TypeOK
  <1>2. UNCHANGED server /\ call' = Idle
    BY DEF Receive, ReceiveResults, ReceiveUnauthorized, ReceiveError, FetchFails
  <1>3. \/ req' = [req EXCEPT ![r] = FreeRequest]
        \/ req' = [req EXCEPT ![r].ops = {}, ![r].result = FreeRequest.result]
    BY DEF Receive, ReceiveResults, ReceiveUnauthorized, ReceiveError, FetchFails
  <1>4. \A q \in Slot : \A o \in Op : req'[q].result[o] \in {req[q].result[o], "none"}
    <2>1. \A q \in Slot \ {r} : req'[q] = req[q]
      BY <1>1, <1>3
    <2>2. req'[r].result = FreeRequest.result
      BY <1>1, <1>3 DEF Request
    <2>3. QED
      BY <2>1, <2>2 DEF FreeRequest
  <1>5. ResultsTrue'
    BY <1>2, <1>4, ServerMonotone, ExchangeKeepsResults
  <1>6. ResultsComplete'
    BY <1>2, OpAssumption DEF ResultsComplete
  <1>7. QED
    BY <1>5, <1>6

LEMMA ExchangeStepKeepsResults ==
  ASSUME TypeOK, ResultsTrue, ResultsComplete, NEW r \in Slot,
         Arrive(r) \/ Finish(r) \/ Faults(r)
  PROVE  ResultsTrue' /\ ResultsComplete'
  <1>1. req \in [Slot -> Request] /\ req[r] \in Request
    BY DEF TypeOK
  <1>2. \A q \in Slot \ {r} : req'[q] = req[q]
    BY <1>1 DEF Arrive, Finish, Faults, ServerError, Lose, Respond
  <1>3. UNCHANGED server /\ call' = call
    BY DEF Arrive, Finish, Faults, ServerError, Lose, client
  <1>4. CASE req'[r] = FreeRequest
    <2>1. /\ FreeRequest.phase = "free"
          /\ \A o \in Op : FreeRequest.result[o] = "none"
      BY DEF FreeRequest
    <2>2. ResultsTrue'
      BY <1>2, <1>3, <1>4, <2>1, ServerMonotone, ExchangeKeepsResults
    <2>3. ResultsComplete'
      BY <1>2, <1>3, <1>4, <2>1 DEF ResultsComplete
    <2>4. QED
      BY <2>2, <2>3
  <1>5. CASE req'[r] # FreeRequest
    <2> DEFINE Answered(c) == [req[r] EXCEPT !.phase = "done", !.code = c]
               Shape ==
                 \/ /\ req'[r] = [req[r] EXCEPT !.phase = "running"]
                    /\ req[r].phase = "transit"
                 \/ req'[r] = [req[r] EXCEPT !.phase = "lost"]
                 \/ req'[r] = Answered("unauthorized")
                 \/ req'[r] = Answered("rejected")
                 \/ /\ req'[r] = Answered("ok")
                    /\ req[r].phase = "running" /\ req[r].todo = {}
    <2>0. Shape
      <3>1. \A c : Respond(r, c) => req'[r] = Answered(c)
        BY <1>1, <1>5 DEF Respond
      <3>2. CASE Arrive(r)
        BY <1>1, <3>1, <3>2 DEF Arrive, Request
      <3>3. CASE Finish(r) \/ ServerError(r)
        BY <3>1, <3>3 DEF Finish, ServerError
      <3>4. CASE Lose(r)
        BY <1>1, <1>5, <3>4 DEF Lose
      <3>5. QED
        BY <3>2, <3>3, <3>4 DEF Faults
    <2>1. /\ req'[r].result = req[r].result /\ req'[r].ops = req[r].ops
          /\ req'[r].todo = req[r].todo
      BY <1>1, <2>0 DEF Request
    <2>2. \/ req'[r].phase = "running" /\ req[r].phase = "transit"
          \/ req'[r].phase = "lost"
          \/ req'[r].phase = "done" /\ req'[r].code # "ok"
          \/ /\ req'[r].phase = "done"
             /\ req[r].phase = "running" /\ req[r].todo = {}
      BY <1>1, <2>0 DEF Request
    <2>3. ResultsTrue'
      BY <1>2, <1>3, <2>1, ServerMonotone, ExchangeKeepsResults
    <2>4. ResultsComplete'
      <3>1. r = call /\ req'[r].phase = "done" /\ req'[r].code = "ok"
              => \A o \in req'[r].ops : req'[r].result[o] # "none"
        BY <2>1, <2>2 DEF ResultsComplete
      <3>2. r = call /\ req'[r].phase \in {"transit", "running"}
              => \A o \in req'[r].ops \ req'[r].todo : req'[r].result[o] # "none"
        BY <2>1, <2>2 DEF ResultsComplete
      <3>3. QED
        BY <1>2, <1>3, <3>1, <3>2 DEF ResultsComplete
    <2>5. QED
      BY <2>3, <2>4
  <1>6. QED
    BY <1>4, <1>5

-----------------------------------------------------------------------------
(* What the driver is shown stays true, and nothing leaves unhandled. *)

(* A change of status that the records of the server bear out. *)
Warranted(o) ==
  \/ status'[o] \in {status[o], "QUEUED", "SYNCING", "FAILED", "AUTH_REQUIRED"}
  \/ status'[o] = "SYNCED" /\ Applied(o)' /\ o \in processed'
  \/ /\ status'[o] = "CONFLICT" /\ o \in processed'
     /\ o \in Pod \/ Refused(o)'
  \/ status'[o] = "GONE" /\ o \in processed' \cup evicted'

LEMMA WarrantedSuffices ==
  ASSUME ToldTheTruth, NothingLost, Monotone, evicted \subseteq evicted',
         \A o \in Op : Warranted(o)
  PROVE  ToldTheTruth' /\ NothingLost'
  <1>1. ToldTheTruth'
    <2> SUFFICES ASSUME NEW o \in Op \ Pod
                 PROVE  /\ status'[o] = "SYNCED" => Applied(o)'
                        /\ status'[o] = "CONFLICT" => Refused(o)'
      BY DEF ToldTheTruth
    <2>1. QED
      BY StillTrue DEF ToldTheTruth, Warranted
  <1>2. NothingLost'
    BY DEF NothingLost, Warranted, Monotone
  <1>3. QED
    BY <1>1, <1>2

LEMMA StartSyncWarranted ==
  ASSUME NEW st \in [Op -> Status], StartSync(st), NEW o \in Op
  PROVE  status'[o] \in {st[o], "SYNCING"}
  BY DEF StartSync

LEMMA DriverKeepsTruth ==
  ASSUME IInv, Driver \/ Connectivity
  PROVE  ToldTheTruth' /\ NothingLost'
  <1>1. UNCHANGED server /\ Monotone
    BY ServerMonotone
       DEF Driver, Connectivity, Enqueue, Retry, Dismiss, SyncNow, ClearSynced,
           GoOnline, GoOffline
  <1>2. evicted \subseteq evicted'
    BY DEF Driver, Connectivity, Enqueue, Retry, Dismiss, SyncNow, ClearSynced,
           GoOnline, GoOffline
  <1>3. status \in [Op -> Status] /\ processed' = processed
    BY <1>1 DEF IInv, TypeOK, server, records
  <1> USE DEF Warranted
  <1>4. ASSUME NEW o \in Op
        PROVE  Warranted(o)
    <2>1. ASSUME NEW p \in Op, Enqueue(p) PROVE Warranted(o)
      <3> DEFINE next == [q \in Op |-> IF q = p THEN "QUEUED"
                                       ELSE IF q \in Dropped THEN "GONE" ELSE status[q]]
      <3>1. next \in [Op -> Status]
        BY <1>3 DEF Status
      <3>2. status'[o] \in {next[o], "SYNCING"}
        BY <2>1, <3>1, StartSyncWarranted DEF Enqueue
      <3>3. o \in Dropped => o \in evicted'
        BY <2>1 DEF Enqueue
      <3>4. QED
        BY <3>2, <3>3
    <2>2. ASSUME NEW p \in Op, Retry(p) PROVE Warranted(o)
      <3> DEFINE next == [status EXCEPT ![p] = "QUEUED"]
      <3>1. next \in [Op -> Status]
        BY <1>3 DEF Status
      <3>2. status'[o] \in {next[o], "SYNCING"}
        BY <2>2, <3>1, StartSyncWarranted DEF Retry
      <3>3. QED
        BY <1>3, <3>2
    <2>3. ASSUME NEW p \in Op, Dismiss(p) PROVE Warranted(o)
      BY <1>3, <2>3 DEF Dismiss, IInv, NothingLost
    <2>4. CASE ClearSynced
      BY <1>3, <2>4 DEF ClearSynced, IInv, NothingLost
    <2>5. CASE SyncNow \/ GoOnline
      BY <1>3, <2>5, StartSyncWarranted DEF SyncNow, GoOnline
    <2>6. CASE GoOffline
      BY <2>6 DEF GoOffline
    <2>7. QED
      BY <2>1, <2>2, <2>3, <2>4, <2>5, <2>6 DEF Driver, Connectivity
  <1>5. QED
    BY <1>1, <1>2, <1>4, WarrantedSuffices DEF IInv

LEMMA ReceiveKeepsTruth ==
  ASSUME IInv, NEW r \in Slot, Receive(r)
  PROVE  ToldTheTruth' /\ NothingLost'
  <1>1. UNCHANGED server /\ Monotone /\ evicted' = evicted
    BY ServerMonotone
       DEF Receive, ReceiveResults, ReceiveUnauthorized, ReceiveError, FetchFails
  <1>2. ASSUME NEW o \in Op
        PROVE  Warranted(o)
    <2>1. CASE ReceiveResults(r)
      <3>1. CASE o \in Awaiting(r)
        <4>1. /\ req[r].result[o] \in {"SYNCED", "CONFLICT", "FAILED"}
              /\ status'[o] = req[r].result[o]
          BY <2>1, <3>1
             DEF ReceiveResults, Awaiting, IInv, TypeOK, ResultsComplete, Request, Result
        <4>2. /\ o \in processed'
              /\ req[r].result[o] = "SYNCED" => Applied(o)'
              /\ req[r].result[o] = "CONFLICT" => o \in Pod \/ Refused(o)'
          BY <1>1, <4>1, StillTrue DEF IInv, ResultsTrue, Monotone
        <4>3. QED
          BY <4>1, <4>2 DEF Warranted
      <3>2. CASE o \notin Awaiting(r)
        BY <2>1, <3>2 DEF ReceiveResults, Warranted
      <3>3. QED
        BY <3>1, <3>2
    <2>2. CASE ReceiveUnauthorized(r)
      BY <2>2 DEF ReceiveUnauthorized, Warranted
    <2>3. CASE ReceiveError(r) \/ FetchFails(r)
      BY <2>3 DEF ReceiveError, FetchFails, RequeueAll, Warranted
    <2>4. QED
      BY <2>1, <2>2, <2>3 DEF Receive
  <1>3. QED
    BY <1>1, <1>2, WarrantedSuffices DEF IInv

LEMMA OthersKeepTruth ==
  ASSUME IInv, UNCHANGED client, Monotone
  PROVE  ToldTheTruth' /\ NothingLost'
  BY WarrantedSuffices DEF IInv, client, Warranted

-----------------------------------------------------------------------------
(* Single flight: no item is marked SYNCING outside the awaited exchange. *)

LEMMA StartSyncKeepsFlight ==
  ASSUME TypeOK, SyncingIsInFlight, NEW st \in [Op -> Status], StartSync(st),
         \A o \in Op : st[o] = "SYNCING" => status[o] = "SYNCING"
  PROVE  SyncingIsInFlight'
  <1>1. CASE call # Idle \/ Sendable(st) = {}
    BY <1>1 DEF StartSync, SyncingIsInFlight
  <1>2. CASE ~(call # Idle \/ Sendable(st) = {})
    <2>1. PICK r \in Slot :
            /\ call' = r
            /\ req' = [req EXCEPT ![r] = [FreeRequest EXCEPT !.phase = "transit",
                                  !.ops = Sendable(st), !.todo = Sendable(st)]]
            /\ status' = [o \in Op |-> IF o \in Sendable(st) THEN "SYNCING" ELSE st[o]]
      BY <1>2 DEF StartSync
    <2>2. req'[r].ops = Sendable(st) /\ r # Idle
      BY <2>1, OpAssumption DEF TypeOK, FreeRequest
    <2>3. QED
      BY <1>2, <2>1, <2>2 DEF SyncingIsInFlight
  <1>3. QED
    BY <1>1, <1>2

LEMMA DriverKeepsFlight ==
  ASSUME TypeOK, SyncingIsInFlight, Driver \/ Connectivity
  PROVE  SyncingIsInFlight'
  <1>1. ASSUME NEW p \in Op, Enqueue(p) PROVE SyncingIsInFlight'
    <2> DEFINE next == [q \in Op |-> IF q = p THEN "QUEUED"
                                     ELSE IF q \in Dropped THEN "GONE" ELSE status[q]]
    <2>1. /\ next \in [Op -> Status]
          /\ \A o \in Op : next[o] = "SYNCING" => status[o] = "SYNCING"
      BY DEF TypeOK, Status
    <2>2. StartSync(next) \/ (status' = next /\ UNCHANGED <<call, req>>)
      BY <1>1 DEF Enqueue
    <2> HIDE DEF next
    <2>3. QED
      BY <2>1, <2>2, StartSyncKeepsFlight DEF SyncingIsInFlight
  <1>2. ASSUME NEW p \in Op, Retry(p) PROVE SyncingIsInFlight'
    <2> DEFINE next == [status EXCEPT ![p] = "QUEUED"]
    <2>1. /\ next \in [Op -> Status]
          /\ \A o \in Op : next[o] = "SYNCING" => status[o] = "SYNCING"
      BY DEF TypeOK, Status
    <2>2. StartSync(next) \/ (status' = next /\ UNCHANGED <<call, req>>)
      BY <1>2 DEF Retry
    <2> HIDE DEF next
    <2>3. QED
      BY <2>1, <2>2, StartSyncKeepsFlight DEF SyncingIsInFlight
  <1>3. ASSUME NEW p \in Op, Dismiss(p) PROVE SyncingIsInFlight'
    BY <1>3 DEF Dismiss, SyncingIsInFlight, TypeOK
  <1>4. CASE ClearSynced \/ GoOffline
    BY <1>4 DEF ClearSynced, GoOffline, SyncingIsInFlight
  <1>5. CASE SyncNow \/ GoOnline
    BY <1>5, StartSyncKeepsFlight DEF SyncNow, GoOnline, TypeOK
  <1>6. QED
    BY <1>1, <1>2, <1>3, <1>4, <1>5 DEF Driver, Connectivity

LEMMA ReceiveKeepsFlight ==
  ASSUME TypeOK, SyncingIsInFlight, NEW r \in Slot, Receive(r)
  PROVE  SyncingIsInFlight'
  <1>1. call = r /\ call' = Idle
    BY DEF Receive, ReceiveResults, ReceiveUnauthorized, ReceiveError, FetchFails
  <1>2. \A o \in Op : status[o] = "SYNCING" => o \in Awaiting(r)
    BY <1>1 DEF SyncingIsInFlight, Awaiting
  <1>3. \A o \in Op : status'[o] # "SYNCING"
    BY <1>2
       DEF Receive, ReceiveResults, ReceiveUnauthorized, ReceiveError, FetchFails,
           RequeueAll, Awaiting, TypeOK, Request, Result
  <1>4. QED
    BY <1>3 DEF SyncingIsInFlight

(* The server never changes what the awaited exchange carries. *)
LEMMA HandlerKeepsFlight ==
  ASSUME TypeOK, SyncingIsInFlight, NEW r \in Slot, Handler(r) \/ Faults(r)
  PROVE  SyncingIsInFlight'
  <1>1. req \in [Slot -> Request] /\ req[r] \in Request
    BY DEF TypeOK
  <1>2. UNCHANGED client
    BY DEF Handler, Faults, Arrive, Process, Finish, ServerError, Lose, Answer,
           ProcessUnknown, ProcessPod, ProcessCheckpoint, ProcessReading, ProcessReport
  <1>3. ASSUME call # Idle PROVE req'[call].ops = req[call].ops
    <2>1. call \in Slot
      BY <1>3 DEF TypeOK
    <2>2. \A c : Respond(r, c) => req'[call].ops = req[call].ops
      BY <1>1, <2>1 DEF Respond, Request
    <2>3. \A o, v : Answer(r, o, v) => req'[call].ops = req[call].ops
      BY <1>1, <2>1 DEF Answer, Request
    <2>4. CASE Process(r)
      BY <2>3, <2>4
         DEF Process, ProcessUnknown, ProcessPod, ProcessCheckpoint, ProcessReading,
             ProcessReport
    <2>5. CASE Arrive(r)
      BY <1>1, <2>1, <2>2, <2>5 DEF Arrive, Request
    <2>6. CASE Lose(r)
      BY <1>1, <2>1, <2>6 DEF Lose, Request
    <2>7. CASE Finish(r) \/ ServerError(r)
      BY <2>2, <2>7 DEF Finish, ServerError
    <2>8. QED
      BY <2>4, <2>5, <2>6, <2>7 DEF Handler, Faults
  <1>4. QED
    BY <1>2, <1>3 DEF SyncingIsInFlight, client

-----------------------------------------------------------------------------
(* Deliveries. *)

(* Only a proof of delivery, a departure and dispatch touch a consignment. *)
LEMMA DeliveryUntouched ==
  ASSUME [Next]_vars, ~UNCHANGED <<ship, proof, settled>>
  PROVE  \/ \E r \in Slot, o \in Op : ProcessPod(r, o) \/ ProcessReading(r, o)
         \/ \E s \in Shipment : ReviseShipment(s) \/ EditSignature(s)
  <1>1. ~(Driver \/ Connectivity)
    BY DEF Driver, Connectivity, Enqueue, Retry, Dismiss, SyncNow, ClearSynced,
           GoOnline, GoOffline, server, records
  <1>2. ASSUME NEW r \in Slot
        PROVE  ~(Receive(r) \/ Arrive(r) \/ Finish(r) \/ Faults(r))
    BY DEF Receive, ReceiveResults, ReceiveUnauthorized, ReceiveError, FetchFails,
           Arrive, Finish, Faults, ServerError, Lose, server, records
  <1>3. ASSUME NEW r \in Slot, Process(r)
        PROVE  \E o \in Op : ProcessPod(r, o) \/ ProcessReading(r, o)
    BY <1>3 DEF Process, ProcessUnknown, ProcessCheckpoint, ProcessReport, records
  <1>4. ~(SessionExpires \/ Reauthenticate \/ (\E t \in Trip : EditTrip(t))
          \/ (\E k \in Key : OtherCabReports(k)) \/ UNCHANGED vars)
    BY DEF SessionExpires, Reauthenticate, EditTrip, OtherCabReports, vars, server, records
  <1>5. QED
    BY <1>1, <1>2, <1>3, <1>4 DEF Next, Handler, Dispatch

LEMMA ProofStep ==
  ASSUME TypeOK, SettledIsDelivered, [Next]_vars
  PROVE  /\ SettledIsDelivered'
         /\ \A s \in settled \cap settled' : proof[s] # NoProof => proof'[s] = proof[s]
  <1>1. CASE UNCHANGED <<ship, proof, settled>>
    BY <1>1 DEF SettledIsDelivered
  <1>2. ASSUME NEW r \in Slot, NEW o \in Op, ProcessPod(r, o)
        PROVE  /\ SettledIsDelivered'
               /\ \A s \in settled \cap settled' : proof[s] # NoProof => proof'[s] = proof[s]
    BY <1>2, OpAssumption DEF ProcessPod, LateProof, SettledIsDelivered, TypeOK
  <1>3. ASSUME NEW r \in Slot, NEW o \in Op, ProcessReading(r, o)
        PROVE  SettledIsDelivered' /\ proof' = proof
    BY <1>3 DEF ProcessReading, SettledIsDelivered, TypeOK
  <1>4. ASSUME NEW s \in Shipment, ReviseShipment(s) \/ EditSignature(s)
        PROVE  /\ SettledIsDelivered'
               /\ \A c \in settled \cap settled' : proof'[c] = proof[c]
    BY <1>4 DEF ReviseShipment, EditSignature, SettledIsDelivered, TypeOK
  <1>5. QED
    BY <1>1, <1>2, <1>3, <1>4, DeliveryUntouched

LEMMA RevokedStep ==
  ASSUME TypeOK, CancelledWasRevoked, [Next]_vars, Monotone
  PROVE  CancelledWasRevoked'
  <1>1. CASE trip' = trip
    BY <1>1 DEF CancelledWasRevoked, Monotone
  <1>2. ASSUME NEW t \in Trip, EditTrip(t) PROVE CancelledWasRevoked'
    BY <1>2 DEF EditTrip, CancelledWasRevoked, TypeOK
  <1>3. ASSUME NEW r \in Slot, Receive(r) \/ Handler(r) \/ Faults(r)
        PROVE  trip' = trip
    BY <1>3 DEF Receive, ReceiveResults, ReceiveUnauthorized, ReceiveError, FetchFails,
           Handler, Arrive, Finish, Faults, ServerError, Lose, Process, ProcessUnknown,
           ProcessPod, ProcessCheckpoint, ProcessReading, ProcessReport, server, records
  <1>4. ASSUME \/ Driver \/ Connectivity \/ SessionExpires \/ Reauthenticate
               \/ UNCHANGED vars
        PROVE  trip' = trip
    BY <1>4 DEF Driver, Connectivity, Enqueue, Retry, Dismiss, SyncNow, ClearSynced,
           GoOnline, GoOffline, SessionExpires, Reauthenticate, vars, server, records
  <1>5. ASSUME Dispatch, ~\E t \in Trip : EditTrip(t) PROVE trip' = trip
    BY <1>5 DEF Dispatch, ReviseShipment, EditSignature, OtherCabReports
  <1>6. QED
    BY <1>1, <1>2, <1>3, <1>4, <1>5 DEF Next

-----------------------------------------------------------------------------
(* The theorems. *)

LEMMA NextMonotone ==
  ASSUME TypeOK, [Next]_vars
  PROVE  Monotone
  <1>1. ASSUME NEW r \in Slot, Receive(r) \/ Arrive(r) \/ Finish(r) \/ Faults(r)
        PROVE  UNCHANGED server
    BY <1>1 DEF Receive, ReceiveResults, ReceiveUnauthorized, ReceiveError, FetchFails,
                Arrive, Finish, Faults, ServerError, Lose
  <1>2. ASSUME \/ Driver \/ Connectivity \/ SessionExpires \/ Reauthenticate
               \/ UNCHANGED vars
        PROVE  UNCHANGED server
    BY <1>2 DEF Driver, Connectivity, Enqueue, Retry, Dismiss, SyncNow, ClearSynced,
                GoOnline, GoOffline, SessionExpires, Reauthenticate, vars
  <1>3. QED
    BY <1>1, <1>2, ServerMonotone, ProcessMonotone, DispatchMonotone DEF Next, Handler

LEMMA IndInit == Init => IInv
  <1> SUFFICES ASSUME Init PROVE IInv
    OBVIOUS
  <1>1. /\ \A o \in Op : status[o] = "NEW"
        /\ \A r \in Slot : req[r] = FreeRequest
        /\ \A t \in Trip : trip[t] = "ACTIVE"
    BY DEF Init
  <1>2. ResultsTrue /\ ResultsComplete /\ CancelledWasRevoked
    BY <1>1 DEF ResultsTrue, ResultsComplete, FreeRequest, CancelledWasRevoked
  <1>3. QED
    BY <1>1, <1>2, InitType
       DEF IInv, ToldTheTruth, NothingLost, SyncingIsInFlight

LEMMA IndStep ==
  ASSUME IInv, [Next]_vars
  PROVE  IInv'
  <1> USE DEF IInv
  <1>1. Monotone
    BY NextMonotone
  <1>2. CancelledWasRevoked'
    BY <1>1, RevokedStep
  <1>3. CASE Driver \/ Connectivity
    <2>1. TypeOK' /\ ToldTheTruth' /\ NothingLost' /\ SyncingIsInFlight'
      BY <1>3, DriverType, DriverKeepsTruth, DriverKeepsFlight
    <2>2. ResultsTrue' /\ ResultsComplete'
      <3>1. UNCHANGED server
        BY <1>3 DEF Driver, Connectivity, Enqueue, Retry, Dismiss, SyncNow, ClearSynced,
                    GoOnline, GoOffline
      <3>2. UNCHANGED <<call, req>> \/ \E st \in [Op -> Status] : StartSync(st)
        <4>1. status \in [Op -> Status] /\ "QUEUED" \in Status /\ "GONE" \in Status
          BY DEF TypeOK, Status
        <4>2. ASSUME NEW p \in Op, Enqueue(p)
              PROVE  UNCHANGED <<call, req>> \/ \E st \in [Op -> Status] : StartSync(st)
          <5> DEFINE next == [q \in Op |-> IF q = p THEN "QUEUED"
                                           ELSE IF q \in Dropped THEN "GONE" ELSE status[q]]
          <5>1. next \in [Op -> Status]
            BY <4>1
          <5>2. StartSync(next) \/ UNCHANGED <<call, req>>
            BY <4>2 DEF Enqueue
          <5> HIDE DEF next
          <5>3. QED
            BY <5>1, <5>2
        <4>3. ASSUME NEW p \in Op, Retry(p)
              PROVE  UNCHANGED <<call, req>> \/ \E st \in [Op -> Status] : StartSync(st)
          <5> DEFINE next == [status EXCEPT ![p] = "QUEUED"]
          <5>1. next \in [Op -> Status]
            BY <4>1
          <5>2. StartSync(next) \/ UNCHANGED <<call, req>>
            BY <4>3 DEF Retry
          <5> HIDE DEF next
          <5>3. QED
            BY <5>1, <5>2
        <4>4. QED
          BY <1>3, <4>1, <4>2, <4>3
             DEF Driver, Connectivity, Dismiss, SyncNow, ClearSynced, GoOnline, GoOffline
      <3>3. QED
        BY <3>1, <3>2, StartSyncKeepsResults, ServerMonotone, ExchangeKeepsResults
           DEF ResultsComplete
    <2>3. QED
      BY <1>2, <2>1, <2>2
  <1>4. ASSUME NEW r \in Slot, Receive(r) PROVE IInv'
    BY <1>2, <1>4, ReceiveType, ReceiveKeepsTruth, ReceiveKeepsFlight, ReceiveKeepsResults
  <1>5. ASSUME NEW r \in Slot, Handler(r) \/ Faults(r) PROVE IInv'
    <2>1. UNCHANGED client
      BY <1>5
         DEF Handler, Faults, Arrive, Process, Finish, ServerError, Lose, Answer,
             ProcessUnknown, ProcessPod, ProcessCheckpoint, ProcessReading, ProcessReport
    <2>2. ResultsTrue' /\ ResultsComplete'
      BY <1>5, ProcessKeepsResults, ExchangeStepKeepsResults DEF Handler
    <2>3. QED
      BY <1>1, <1>2, <1>5, <2>1, <2>2, HandlerType, HandlerKeepsFlight, OthersKeepTruth
  <1>6. CASE Dispatch \/ SessionExpires \/ Reauthenticate \/ UNCHANGED vars
    <2>1. UNCHANGED <<client, req>>
      BY <1>6 DEF Dispatch, ReviseShipment, EditSignature, EditTrip, OtherCabReports,
                  SessionExpires, Reauthenticate, vars
    <2>2. TypeOK'
      BY <1>6, DispatchType, StutterType
    <2>3. ResultsTrue' /\ ResultsComplete'
      BY <1>1, <2>1, ExchangeKeepsResults DEF ResultsComplete, client
    <2>4. SyncingIsInFlight'
      BY <2>1 DEF SyncingIsInFlight, client
    <2>5. QED
      BY <1>1, <1>2, <2>1, <2>2, <2>3, <2>4, OthersKeepTruth
  <1>7. QED
    BY <1>3, <1>4, <1>5, <1>6 DEF Next

(* The inductive invariant holds of every execution. *)
THEOREM Invariance == Spec => []IInv
  <1>1. IInv /\ [Next]_vars => IInv'
    BY IndStep
  <1>2. QED
    BY <1>1, IndInit, PTL DEF Spec

(* What the outbox shows of clearances, readings and reports agrees with   *)
(* the server's records, for any number of operations, batches, lost       *)
(* answers, late requests and edits by dispatch (processSyncBatch's        *)
(* answers and syncOutboxBatch's use of them).                             *)
THEOREM DriverToldTheTruth == Spec => []ToldTheTruth
  <1>1. IInv => ToldTheTruth
    BY DEF IInv
  <1>2. QED
    BY <1>1, Invariance, PTL

(* No operation is settled or leaves the outbox unhandled, except by the   *)
(* capacity rule of enqueueOperation.                                      *)
THEOREM NothingIsLost == Spec => []NothingLost
  <1>1. IInv => NothingLost
    BY DEF IInv
  <1>2. QED
    BY <1>1, Invariance, PTL

(* No path of syncOutboxBatch strands an item in SYNCING: whatever is so   *)
(* marked belongs to the exchange being awaited.                           *)
THEOREM NoItemStranded == Spec => []SyncingIsInFlight
  <1>1. Init => SyncingIsInFlight
    BY DEF Init, SyncingIsInFlight
  <1>2. TypeOK /\ SyncingIsInFlight /\ [Next]_vars => SyncingIsInFlight'
    <2> SUFFICES ASSUME TypeOK, SyncingIsInFlight, [Next]_vars PROVE SyncingIsInFlight'
      OBVIOUS
    <2>1. CASE Dispatch \/ SessionExpires \/ Reauthenticate \/ UNCHANGED vars
      BY <2>1 DEF Dispatch, ReviseShipment, EditSignature, EditTrip, OtherCabReports,
                  SessionExpires, Reauthenticate, vars, client, SyncingIsInFlight
    <2>2. QED
      BY <2>1, DriverKeepsFlight, ReceiveKeepsFlight, HandlerKeepsFlight DEF Next
  <1>3. QED
    BY <1>1, <1>2, TypeCorrect, PTL DEF Spec

(* However often proofs are replayed, the signature on record stays, as    *)
(* long as dispatch does not touch the consignment (the DELIVERED branch   *)
(* of processSingleOperation).                                             *)
THEOREM SignatureStays == Spec => SignatureWrittenOnce
  <1>1. Init => SettledIsDelivered
    BY DEF Init, SettledIsDelivered
  <1>2. TypeOK /\ SettledIsDelivered /\ [Next]_vars
          => /\ SettledIsDelivered'
             /\ \A s \in settled \cap settled' : proof[s] # NoProof => proof'[s] = proof[s]
    BY ProofStep
  <1>3. QED
    BY <1>1, <1>2, TypeCorrect, PTL DEF Spec, SignatureWrittenOnce

-----------------------------------------------------------------------------
(* Refinement: a step of FieldSync judges one proof, or lets dispatch or a *)
(* departure revise outcomes, or changes what the driver is told to what   *)
(* the answer at hand says.                                                *)

outcomeBar ==
  [s \in Shipment |->
    IF ship[s] = "DELIVERED" THEN "delivered"
    ELSE IF ship[s] = "CANCELLED" THEN "cancelled" ELSE "open"]
judgedBar ==
  [p \in Pod |->
    IF call = Idle THEN {}
    ELSE IF req[call].result[p] = "SYNCED" THEN {"accepted"}
    ELSE IF req[call].result[p] = "CONFLICT" THEN {"rejected"} ELSE {}]
toldBar ==
  [p \in Pod |->
    IF status[p] = "SYNCED" THEN "accepted"
    ELSE IF status[p] = "CONFLICT" THEN "rejected" ELSE "nothing"]

LEMMA BarTypes ==
  /\ toldBar' \in [Pod -> {"nothing"} \cup Outcome!Judgement]
  /\ judgedBar' \in [Pod -> SUBSET Outcome!Judgement]
  /\ outcomeBar' \in [Shipment -> Outcome!Outcome]
  BY DEF toldBar, judgedBar, outcomeBar, Outcome!Judgement, Outcome!Outcome

LEMMA TellStep ==
  ASSUME UNCHANGED ship,
         \A p \in Pod : judgedBar'[p] \subseteq judgedBar[p],
         \A p \in Pod : toldBar'[p] = toldBar[p] \/ toldBar'[p] \in {"nothing"} \cup judgedBar[p]
  PROVE  Outcome!Tell
  <1>1. outcomeBar' = outcomeBar
    BY DEF outcomeBar
  <1>2. \A p \in Pod : toldBar'[p] \in {toldBar[p], "nothing"} \cup judgedBar[p]
    OBVIOUS
  <1>3. QED
    BY <1>1, <1>2, BarTypes DEF Outcome!Tell, outcomeBar, toldBar, judgedBar

LEMMA DriverTells ==
  ASSUME TypeOK, Driver \/ Connectivity
  PROVE  Outcome!Tell
  <1>1. ship' = ship
    BY DEF Driver, Connectivity, Enqueue, Retry, Dismiss, SyncNow, ClearSynced,
           GoOnline, GoOffline, server, records
  <1>2. ASSUME NEW st \in [Op -> Status], StartSync(st)
        PROVE  /\ \A o \in Op : status'[o] \in {st[o], "SYNCING"}
               /\ \A p \in Pod : judgedBar'[p] \subseteq judgedBar[p]
    <2>1. CASE UNCHANGED <<call, req>>
      BY <1>2, <2>1, StartSyncWarranted DEF judgedBar
    <2>2. CASE ~UNCHANGED <<call, req>>
      <3>1. PICK r \in Slot :
              /\ call' = r
              /\ req' = [req EXCEPT ![r] = [FreeRequest EXCEPT !.phase = "transit",
                                  !.ops = Sendable(st), !.todo = Sendable(st)]]
        BY <1>2, <2>2 DEF StartSync
      <3>2. \A o \in Op : req'[r].result[o] = "none"
        BY <3>1 DEF TypeOK, FreeRequest
      <3>3. \A p \in Pod : judgedBar'[p] = {}
        BY <3>1, <3>2 DEF judgedBar, Op
      <3>4. QED
        BY <1>2, <3>3, StartSyncWarranted
    <2>3. QED
      BY <2>1, <2>2
  <1>3. ASSUME UNCHANGED <<call, req>> PROVE judgedBar' = judgedBar
    BY <1>3 DEF judgedBar
  <1>4. /\ \A o \in Op : status'[o] \in {status[o], "QUEUED", "SYNCING", "GONE"}
        /\ \A p \in Pod : judgedBar'[p] \subseteq judgedBar[p]
    <2>0. status \in [Op -> Status] /\ "QUEUED" \in Status /\ "GONE" \in Status
      BY DEF TypeOK, Status
    <2>1. ASSUME NEW p \in Op, Enqueue(p) PROVE <1>4
      <3> DEFINE next == [q \in Op |-> IF q = p THEN "QUEUED"
                                       ELSE IF q \in Dropped THEN "GONE" ELSE status[q]]
      <3>1. /\ next \in [Op -> Status]
            /\ \A o \in Op : next[o] \in {status[o], "QUEUED", "GONE"}
        BY <2>0
      <3>2. StartSync(next) \/ (status' = next /\ UNCHANGED <<call, req>>)
        BY <2>1 DEF Enqueue
      <3> HIDE DEF next
      <3>3. CASE StartSync(next)
        BY <1>2, <3>1, <3>3
      <3>4. CASE status' = next /\ UNCHANGED <<call, req>>
        BY <1>3, <3>1, <3>4
      <3>5. QED
        BY <3>2, <3>3, <3>4
    <2>2. ASSUME NEW p \in Op, Retry(p) PROVE <1>4
      <3> DEFINE next == [status EXCEPT ![p] = "QUEUED"]
      <3>1. /\ next \in [Op -> Status]
            /\ \A o \in Op : next[o] \in {status[o], "QUEUED", "GONE"}
        BY <2>0
      <3>2. StartSync(next) \/ (status' = next /\ UNCHANGED <<call, req>>)
        BY <2>2 DEF Retry
      <3> HIDE DEF next
      <3>3. CASE StartSync(next)
        BY <1>2, <3>1, <3>3
      <3>4. CASE status' = next /\ UNCHANGED <<call, req>>
        BY <1>3, <3>1, <3>4
      <3>5. QED
        BY <3>2, <3>3, <3>4
    <2>3. ASSUME NEW p \in Op, Dismiss(p) PROVE <1>4
      BY <1>3, <2>0, <2>3 DEF Dismiss
    <2>4. CASE ClearSynced \/ GoOffline
      BY <1>3, <2>4 DEF ClearSynced, GoOffline
    <2>5. CASE SyncNow \/ GoOnline
      BY <1>2, <2>0, <2>5 DEF SyncNow, GoOnline
    <2>6. QED
      BY <2>1, <2>2, <2>3, <2>4, <2>5 DEF Driver, Connectivity
  <1>5. \A p \in Pod : toldBar'[p] = toldBar[p] \/ toldBar'[p] = "nothing"
    BY <1>4 DEF toldBar, Op
  <1>6. QED
    BY <1>1, <1>4, <1>5, TellStep

(* What the driver is told is what the exchange just awaited says. *)
LEMMA ReceiveTells ==
  ASSUME IInv, NEW r \in Slot, Receive(r)
  PROVE  Outcome!Tell
  <1>1. call = r /\ call' = Idle /\ ship' = ship /\ r # Idle
    BY OpAssumption
       DEF Receive, ReceiveResults, ReceiveUnauthorized, ReceiveError, FetchFails,
           server, records
  <1>2. \A p \in Pod : judgedBar'[p] = {}
    BY <1>1 DEF judgedBar
  <1>3. ASSUME NEW p \in Pod
        PROVE  toldBar'[p] = toldBar[p] \/ toldBar'[p] \in {"nothing"} \cup judgedBar[p]
    <2>1. CASE ReceiveResults(r)
      <3>1. CASE p \in Awaiting(r)
        <4>1. /\ req[r].result[p] \in {"SYNCED", "CONFLICT", "FAILED"}
              /\ status'[p] = req[r].result[p]
          BY <1>1, <2>1, <3>1
             DEF ReceiveResults, Awaiting, IInv, TypeOK, ResultsComplete, Request, Result, Op
        <4>2. QED
          BY <1>1, <4>1 DEF toldBar, judgedBar
      <3>2. CASE p \notin Awaiting(r)
        BY <2>1, <3>2 DEF ReceiveResults, toldBar, Op
      <3>3. QED
        BY <3>1, <3>2
    <2>2. CASE ReceiveUnauthorized(r)
      BY <2>2 DEF ReceiveUnauthorized, toldBar, Op
    <2>3. CASE ReceiveError(r) \/ FetchFails(r)
      BY <2>3 DEF ReceiveError, FetchFails, RequeueAll, toldBar, Op
    <2>4. QED
      BY <2>1, <2>2, <2>3 DEF Receive
  <1>4. QED
    BY <1>1, <1>2, <1>3, TellStep

LEMMA ServeTells ==
  ASSUME TypeOK, NEW r \in Slot, Arrive(r) \/ Finish(r) \/ Faults(r)
  PROVE  Outcome!Tell
  <1>1. req \in [Slot -> Request] /\ req[r] \in Request
    BY DEF TypeOK
  <1>2. UNCHANGED <<status, call, ship>>
    BY DEF Arrive, Finish, Faults, ServerError, Lose, client, server, records
  <1>3. call \in Slot => req'[call].result = req[call].result
    <2>1. ASSUME call \in Slot, NEW c, Respond(r, c)
          PROVE  req'[call].result = req[call].result
      BY <1>1, <2>1 DEF Respond, Request
    <2>2. CASE Arrive(r)
      <3>1. \/ \E c : Respond(r, c)
            \/ req' = [req EXCEPT ![r].phase = "running"]
        BY <2>2 DEF Arrive
      <3>2. CASE req' = [req EXCEPT ![r].phase = "running"]
        BY <1>1, <3>2 DEF Request
      <3>3. QED
        BY <2>1, <3>1, <3>2
    <2>3. CASE Lose(r)
      BY <1>1, <2>3 DEF Lose, Request
    <2>4. CASE Finish(r) \/ ServerError(r)
      BY <2>1, <2>4 DEF Finish, ServerError
    <2>5. QED
      BY <2>2, <2>3, <2>4 DEF Faults
  <1>4. judgedBar' = judgedBar /\ toldBar' = toldBar
    BY <1>2, <1>3 DEF judgedBar, toldBar, TypeOK
  <1>5. QED
    BY <1>2, <1>4, TellStep

(* An answer that is heard adds at most its own judgement. *)
LEMMA AnswerJudges ==
  ASSUME TypeOK, NEW r \in Slot, NEW o \in Op, NEW res \in Result, Answer(r, o, res)
  PROVE  /\ toldBar' = toldBar
         /\ \A p \in Pod : p # o => judgedBar'[p] = judgedBar[p]
         /\ o \in Pod => judgedBar'[o] \in
              {judgedBar[o], IF res = "SYNCED" THEN {"accepted"}
                             ELSE IF res = "CONFLICT" THEN {"rejected"} ELSE {}}
  <1>1. req \in [Slot -> Request] /\ req[r] \in Request
    BY DEF TypeOK
  <1>2. UNCHANGED <<status, call>>
    BY DEF Answer, client
  <1>3. /\ \A q \in Slot \ {r} : req'[q] = req[q]
        /\ req'[r].result = [req[r].result EXCEPT ![o] = IF call = r THEN res ELSE @]
    BY <1>1 DEF Answer, Request
  <1>4. req[r].result \in [Op -> Result]
    BY <1>1 DEF Request
  <1>5. CASE call # r
    <2>1. call \in Slot => req'[call].result = req[call].result
      BY <1>3, <1>5
    <2>2. judgedBar' = judgedBar
      BY <1>2, <2>1 DEF judgedBar, TypeOK
    <2>3. QED
      BY <1>2, <2>2 DEF toldBar
  <1>6. CASE call = r
    <2>1. /\ \A p \in Op : p # o => req'[r].result[p] = req[r].result[p]
          /\ req'[r].result[o] = res /\ r # Idle
      BY <1>3, <1>4, <1>6, OpAssumption
    <2>2. QED
      BY <1>2, <1>6, <2>1 DEF judgedBar, toldBar, Op
  <1>7. QED
    BY <1>5, <1>6

LEMMA ProcessRefines ==
  ASSUME IInv, NEW r \in Slot, Process(r)
  PROVE  Outcome!Next
  <1> USE DEF Result
  <1>1. TypeOK
    BY DEF IInv
  <1>2. ASSUME NEW o \in Op, ProcessPod(r, o) PROVE Outcome!Judge(o) /\ o \in Pod
    <2>1. o \in Pod /\ Target[o] \in Shipment /\ ship[Target[o]] \in ShipStatus
      BY <1>1, <1>2, OpAssumption DEF ProcessPod, TypeOK
    <2>2. CASE ship[Target[o]] = "CANCELLED"
      <3>1. Answer(r, o, "CONFLICT") /\ ship' = ship
        BY <1>2, <2>2 DEF ProcessPod
      <3>2. /\ toldBar' = toldBar /\ outcomeBar' = outcomeBar
            /\ outcomeBar[Target[o]] = "cancelled"
            /\ \A q \in Pod : judgedBar'[q] \subseteq
                               judgedBar[q] \cup {w \in {"rejected"} : q = o}
        BY <1>1, <2>1, <2>2, <3>1, AnswerJudges DEF outcomeBar
      <3>3. QED
        BY <2>1, <3>2, BarTypes
           DEF Outcome!Judge, Outcome!Gains, outcomeBar, toldBar, judgedBar
    <2>3. CASE ship[Target[o]] # "CANCELLED"
      <3>1. Answer(r, o, "SYNCED") /\ ship' = [ship EXCEPT ![Target[o]] = "DELIVERED"]
        BY <1>1, <1>2, <2>1, <2>3 DEF ProcessPod, TypeOK
      <3>2. /\ toldBar' = toldBar /\ outcomeBar[Target[o]] # "cancelled"
            /\ \A q \in Pod : judgedBar'[q] \subseteq
                               judgedBar[q] \cup {w \in {"accepted"} : q = o}
        BY <1>1, <2>1, <2>3, <3>1, AnswerJudges DEF outcomeBar
      <3>3. outcomeBar' = [outcomeBar EXCEPT ![Target[o]] = "delivered"]
        BY <1>1, <2>1, <3>1 DEF outcomeBar, TypeOK
      <3>4. QED
        BY <2>1, <3>2, <3>3, BarTypes
           DEF Outcome!Judge, Outcome!Gains, outcomeBar, toldBar, judgedBar
    <2>4. QED
      BY <2>1, <2>2, <2>3
  <1>3. ASSUME NEW o \in Op, ProcessUnknown(r, o) PROVE Outcome!Tell
    <2>1. Answer(r, o, "FAILED") /\ ship' = ship
      BY <1>3 DEF ProcessUnknown, records
    <2>2. QED
      BY <1>1, <2>1, AnswerJudges, TellStep
  <1>4. ASSUME NEW o \in Op, o \notin Pod, NEW res \in Result, Answer(r, o, res)
        PROVE  toldBar' = toldBar /\ judgedBar' = judgedBar
    <2>1. toldBar' = toldBar /\ \A p \in Pod : judgedBar'[p] = judgedBar[p]
      BY <1>1, <1>4, AnswerJudges
    <2>2. /\ judgedBar = [p \in Pod |-> judgedBar[p]]
          /\ judgedBar' = [p \in Pod |-> judgedBar'[p]]
      BY DEF judgedBar
    <2>3. QED
      BY <2>1, <2>2
  <1>5. ASSUME NEW o \in Op, ProcessCheckpoint(r, o) \/ ProcessReport(r, o)
        PROVE  Outcome!Tell
    <2>1. /\ Answer(r, o, "CONFLICT") \/ Answer(r, o, "SYNCED")
          /\ o \notin Pod /\ ship' = ship
      BY <1>5, OpAssumption DEF ProcessCheckpoint, ProcessReport
    <2>2. toldBar' = toldBar /\ judgedBar' = judgedBar
      BY <1>4, <2>1
    <2>3. QED
      BY <2>1, <2>2, TellStep
  <1>6. ASSUME NEW o \in Op, ProcessReading(r, o) PROVE Outcome!Revise
    <2>1. Answer(r, o, "SYNCED") /\ o \notin Pod
      BY <1>6, OpAssumption DEF ProcessReading
    <2>2. toldBar' = toldBar /\ judgedBar' = judgedBar
      BY <1>4, <2>1
    <2>3. QED
      BY <2>2, BarTypes DEF Outcome!Revise, outcomeBar, toldBar, judgedBar
  <1>7. QED
    BY <1>2, <1>3, <1>5, <1>6 DEF Process, Outcome!Next

(* The offline delivery path, with its outbox, batches, retries, late and  *)
(* lost answers, keeps the promise of ConsignmentOutcome (processSyncBatch *)
(* with syncOutboxBatch), whatever dispatch does to the consignments.      *)
THEOREM OutcomeImplemented == Spec => ImplementsOutcome
  <1>1. Init => Outcome!Init
    BY OpAssumption DEF Init, Outcome!Init, Op
  <1>2. ASSUME IInv, [Next]_vars PROVE [Outcome!Next]_(Outcome!vars)
    <2>1. CASE Driver \/ Connectivity
      BY <1>2, <2>1, DriverTells DEF IInv, Outcome!Next
    <2>2. ASSUME NEW r \in Slot, Receive(r) \/ Handler(r) \/ Faults(r)
          PROVE  Outcome!Next
      BY <1>2, <2>2, ReceiveTells, ServeTells, ProcessRefines DEF IInv, Handler, Outcome!Next
    <2>3. CASE Dispatch \/ SessionExpires \/ Reauthenticate \/ UNCHANGED vars
      <3>1. UNCHANGED <<status, call, req>>
        BY <2>3 DEF Dispatch, ReviseShipment, EditSignature, EditTrip, OtherCabReports,
                    SessionExpires, Reauthenticate, vars, client
      <3>2. toldBar' = toldBar /\ judgedBar' = judgedBar
        BY <3>1 DEF toldBar, judgedBar
      <3>3. Outcome!Revise
        BY <3>2, BarTypes DEF Outcome!Revise, outcomeBar, toldBar, judgedBar
      <3>4. QED
        BY <3>3 DEF Outcome!Next
    <2>4. QED
      BY <1>2, <2>1, <2>2, <2>3 DEF Next
  <1>3. QED
    BY <1>1, <1>2, Invariance, PTL DEF Spec, ImplementsOutcome, Outcome!Spec

-----------------------------------------------------------------------------
(* The order of first handling.  An exchange takes everything pending, so  *)
(* what is older than one of its operations is handled already, frozen or  *)
(* dropped, or is in the same exchange, which works the oldest first.      *)

(* What an exchange, awaited or given up, may still bring to the server. *)
Open(r) == IF req[r].phase \in {"transit", "running"} THEN req[r].todo ELSE {}

Settled(o) == o \in processed \/ status[o] \in {"AUTH_REQUIRED", "GONE"}

Ages == \A o \in Op : born[o] <= clock /\ (status[o] = "NEW" => born[o] = 0)

(* Nobody has heard of an operation before it is recorded. *)
UnheardOf(o) == o \notin processed /\ \A r \in Slot : o \notin req[r].ops \cup req[r].todo
Recorded == \A o \in Op : status[o] = "NEW" => UnheardOf(o)

(* What the awaited exchange carries can only be retried or dropped. *)
Underway ==
  call # Idle => \A o \in req[call].ops : status[o] \in {"SYNCING", "QUEUED", "GONE"}

SentInOrder ==
  \A r \in Slot : \A p \in Open(r) : \A o \in Op :
    born[o] > 0 /\ born[o] < born[p] => Settled(o) \/ o \in Open(r)

OInv == IInv /\ Ages /\ Recorded /\ Underway /\ SentInOrder /\ FirstInFirstHandled

LEMMA LeastBy ==
  ASSUME NEW R, IsWellFoundedOn(R, Nat), \A x, y \in Nat : x < y => <<x, y>> \in R,
         NEW S, S \subseteq Nat, S # {}
  PROVE  \E m \in S : \A n \in S : m <= n
  <1>1. PICK m \in S : \A n \in S : ~(<<n, m>> \in R)
    BY WFMin
  <1>2. ASSUME NEW n \in S PROVE m <= n
    <2>1. n \in Nat /\ m \in Nat
      OBVIOUS
    <2>2. ~(n < m)
      BY <1>1, <2>1, Zenon
    <2>3. QED
      BY <2>1, <2>2
  <1>3. QED
    BY <1>2

LEMMA Least ==
  ASSUME NEW S, S \subseteq Nat, S # {}
  PROVE  \E m \in S : \A n \in S : m <= n
  <1>1. \A x, y \in Nat : x < y => <<x, y>> \in OpToRel(<, Nat)
    BY DEF OpToRel
  <1>2. \E R : IsWellFoundedOn(R, Nat) /\ \A x, y \in Nat : x < y => <<x, y>> \in R
    BY <1>1, NatLessThanWellFounded, Zenon
  <1>3. QED
    BY <1>2, LeastBy

(* A batch, of whatever size, has an operation recorded first. *)
LEMMA OldestOf ==
  ASSUME TypeOK, NEW S, S \subseteq Op, S # {}
  PROVE  Oldest(S) \in S /\ \A p \in S : born[Oldest(S)] <= born[p]
  <1>1. {born[p] : p \in S} \subseteq Nat /\ {born[p] : p \in S} # {}
    BY DEF TypeOK
  <1>2. PICK m \in {born[p] : p \in S} : \A n \in {born[p] : p \in S} : m <= n
    BY <1>1, Least
  <1>3. \E o \in S : \A p \in S : born[o] <= born[p]
    BY <1>2
  <1>4. QED
    BY <1>3 DEF Oldest

(* What a step must leave alone for the order to be kept. *)
LEMMA KeepOrder ==
  ASSUME TypeOK, Ages, SentInOrder, FirstInFirstHandled, processed' = processed,
         \A o \in Op : Settled(o) => Settled(o)',
         \A o \in Op : \/ born'[o] = born[o]
                       \/ born'[o] = clock + 1 /\ UnheardOf(o),
         \A r \in Slot :
           \/ Open(r)' \in {Open(r), {}}
           \/ \A p \in Open(r)' : \A o \in Op :
                born'[o] > 0 /\ born'[o] < born'[p] => Settled(o)' \/ o \in Open(r)'
  PROVE  SentInOrder' /\ FirstInFirstHandled'
  <1>1. \A r \in Slot : Open(r) \subseteq req[r].ops \cup req[r].todo /\ Open(r) \subseteq Op
    BY DEF Open, TypeOK, Request
  <1>2. ASSUME NEW o \in Op, NEW p \in Op, ~UnheardOf(p), born'[o] > 0, born'[o] < born'[p]
        PROVE  born[o] > 0 /\ born[o] < born[p]
    <2>1. born[p] \in Nat /\ born[o] \in Nat /\ clock \in Nat /\ born[p] <= clock
      BY DEF TypeOK, Ages
    <2>2. born'[p] = born[p]
      BY <1>2
    <2>3. QED
      BY <1>2, <2>1, <2>2
  <1>3. ASSUME NEW r \in Slot, NEW p \in Open(r)', NEW o \in Op,
               born'[o] > 0, born'[o] < born'[p]
        PROVE  Settled(o)' \/ o \in Open(r)'
    <2>1. CASE Open(r)' \in {Open(r), {}}
      <3>1. p \in Open(r) /\ p \in Op /\ ~UnheardOf(p)
        BY <1>1, <2>1 DEF UnheardOf
      <3>2. Settled(o) \/ o \in Open(r)
        BY <1>2, <1>3, <3>1 DEF SentInOrder
      <3>3. QED
        BY <2>1, <3>2
    <2>2. QED
      BY <1>3, <2>1
  <1>4. ASSUME NEW o \in Op, NEW p \in Op, born'[o] > 0, born'[o] < born'[p],
               p \in processed', o \notin processed'
        PROVE  status'[o] \in {"AUTH_REQUIRED", "GONE"}
    <2>1. born[o] > 0 /\ born[o] < born[p]
      BY <1>2, <1>4 DEF UnheardOf
    <2>2. Settled(o)
      BY <1>4, <2>1 DEF FirstInFirstHandled, Settled
    <2>3. QED
      BY <1>4, <2>2 DEF Settled
  <1>5. QED
    BY <1>3, <1>4 DEF SentInOrder, FirstInFirstHandled

(* A step of the driver: it settles or records operations, and sends       *)
(* everything pending or nothing.                                          *)
LEMMA SendInOrder ==
  ASSUME OInv, TypeOK', processed' = processed, NEW st \in [Op -> Status],
         StartSync(st) \/ (status' = st /\ UNCHANGED <<call, req>>),
         \A o \in Op :
           \/ st[o] \in {status[o], "GONE"} /\ status[o] # "NEW" /\ born'[o] = born[o]
           \/ st[o] = "NEW" /\ status[o] = "NEW" /\ born'[o] = born[o]
           \/ st[o] = "QUEUED" /\ status[o] \in {"FAILED", "SYNCING"} /\ born'[o] = born[o]
           \/ st[o] = "QUEUED" /\ status[o] = "NEW" /\ born'[o] = clock + 1,
         clock' \in {clock, clock + 1},
         \A o \in Op : born'[o] <= clock'
  PROVE  Ages' /\ Recorded' /\ Underway' /\ SentInOrder' /\ FirstInFirstHandled'
  <1> USE DEF OInv, IInv
  <1>1. req \in [Slot -> Request] /\ status \in [Op -> Status] /\ call \in Slot \cup {Idle}
    BY DEF TypeOK
  <1>2. \A o \in Op : born[o] \in Nat /\ clock \in Nat
    BY DEF TypeOK
  <1>3. \A o \in Op : /\ status'[o] \in {st[o], "SYNCING"}
                      /\ status'[o] # st[o] => st[o] \in {"QUEUED", "FAILED"}
    BY DEF StartSync, Sendable
  <1>4. \A o \in Op : Settled(o) => Settled(o)'
    BY <1>3 DEF Settled
  <1>5. \A o \in Op : status'[o] = "NEW" => status[o] = "NEW" /\ born'[o] = born[o]
    BY <1>3
  <1>6. Ages'
    BY <1>5 DEF Ages
  <1>7. \A o \in Op : born'[o] = born[o] \/ (born'[o] = clock + 1 /\ UnheardOf(o))
    BY DEF Recorded
  <1>8. CASE UNCHANGED <<call, req>>
    <2>1. Recorded'
      BY <1>5, <1>8 DEF Recorded, UnheardOf
    <2>2. Underway'
      BY <1>1, <1>3, <1>8 DEF Underway, Request
    <2>3. \A r \in Slot : Open(r)' = Open(r)
      BY <1>8 DEF Open
    <2>4. QED
      BY <1>4, <1>6, <1>7, <2>1, <2>2, <2>3, KeepOrder
  <1>9. CASE ~UNCHANGED <<call, req>>
    <2>1. call = Idle
      BY <1>9 DEF StartSync
    <2>2. PICK r \in Slot :
            /\ call' = r
            /\ req' = [req EXCEPT ![r] = [FreeRequest EXCEPT !.phase = "transit",
                                  !.ops = Sendable(st), !.todo = Sendable(st)]]
            /\ status' = [o \in Op |-> IF o \in Sendable(st) THEN "SYNCING" ELSE st[o]]
      BY <1>9 DEF StartSync
    <2>3. /\ \A q \in Slot \ {r} : req'[q] = req[q]
          /\ req'[r].phase = "transit"
          /\ req'[r].ops = Sendable(st) /\ req'[r].todo = Sendable(st)
      BY <1>1, <2>2 DEF FreeRequest
    <2>4. Recorded'
      <3>1. \A o \in Sendable(st) : status'[o] # "NEW"
        BY <2>2 DEF Sendable
      <3>2. QED
        BY <1>5, <2>3, <3>1 DEF Recorded, UnheardOf
    <2>5. Underway'
      BY <2>2, <2>3 DEF Underway, Sendable
    <2>6. \A q \in Slot \ {r} : Open(q)' = Open(q)
      BY <2>3 DEF Open
    <2>7. Open(r)' = Sendable(st)
      BY <2>3 DEF Open
    <2>8. ASSUME NEW o \in Op, born'[o] > 0 PROVE Settled(o)' \/ o \in Sendable(st)
      <3>1. status[o] # "SYNCING"
        BY <2>1 DEF SyncingIsInFlight
      <3>2. status[o] = "NEW" => st[o] = "QUEUED"
        BY <2>8 DEF Ages
      <3>3. st[o] \in {"QUEUED", "FAILED", "SYNCED", "CONFLICT", "AUTH_REQUIRED", "GONE"}
        BY <1>1, <3>1, <3>2 DEF Status
      <3>4. st[o] \in {"SYNCED", "CONFLICT"} => o \in processed
        BY DEF NothingLost
      <3>5. QED
        BY <2>2, <3>3, <3>4 DEF Settled, Sendable
    <2>9. QED
      BY <1>4, <1>6, <1>7, <2>4, <2>5, <2>6, <2>7, <2>8, KeepOrder
  <1>10. QED
    BY <1>8, <1>9

LEMMA DriverKeepsOrder ==
  ASSUME OInv, TypeOK', Driver \/ Connectivity
  PROVE  Ages' /\ Recorded' /\ Underway' /\ SentInOrder' /\ FirstInFirstHandled'
  <1> USE DEF OInv, IInv
  <1>1. /\ status \in [Op -> Status] /\ "QUEUED" \in Status /\ "GONE" \in Status
        /\ \A o \in Op : born[o] \in Nat /\ born[o] <= clock /\ clock \in Nat
    BY DEF TypeOK, Ages, Status
  <1>2. processed' = processed
    BY DEF Driver, Connectivity, Enqueue, Retry, Dismiss, SyncNow, ClearSynced, GoOnline,
           GoOffline, server, records
  <1>3. ASSUME NEW p \in Op, Enqueue(p)
        PROVE  Ages' /\ Recorded' /\ Underway' /\ SentInOrder' /\ FirstInFirstHandled'
    <2> DEFINE next == [q \in Op |-> IF q = p THEN "QUEUED"
                                     ELSE IF q \in Dropped THEN "GONE" ELSE status[q]]
    <2>1. next \in [Op -> Status]
      BY <1>1
    <2>2. StartSync(next) \/ (status' = next /\ UNCHANGED <<call, req>>)
      BY <1>3 DEF Enqueue
    <2>3. /\ status[p] = "NEW" /\ born'[p] = clock + 1 /\ clock' = clock + 1
          /\ \A o \in Op \ {p} : born'[o] = born[o]
      BY <1>3 DEF Enqueue, TypeOK
    <2>4. \A o \in Dropped : status[o] # "NEW"
      BY DEF Dropped, Candidates, Expendable, Held
    <2>5. next[p] = "QUEUED" /\ \A o \in Op \ {p} :
            next[o] \in {status[o], "GONE"} /\ (status[o] = "NEW" => next[o] = "NEW")
      BY <2>4
    <2>6. \A o \in Op : born'[o] <= clock'
      BY <1>1, <2>3
    <2> HIDE DEF next
    <2>7. QED
      BY <1>2, <2>1, <2>2, <2>3, <2>5, <2>6, SendInOrder
  <1>4. ASSUME NEW p \in Op, Retry(p)
        PROVE  Ages' /\ Recorded' /\ Underway' /\ SentInOrder' /\ FirstInFirstHandled'
    <2> DEFINE next == [status EXCEPT ![p] = "QUEUED"]
    <2>1. next \in [Op -> Status]
      BY <1>1
    <2>2. StartSync(next) \/ (status' = next /\ UNCHANGED <<call, req>>)
      BY <1>4 DEF Retry
    <2>3. status[p] \in {"FAILED", "SYNCING"} /\ born' = born /\ clock' = clock
      BY <1>4 DEF Retry
    <2>4. next[p] = "QUEUED" /\ \A o \in Op \ {p} : next[o] = status[o]
      BY <1>1
    <2> HIDE DEF next
    <2>5. QED
      BY <1>1, <1>2, <2>1, <2>2, <2>3, <2>4, SendInOrder
  <1>5. CASE SyncNow \/ GoOnline \/ GoOffline
    <2>1. /\ born' = born /\ clock' = clock
          /\ StartSync(status) \/ (status' = status /\ UNCHANGED <<call, req>>)
      BY <1>5 DEF SyncNow, GoOnline, GoOffline
    <2>2. QED
      BY <1>1, <1>2, <2>1, SendInOrder
  <1>6. CASE ClearSynced \/ \E p \in Op : Dismiss(p)
    <2>1. /\ born' = born /\ clock' = clock /\ UNCHANGED <<call, req>>
          /\ status' \in [Op -> Status]
          /\ \A o \in Op :
               status'[o] = status[o] \/ (status'[o] = "GONE" /\ status[o] # "NEW")
      BY <1>1, <1>6 DEF ClearSynced, Dismiss
    <2> DEFINE next == status'
    <2>2. /\ next \in [Op -> Status] /\ status' = next
          /\ \A o \in Op :
               next[o] = status[o] \/ (next[o] = "GONE" /\ status[o] # "NEW")
      BY <2>1
    <2> HIDE DEF next
    <2>3. QED
      BY <1>1, <1>2, <2>1, <2>2, SendInOrder
  <1>7. QED
    BY <1>3, <1>4, <1>5, <1>6 DEF Driver, Connectivity

LEMMA ReceiveKeepsOrder ==
  ASSUME OInv, NEW r \in Slot, Receive(r)
  PROVE  Ages' /\ Recorded' /\ Underway' /\ SentInOrder' /\ FirstInFirstHandled'
  <1> USE DEF OInv, IInv
  <1>1. /\ call = r /\ call' = Idle /\ born' = born /\ clock' = clock
        /\ processed' = processed
    BY DEF Receive, ReceiveResults, ReceiveUnauthorized, ReceiveError, FetchFails, server, records
  <1>2. r # Idle /\ req \in [Slot -> Request] /\ req[r] \in Request
    BY OpAssumption DEF TypeOK
  <1>3. /\ \A q \in Slot \ {r} : req'[q] = req[q]
        /\ req'[r].ops = {} /\ req'[r].todo \in {req[r].todo, {}}
        /\ req'[r].phase \in {req[r].phase, "free"}
    <2>1. \/ req' = [req EXCEPT ![r] = FreeRequest]
          \/ req' = [req EXCEPT ![r].ops = {}, ![r].result = FreeRequest.result]
      BY DEF Receive, ReceiveResults, ReceiveUnauthorized, ReceiveError, FetchFails
    <2>2. QED
      BY <1>2, <2>1 DEF FreeRequest, Request
  <1>4. \A o \in Op : status'[o] # status[o] =>
          /\ status[o] \in {"SYNCING", "QUEUED"}
          /\ status'[o] \in {"QUEUED", "FAILED", "SYNCED", "CONFLICT", "AUTH_REQUIRED"}
    <2>1. \A o \in Awaiting(r) : status[o] \in {"SYNCING", "QUEUED"}
      BY <1>1, <1>2 DEF Underway, Awaiting
    <2>2. CASE ReceiveResults(r)
      BY <1>2, <2>1, <2>2 DEF ReceiveResults, Request, Result
    <2>3. CASE ReceiveUnauthorized(r)
      BY <2>1, <2>3 DEF ReceiveUnauthorized
    <2>4. CASE ReceiveError(r) \/ FetchFails(r)
      BY <2>1, <2>4 DEF ReceiveError, FetchFails, RequeueAll
    <2>5. QED
      BY <2>2, <2>3, <2>4 DEF Receive
  <1>5. \A o \in Op : Settled(o) => Settled(o)'
    BY <1>1, <1>4 DEF Settled
  <1>6. \A q \in Slot : Open(q)' \in {Open(q), {}}
    BY <1>3 DEF Open
  <1>7. Ages'
    BY <1>1, <1>4 DEF Ages
  <1>8. Recorded'
    <2>1. \A q \in Slot : /\ req'[q].ops \subseteq req[q].ops
                          /\ req'[q].todo \subseteq req[q].todo
      BY <1>3
    <2>2. QED
      BY <1>1, <1>4, <2>1 DEF Recorded, UnheardOf
  <1>9. Underway'
    BY <1>1 DEF Underway
  <1>10. QED
    BY <1>1, <1>5, <1>6, <1>7, <1>8, <1>9, KeepOrder

(* The server's part: an exchange ends, or hands on what it carries. *)
LEMMA ServeKeepsOrder ==
  ASSUME OInv, NEW r \in Slot, Arrive(r) \/ Finish(r) \/ Faults(r)
  PROVE  Ages' /\ Recorded' /\ Underway' /\ SentInOrder' /\ FirstInFirstHandled'
  <1> USE DEF OInv, IInv
  <1>1. req \in [Slot -> Request] /\ req[r] \in Request
    BY DEF TypeOK
  <1>2. UNCHANGED <<client, server>>
    BY DEF Arrive, Finish, Faults, ServerError, Lose
  <1>3. \A q \in Slot \ {r} : req'[q] = req[q]
    BY <1>1 DEF Arrive, Finish, Faults, ServerError, Lose, Respond
  <1>4. \/ /\ req'[r].phase \in {"done", "lost", "free"}
           /\ req'[r].ops \in {req[r].ops, {}} /\ req'[r].todo \in {req[r].todo, {}}
           /\ call = r => req'[r].ops = req[r].ops
        \/ /\ req[r].phase = "transit" /\ req'[r].phase = "running"
           /\ req'[r].ops = req[r].ops /\ req'[r].todo = req[r].todo
    <2>1. ASSUME NEW c, Respond(r, c)
          PROVE  /\ req'[r].phase \in {"done", "free"}
                 /\ req'[r].ops \in {req[r].ops, {}} /\ req'[r].todo \in {req[r].todo, {}}
                 /\ call = r => req'[r].ops = req[r].ops
      BY <1>1, <2>1 DEF Respond, FreeRequest, Request
    <2>2. CASE Arrive(r)
      BY <1>1, <2>1, <2>2 DEF Arrive, Request
    <2>3. CASE Lose(r)
      BY <1>1, <2>3 DEF Lose, FreeRequest, Request
    <2>4. CASE Finish(r) \/ ServerError(r)
      BY <2>1, <2>4 DEF Finish, ServerError
    <2>5. QED
      BY <2>2, <2>3, <2>4 DEF Faults
  <1>5. \A q \in Slot : Open(q)' \in {Open(q), {}}
    BY <1>3, <1>4 DEF Open
  <1>6. /\ \A o \in Op : Settled(o) => Settled(o)'
        /\ born' = born /\ clock' = clock /\ status' = status /\ call' = call
        /\ processed' = processed
    BY <1>2 DEF Settled, client, server, records
  <1>7. Recorded'
    BY <1>3, <1>4, <1>6 DEF Recorded, UnheardOf
  <1>8. Underway'
    <2>1. call # Idle => req'[call].ops = req[call].ops
      BY <1>3, <1>4 DEF TypeOK
    <2>2. QED
      BY <1>6, <2>1 DEF Underway
  <1>9. QED
    BY <1>5, <1>6, <1>7, <1>8, KeepOrder DEF Ages

(* Whatever is older than the operation taken next is settled. *)
LEMMA ProcessKeepsOrder ==
  ASSUME OInv, NEW r \in Slot, Process(r)
  PROVE  Ages' /\ Recorded' /\ Underway' /\ SentInOrder' /\ FirstInFirstHandled'
  <1> USE DEF OInv, IInv
  <1>1. req \in [Slot -> Request] /\ req[r] \in Request
    BY DEF TypeOK
  <1>2. PICK p \in Op : Turn(r, p) /\ \E res : Answer(r, p, res)
    BY DEF Process, ProcessUnknown, ProcessPod, ProcessCheckpoint, ProcessReading,
           ProcessReport
  <1>3. UNCHANGED client /\ processed' = processed \cup {p}
    BY <1>2 DEF Answer
  <1>4. /\ \A q \in Slot \ {r} : req'[q] = req[q]
        /\ req'[r].phase = req[r].phase /\ req'[r].ops = req[r].ops
        /\ req'[r].todo = req[r].todo \ {p}
    BY <1>1, <1>2 DEF Answer, Request
  <1>5. /\ p \in req[r].todo /\ req[r].phase = "running"
        /\ \A o \in req[r].todo : born[p] <= born[o]
    <2>1. req[r].todo \subseteq Op /\ req[r].todo # {} /\ req[r].phase = "running"
      BY <1>1, <1>2 DEF Turn, Request
    <2>2. p = Oldest(req[r].todo)
      BY <1>2 DEF Turn, NextOf
    <2>3. QED
      BY <2>1, <2>2, OldestOf
  <1>6. /\ \A o \in Op : Settled(o) => Settled(o)'
        /\ Settled(p)'
        /\ born' = born /\ clock' = clock /\ status' = status /\ call' = call
    BY <1>3 DEF Settled, client
  <1>7. Recorded'
    BY <1>3, <1>4, <1>5, <1>6 DEF Recorded, UnheardOf
  <1>8. Underway'
    BY <1>4, <1>6 DEF Underway, TypeOK
  <1>9. SentInOrder'
    <2>1. \A q \in Slot \ {r} : Open(q)' = Open(q)
      BY <1>4 DEF Open
    <2>2. Open(r) = req[r].todo /\ Open(r)' = req[r].todo \ {p}
      BY <1>4, <1>5 DEF Open
    <2>3. QED
      BY <1>6, <2>1, <2>2 DEF SentInOrder
  <1>10. FirstInFirstHandled'
    <2>1. ASSUME NEW o \in Op, born[o] > 0, born[o] < born[p] PROVE Settled(o)
      <3>1. Open(r) = req[r].todo
        BY <1>5 DEF Open
      <3>2. Settled(o) \/ o \in req[r].todo
        BY <1>5, <2>1, <3>1 DEF SentInOrder
      <3>3. born[o] \in Nat /\ born[p] \in Nat
        BY DEF TypeOK
      <3>4. QED
        BY <1>5, <2>1, <3>2, <3>3
    <2>2. QED
      BY <1>3, <1>6, <2>1 DEF FirstInFirstHandled, Settled
  <1>11. QED
    BY <1>6, <1>7, <1>8, <1>9, <1>10 DEF Ages

(* The server meets the driver's operations in the order they were         *)
(* recorded, whatever is lost, abandoned, retried or served late: only an  *)
(* item frozen by a 401, or dropped, is overtaken (syncOutboxBatch takes   *)
(* all that is pending; processSyncBatch sorts by clientTimestamp).        *)
THEOREM HandledInOrder == Spec => []FirstInFirstHandled
  <1>1. Init => OInv
    <2> SUFFICES ASSUME Init PROVE OInv
      OBVIOUS
    <2>1. \A r \in Slot : req[r] = FreeRequest
      BY DEF Init
    <2>2. QED
      BY <2>1, IndInit
         DEF Init, OInv, Ages, Recorded, UnheardOf, Underway, SentInOrder, Open, FreeRequest,
             FirstInFirstHandled
  <1>2. OInv /\ [Next]_vars => OInv'
    <2> SUFFICES ASSUME OInv, [Next]_vars PROVE OInv'
      OBVIOUS
    <2>1. IInv' /\ TypeOK'
      BY IndStep DEF OInv, IInv
    <2>2. CASE Dispatch \/ SessionExpires \/ Reauthenticate \/ UNCHANGED vars
      <3>1. UNCHANGED <<client, req, processed>>
        BY <2>2 DEF Dispatch, ReviseShipment, EditSignature, EditTrip, OtherCabReports,
                    SessionExpires, Reauthenticate, vars, server, records
      <3>2. QED
        BY <2>1, <3>1
           DEF OInv, Ages, Recorded, UnheardOf, Underway, SentInOrder, Open, Settled,
               FirstInFirstHandled, client
    <2>3. CASE Driver \/ Connectivity
      BY <2>1, <2>3, DriverKeepsOrder DEF OInv
    <2>4. ASSUME NEW r \in Slot, Receive(r) \/ Handler(r) \/ Faults(r) PROVE OInv'
      BY <2>1, <2>4, ReceiveKeepsOrder, ServeKeepsOrder, ProcessKeepsOrder DEF OInv, Handler
    <2>5. QED
      BY <2>2, <2>3, <2>4 DEF Next
  <1>3. OInv => FirstInFirstHandled
    BY DEF OInv
  <1>4. QED
    BY <1>1, <1>2, <1>3, PTL DEF Spec
=============================================================================
