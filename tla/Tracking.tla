-------------------------------- MODULE Tracking --------------------------------
(***************************************************************************)
(* The positions of one vehicle on their way from the driver's phone       *)
(* (src/mobile/src/services/gps.service.ts) to the server                  *)
(* (src/src/lib/services/telemetry.service.ts).                            *)
(*                                                                         *)
(* The phone takes a fix every few seconds while a trip is tracked, sends  *)
(* it at once, and queues what it could not send; a ping that gets through *)
(* takes the queue with it as a batch.  Captures overlap, requests may be  *)
(* lost before or after the server has handled them, and the server waits  *)
(* for the database between storing a position and broadcasting it.        *)
(*                                                                         *)
(* A fix stands for its time: they are numbered as they are taken.  Signal *)
(* quality and the listeners on the phone are left out.                    *)
(***************************************************************************)
EXTENDS Naturals, Sequences, FiniteSets, SequencesExt

CONSTANTS
  Session,   \* the trips that are tracked
  Unfit,     \* those the server refuses: another vehicle's, or unknown
  Request,   \* requests under way at once
  Capacity,  \* the phone's queue (500)
  BatchMax,  \* positions the server takes at once (100)
  MaxFixes, MaxPending, \* bounds: fixes taken in all, captures under way
  None

ASSUME TrackingAssumption ==
  /\ Unfit \subseteq Session /\ None \notin Session /\ IsFiniteSet(Request)
  /\ Capacity \in Nat \ {0} /\ BatchMax \in Nat \ {0}
  /\ MaxFixes \in Nat /\ MaxPending \in Nat

Fix == 1..MaxFixes

VARIABLES
  session,  \* activeSession
  fixing,   \* captures that wait for the device, by the session they began in
  taken,    \* fixes taken so far
  trip,     \* the trip each was sent for
  queue,    \* offlineOutboxQueue
  req,      \* the requests
  stored,   \* how often each fix has been stored
  latest,   \* latestPositionByVehicle, 0 before the first
  heard,    \* fixes broadcast
  \* history
  dropped,  \* fixes that fell out of the full queue
  doubts    \* how often it became uncertain whether a fix had been stored

phone == <<session, fixing, taken, trip, queue>>
server == <<stored, latest, heard>>
vars == <<phone, req, server, dropped, doubts>>

NoRequest ==
  [kind |-> "none", load |-> {}, left |-> {}, at |-> "gone", ok |-> FALSE, waiting |-> FALSE]

TypeOK ==
  /\ session \in Session \cup {None}
  /\ fixing \in [Session -> 0..MaxPending]
  /\ taken \in 0..MaxFixes
  /\ trip \in [Fix -> Session \cup {None}]
  /\ queue \in Seq(Fix) /\ Len(queue) <= Capacity
  /\ req \in [Request ->
       [kind : {"none", "single", "batch"}, load : SUBSET Fix, left : SUBSET Fix,
        at : {"road", "store", "emit", "done", "gone"}, ok : BOOLEAN, waiting : BOOLEAN]]
  /\ stored \in [Fix -> Nat]
  /\ latest \in 0..MaxFixes
  /\ heard \subseteq Fix /\ dropped \subseteq Fix
  /\ doubts \in [Fix -> Nat]

Init ==
  /\ session = None
  /\ fixing = [s \in Session |-> 0]
  /\ taken = 0
  /\ trip = [n \in Fix |-> None]
  /\ queue = <<>>
  /\ req = [r \in Request |-> NoRequest]
  /\ stored = [n \in Fix |-> 0] /\ latest = 0 /\ heard = {}
  /\ dropped = {} /\ doubts = [n \in Fix |-> 0]

Begun(s) == fixing' = [fixing EXCEPT ![s] = @ + 1]
Ended(s) == fixing' = [fixing EXCEPT ![s] = @ - 1]
Spare(r) == ~req[r].waiting /\ req[r].at \in {"done", "gone"}

Sent(kind, load) ==
  [kind |-> kind, load |-> load, left |-> load, at |-> "road", ok |-> TRUE, waiting |-> TRUE]

-----------------------------------------------------------------------------
(* The phone. *)

(* startTripTracking, for the first trip or another; captures under way    *)
(* go on, and one begins at once.                                          *)
Start(s) ==
  /\ fixing[s] < MaxPending
  /\ session' = s /\ Begun(s)
  /\ UNCHANGED <<taken, trip, queue, req, server, dropped, doubts>>

Stop ==
  /\ session # None
  /\ session' = None
  /\ UNCHANGED <<fixing, taken, trip, queue, req, server, dropped, doubts>>

(* The timer begins a capture.                                             *)
Tick ==
  /\ session # None /\ fixing[session] < MaxPending
  /\ Begun(session)
  /\ UNCHANGED <<session, taken, trip, queue, req, server, dropped, doubts>>

NoFix(s) ==
  /\ fixing[s] > 0 /\ Ended(s)
  /\ UNCHANGED <<session, taken, trip, queue, req, server, dropped, doubts>>

(* The fix is sent for the session of now; with none left the sending      *)
(* fails before anything leaves the phone.                                 *)
FixComes(s, r) ==
  /\ fixing[s] > 0 /\ Ended(s)
  /\ IF session # None
     THEN /\ taken < MaxFixes /\ Spare(r)
          /\ taken' = taken + 1
          /\ trip' = [trip EXCEPT ![taken + 1] = session]
          /\ req' = [req EXCEPT ![r] = Sent("single", {taken + 1})]
     ELSE UNCHANGED <<taken, trip, req>>
  /\ UNCHANGED <<session, queue, server, dropped, doubts>>

(* Plausible slip: the queue grows one beyond its capacity.                *)
EnqueueBeyond(n) ==
  IF Len(queue) > Capacity
  THEN queue' = Append(Tail(queue), n) /\ dropped' = dropped \cup {Head(queue)}
  ELSE queue' = Append(queue, n) /\ dropped' = dropped

(* queueOfflinePing: the oldest makes room.                                *)
Enqueue(n) ==
  IF Len(queue) >= Capacity
  THEN queue' = Append(Tail(queue), n) /\ dropped' = dropped \cup {Head(queue)}
  ELSE queue' = Append(queue, n) /\ dropped' = dropped

EnqueueAll(load) == \E n \in load : Enqueue(n)

Doubt(load) == doubts' = [n \in Fix |-> doubts[n] + IF n \in load THEN 1 ELSE 0]

(* A single ping got through: the queue follows it, as it is now.          *)
Flush(r) ==
  IF queue = <<>>
  THEN req' = [req EXCEPT ![r] = NoRequest] /\ UNCHANGED doubts
  ELSE LET others == {q \in Request : q # r /\ req[q].kind = "batch" /\ req[q].waiting}
       IN /\ req' = [req EXCEPT ![r] = Sent("batch", ToSet(queue))]
          /\ Doubt(ToSet(queue) \cap UNION {req[q].load : q \in others})

SingleAnswered(r) ==
  /\ req[r].kind = "single" /\ req[r].waiting /\ req[r].at = "done"
  /\ IF req[r].ok
     THEN Flush(r) /\ UNCHANGED <<queue, dropped>>
     ELSE EnqueueAll(req[r].load) /\ req' = [req EXCEPT ![r] = NoRequest]
          /\ UNCHANGED doubts
  /\ UNCHANGED <<session, fixing, taken, trip, server>>

(* Plausible slips: the queue is emptied, or left as it is.                *)
ClearedWhole(load) == <<>>
ClearedNot(load) == queue

Cleared(load) ==
  LET kept[i \in 0..Len(queue)] ==
        IF i = 0 THEN <<>>
        ELSE IF queue[i] \in load THEN kept[i - 1] ELSE Append(kept[i - 1], queue[i])
  IN kept[Len(queue)]

(* What was sent is taken out, stored or skipped; a refused batch stays.   *)
BatchAnswered(r) ==
  /\ req[r].kind = "batch" /\ req[r].waiting /\ req[r].at = "done"
  /\ queue' = IF req[r].ok THEN Cleared(req[r].load) ELSE queue
  /\ req' = [req EXCEPT ![r] = NoRequest]
  /\ UNCHANGED <<session, fixing, taken, trip, server, dropped, doubts>>

(* Timeout, or the network fails, on the way there or on the way back: the *)
(* server may have the request, or may yet get it.                         *)
GiveUp(r) ==
  /\ req[r].waiting
  /\ req' = [req EXCEPT ![r].waiting = FALSE]
  /\ IF req[r].kind = "single" THEN EnqueueAll(req[r].load) ELSE UNCHANGED <<queue, dropped>>
  /\ Doubt(req[r].load)
  /\ UNCHANGED <<session, fixing, taken, trip, server>>

-----------------------------------------------------------------------------
(* The server. *)

Lose(r) ==
  /\ req[r].at = "road"
  /\ req' = [req EXCEPT ![r].at = "gone"]
  /\ UNCHANGED <<phone, server, dropped, doubts>>

(* POST /telemetry: a batch beyond the limit is refused whole.             *)
Arrive(r) ==
  /\ req[r].at = "road"
  /\ req' = [req EXCEPT ![r] =
       IF Cardinality(@.load) > BatchMax THEN [@ EXCEPT !.at = "done", !.ok = FALSE]
       ELSE [@ EXCEPT !.at = "store"]]
  /\ UNCHANGED <<phone, server, dropped, doubts>>

Next1(r) == CHOOSE n \in req[r].left : \A k \in req[r].left : n <= k

(* Plausible slip: the last one stored is the latest.                      *)
NewerAlways(n) == n

Newer(n) == IF n >= latest THEN n ELSE latest

(* ingestGpsPosition up to its first wait, in the order the fixes were     *)
(* taken.                                                                  *)
Store(r) ==
  LET n == Next1(r) IN
  /\ req[r].at = "store" /\ req[r].left # {} /\ trip[n] \notin Unfit
  /\ stored' = [stored EXCEPT ![n] = @ + 1]
  /\ latest' = Newer(n)
  /\ req' = [req EXCEPT ![r].at = "emit"]
  /\ UNCHANGED <<phone, heard, dropped, doubts>>

(* A position of a trip that does not fit: the error of a single ping, one *)
(* skipped of a batch.                                                     *)
Skip(r) ==
  LET n == Next1(r) IN
  /\ req[r].at = "store" /\ req[r].left # {} /\ trip[n] \in Unfit
  /\ req' = [req EXCEPT ![r].left = @ \ {n}, ![r].ok = req[r].kind = "batch"]
  /\ UNCHANGED <<phone, server, dropped, doubts>>

(* After the database, the broadcast.                                      *)
Emit(r) ==
  /\ req[r].at = "emit"
  /\ heard' = heard \cup {Next1(r)}
  /\ req' = [req EXCEPT ![r].left = @ \ {Next1(r)}, ![r].at = "store"]
  /\ UNCHANGED <<phone, stored, latest, dropped, doubts>>

Reply(r) ==
  /\ req[r].at = "store" /\ req[r].left = {}
  /\ req' = [req EXCEPT ![r].at = "done"]
  /\ UNCHANGED <<phone, server, dropped, doubts>>

Phone ==
  \/ Stop \/ Tick
  \/ \E s \in Session : Start(s) \/ NoFix(s) \/ (\E r \in Request : FixComes(s, r))
  \/ \E r \in Request : SingleAnswered(r) \/ BatchAnswered(r) \/ GiveUp(r)

Server ==
  \E r \in Request :
    Lose(r) \/ Arrive(r) \/ Store(r) \/ Skip(r) \/ Emit(r) \/ Reply(r)

Next == Phone \/ Server

Spec == Init /\ [][Next]_vars

-----------------------------------------------------------------------------
(* Properties. *)

(* Every fix sent is on record at the server, queued or about to be        *)
(* queued on the phone, or was given up for a reason: the queue was full,  *)
(* or its trip does not fit (queueOfflinePing, flushOfflineOutbox).        *)
NothingForgotten ==
  \A n \in 1..taken :
    \/ stored[n] > 0
    \/ n \in ToSet(queue)
    \/ \E r \in Request : req[r].kind = "single" /\ req[r].waiting /\ n \in req[r].load
    \/ n \in dropped
    \/ trip[n] \in Unfit

(* The latest position is the newest one stored, however late and in       *)
(* whatever order fixes and batches arrive.                                *)
LatestIsNewest ==
  /\ \A n \in Fix : stored[n] > 0 => n <= latest
  /\ latest # 0 => stored[latest] > 0

(* A fix is stored once more only after the phone lost track of a request  *)
(* that carried it, or had two batches under way with it.                  *)
TwiceForAReason == \A n \in Fix : stored[n] <= 1 + doubts[n]
=============================================================================
