---------------------------- MODULE IngestionProofs ----------------------------
(***************************************************************************)
(* Proofs about Ingestion, for any sources, runs, feeds and limits.        *)
(***************************************************************************)
EXTENDS Ingestion, TLAPS

(* A run holds a record of the source it was started for, and a source has *)
(* a record of its own.                                                    *)
Shape ==
  /\ \A r \in Run : Under(r) =>
       /\ run[r].source \in Source /\ held[run[r].source] # None
       /\ run[r].record \in Object /\ run[r].record[1] = run[r].source
  /\ \A r \in Run : run[r].stage \in {"closing", "done"} => run[r].source \in Source
  /\ \A s \in Source : held[s] # None => held[s] \in Object /\ held[s][1] = s

(* A source that was not updated under a run has the record its runs hold. *)
Agreement ==
  \A r \in Run : Under(r) /\ run[r].source \notin raced
    => run[r].record = held[run[r].source]

IInv == TypeOK /\ Shape

(* What a step of a run comes to: the feed is handled, the run fails, or   *)
(* only its own record changes.                                            *)
Waits(r) ==
  /\ UNCHANGED <<registry, hashes, events, ends>>
  /\ \E rec \in RunRecord :
       /\ run' = [run EXCEPT ![r] = rec]
       /\ rec.source = run[r].source /\ rec.record = run[r].record
       /\ rec.dry = run[r].dry /\ rec.items = run[r].items /\ rec.status = run[r].status
       /\ \/ Under(r) /\ rec.stage \in {"fetch", "body", "pause"}
          \/ run[r].stage = "closing" /\ rec.stage = "done"

LEMMA GoCases ==
  ASSUME TypeOK, NEW r \in Run, Go(r)
  PROVE  \/ Under(r) /\ \E items \in SUBSET Item : Handle(r, items)
         \/ Under(r) /\ Fail(r)
         \/ Waits(r)
<1> USE IngestionAssumption
<1>0. run[r] \in RunRecord /\ run \in [Run -> RunRecord]
  BY DEF TypeOK
<1>1. CASE Open(r)
  <2> DEFINE rec == [run[r] EXCEPT !.stage = "fetch"]
  <2>1. rec \in RunRecord
    BY <1>0 DEF RunRecord
  <2>2. CASE run[r].given # None
    BY <1>0, <1>1, <2>2 DEF Open, Under, RunRecord
  <2>3. CASE run[r].given = None /\ run[r].dry
    BY <1>1, <2>3 DEF Open, Under
  <2>4. CASE run[r].given = None /\ ~run[r].dry
    BY <1>0, <1>1, <2>1, <2>4 DEF Open, Under, Waits, RunRecord
  <2> QED BY <2>2, <2>3, <2>4
<1>2. CASE ServerError(r)
  <2> DEFINE rec == [run[r] EXCEPT !.attempts = @ + 1]
  <2>1. CASE run[r].attempts + 1 >= Attempts
    BY <1>2, <2>1 DEF ServerError, Under
  <2>2. CASE ~(run[r].attempts + 1 >= Attempts)
    <3>0. run[r].attempts + 1 \in 0..(Attempts - 1)
      BY <1>0, <2>2 DEF RunRecord
    <3>1. rec \in RunRecord
      BY <1>0, <3>0 DEF RunRecord
    <3> QED BY <1>0, <1>2, <2>2, <3>1 DEF ServerError, Under, Waits, RunRecord
  <2> QED BY <2>1, <2>2
<1>3. CASE Answered(r)
  <2> DEFINE rec == [run[r] EXCEPT !.stage = "body"]
  <2>1. rec \in RunRecord
    BY <1>0 DEF RunRecord
  <2> QED BY <1>0, <1>3, <2>1 DEF Answered, Under, Waits, RunRecord
<1>7. CASE OtherError(r) \/ BodyFails(r)
  <2> DEFINE rec == [run[r] EXCEPT !.attempts = @ + 1, !.stage = "pause"]
  <2>0. Again(r) /\ Under(r)
    BY <1>7 DEF OtherError, BodyFails, Under
  <2>1. CASE run[r].attempts + 1 >= Attempts
    BY <2>0, <2>1 DEF Again
  <2>2. CASE ~(run[r].attempts + 1 >= Attempts)
    <3>0. run[r].attempts + 1 \in 0..(Attempts - 1)
      BY <1>0, <2>2 DEF RunRecord
    <3>1. rec \in RunRecord
      BY <1>0, <3>0 DEF RunRecord
    <3>2. run' = [run EXCEPT ![r] = rec] /\ UNCHANGED <<registry, hashes, events, ends>>
      BY <2>0, <2>2 DEF Again
    <3> QED BY <1>0, <2>0, <3>1, <3>2 DEF Waits, RunRecord
  <2> QED BY <2>1, <2>2
<1>4. CASE PauseOver(r)
  <2> DEFINE rec == [run[r] EXCEPT !.stage = "fetch"]
  <2>1. rec \in RunRecord
    BY <1>0 DEF RunRecord
  <2> QED BY <1>0, <1>4, <2>1 DEF PauseOver, Under, Waits, RunRecord
<1>5. CASE Close(r)
  <2> DEFINE rec == [run[r] EXCEPT !.stage = "done"]
  <2>1. rec \in RunRecord
    BY <1>0 DEF RunRecord
  <2> QED BY <1>0, <1>5, <2>1 DEF Close, Waits, RunRecord
<1>6. CASE \E items \in Feed : Fetched(r, items)
  BY <1>6 DEF Fetched, Under
<1> QED
  BY <1>1, <1>2, <1>3, <1>4, <1>5, <1>6, <1>7 DEF Go, Timed, Body

-----------------------------------------------------------------------------
(* The types. *)

LEMMA ItemsTyped ==
  ASSUME IInv, NEW r \in Run, Under(r), NEW items \in SUBSET Item
  PROVE  Fresh(r, items) \subseteq Hash /\ Fresh(r, items) \cap hashes = {}
BY IngestionAssumption DEF IInv, Shape, Fresh, Hashes, Hash

LEMMA UnusedTyped == Unused \in RunRecord
<1>1. 0 \in 0..(Attempts - 1)
  BY IngestionAssumption
<1> QED BY <1>1 DEF Unused, RunRecord

LEMMA EndedTyped ==
  ASSUME IInv, NEW r \in Run, Under(r), NEW items \in SUBSET Item,
         NEW status \in {"RUNNING", "SUCCESS", "PARTIAL", "FAILED"}
  PROVE  Ended(r, items, status) \in RunRecord
BY UnusedTyped DEF IInv, TypeOK, Shape, Ended, RunRecord

LEMMA CountedTyped ==
  ASSUME NEW r \in Run, NEW row \in [Source -> Nat], NEW so \in BOOLEAN
  PROVE  Counted(r, row, so) \in [Source -> Nat]
<1>1. Counted(r, row, so)
        = [s \in Source |-> IF s = run[r].source THEN IF so THEN row[s] + 1 ELSE 0 ELSE row[s]]
  BY DEF Counted
<1> QED BY <1>1

LEMMA HandleTyped ==
  ASSUME IInv, NEW r \in Run, Under(r), NEW items \in SUBSET Item, Handle(r, items)
  PROVE  TypeOK'
<1>1. run' \in [Run -> RunRecord]
  <2>1. Ended(r, items, StatusOf(r, items)) \in RunRecord
    BY EndedTyped DEF StatusOf
  <2> QED BY <2>1 DEF IInv, TypeOK, Handle
<1>2. hashes' \subseteq Hash /\ events' \in [Hash -> Nat]
  BY ItemsTyped DEF IInv, TypeOK, Handle, Keep
<1>3. obj' \in [Object -> [config : Config, failures : Nat]]
  BY DEF IInv, Shape, TypeOK, Handle, WriteBack, Healed
<1>4. held' \in [Source -> Object \cup {None}]
  BY DEF IInv, Shape, TypeOK, Handle, WriteBack
<1>5. streak' \in [Source -> Nat] /\ unfed' \in [Source -> Nat]
  BY CountedTyped DEF IInv, TypeOK, Handle
<1> QED
  BY <1>1, <1>2, <1>3, <1>4, <1>5 DEF IInv, TypeOK, Handle, WriteBack

LEMMA FailTyped ==
  ASSUME IInv, NEW r \in Run, Under(r), Fail(r)
  PROVE  TypeOK'
<1>1. run' \in [Run -> RunRecord]
  <2>1. Ended(r, {}, "FAILED") \in RunRecord
    BY EndedTyped
  <2> QED BY <2>1 DEF IInv, TypeOK, Fail
<1>2. obj' \in [Object -> [config : Config, failures : Nat]]
  BY DEF IInv, Shape, TypeOK, Fail, WriteBack
<1>3. held' \in [Source -> Object \cup {None}]
  BY DEF IInv, Shape, TypeOK, Fail, WriteBack
<1>4. streak' \in [Source -> Nat] /\ unfed' \in [Source -> Nat]
  BY CountedTyped DEF IInv, TypeOK, Fail
<1> QED
  BY <1>1, <1>2, <1>3, <1>4 DEF IInv, TypeOK, Fail, WriteBack

LEMMA BeginTyped ==
  ASSUME IInv, NEW r \in Run, NEW s \in Source, NEW dry \in BOOLEAN, NEW force \in BOOLEAN,
         NEW given \in Feed \cup {None}, Begin(r, s, dry, force, given)
  PROVE  TypeOK'
<1>1. [Unused EXCEPT !.stage = "begun", !.source = s, !.record = held[s],
                     !.dry = dry, !.given = given] \in RunRecord
  BY UnusedTyped, IngestionAssumption DEF IInv, TypeOK, RunRecord
<1> QED
  BY <1>1 DEF IInv, TypeOK, Begin, registry, ends

LEMMA RegistryTyped ==
  ASSUME IInv, NEW s \in Source, NEW c \in Config, Register(s, c) \/ Update(s, c)
  PROVE  TypeOK'
<1>1. CASE Register(s, c)
  BY <1>1 DEF IInv, TypeOK, Register, Object, ends
<1>2. CASE Update(s, c)
  <2>1. objects + 1 \in 1..Objects /\ <<s, objects + 1>> \in Object
    BY <1>2, IngestionAssumption DEF IInv, TypeOK, Update, Object
  <2>2. held[s] \in Object
    BY <1>2 DEF IInv, Shape, Update
  <2>3. obj' \in [Object -> [config : Config, failures : Nat]]
    BY <1>2, <2>1, <2>2 DEF IInv, TypeOK, Update
  <2> QED
    BY <1>2, <2>1, <2>3 DEF IInv, TypeOK, Update, ends
<1> QED BY <1>1, <1>2

LEMMA StepTyped == IInv /\ [Next]_vars => TypeOK'
<1> SUFFICES ASSUME IInv, [Next]_vars PROVE TypeOK'
  OBVIOUS
<1>1. CASE \E s \in Source, c \in Config : Register(s, c) \/ Update(s, c)
  BY <1>1, RegistryTyped
<1>2. CASE \E r \in Run, s \in Source, dry, force \in BOOLEAN, given \in Feed \cup {None} :
             Begin(r, s, dry, force, given)
  BY <1>2, BeginTyped
<1>3. CASE \E r \in Run : Go(r)
  <2> PICK r \in Run : Go(r)
    BY <1>3
  <2>1. CASE Waits(r)
    BY <2>1 DEF IInv, TypeOK, Waits, registry, ends
  <2> QED
    BY <2>1, GoCases, HandleTyped, FailTyped DEF IInv
<1>4. CASE UNCHANGED vars
  BY <1>4 DEF IInv, TypeOK, vars, registry, ends
<1> QED BY <1>1, <1>2, <1>3, <1>4 DEF Next

-----------------------------------------------------------------------------
(* Runs and sources keep records of their own. *)

LEMMA HandleShaped ==
  ASSUME IInv, NEW r \in Run, Under(r),
         \/ \E items \in SUBSET Item : Handle(r, items)
         \/ Fail(r)
  PROVE  Shape'
<1>1. PICK items, status : run' = [run EXCEPT ![r] = Ended(r, items, status)]
  BY DEF Handle, Fail
<1>2. held' = [held EXCEPT ![run[r].source] = run[r].record]
  BY DEF Handle, Fail, WriteBack
<1>3. run'[r].stage = "closing" /\ run'[r].source = run[r].source
  BY <1>1 DEF IInv, TypeOK, Ended, Unused
<1>4. run[r].source \in Source /\ run[r].record \in Object /\ run[r].record[1] = run[r].source
      /\ held[run[r].source] # None /\ held[run[r].source] \in Object
  BY DEF IInv, Shape
<1>5. \A s \in Source : held'[s] # None => held'[s] \in Object /\ held'[s][1] = s
  BY <1>2, <1>4 DEF IInv, TypeOK, Shape
<1>6. \A q \in Run : q # r => run'[q] = run[q]
  BY <1>1 DEF IInv, TypeOK
<1>7. ASSUME NEW q \in Run, Under(q)'
      PROVE  /\ run'[q].source \in Source /\ held'[run'[q].source] # None
             /\ run'[q].record \in Object /\ run'[q].record[1] = run'[q].source
  <2>1. q # r
    BY <1>3, <1>7 DEF Under
  <2>2. run'[q] = run[q] /\ Under(q)
    BY <1>6, <1>7, <2>1 DEF Under
  <2>3. held'[run[q].source] # None
    BY <1>2, <1>4, <2>2, NoObjectAssumption DEF IInv, TypeOK, Shape
  <2> QED BY <2>2, <2>3 DEF IInv, Shape
<1> QED
  BY <1>3, <1>4, <1>5, <1>6, <1>7 DEF IInv, Shape

LEMMA RegistryShaped ==
  ASSUME IInv, NEW s \in Source, NEW c \in Config, Register(s, c) \/ Update(s, c)
  PROVE  Shape'
<1>1. PICK i \in 0..Objects : held' = [held EXCEPT ![s] = <<s, i>>] /\ <<s, i>> \in Object
  BY IngestionAssumption DEF IInv, TypeOK, Register, Update, Object
<1>2. run' = run
  BY DEF Register, Update
<1>3. <<s, i>> # None
  BY <1>1, NoObjectAssumption
<1> QED
  BY <1>1, <1>2, <1>3 DEF IInv, TypeOK, Shape, Under

LEMMA StepShaped == IInv /\ [Next]_vars => Shape'
<1> SUFFICES ASSUME IInv, [Next]_vars PROVE Shape'
  OBVIOUS
<1>1. CASE \E s \in Source, c \in Config : Register(s, c) \/ Update(s, c)
  BY <1>1, RegistryShaped
<1>2. CASE \E r \in Run, s \in Source, dry, force \in BOOLEAN, given \in Feed \cup {None} :
             Begin(r, s, dry, force, given)
  <2> PICK r \in Run, s \in Source, dry \in BOOLEAN, force \in BOOLEAN, given \in Feed \cup {None} :
             Begin(r, s, dry, force, given)
    BY <1>2
  <2>1. held' = held /\ held[s] # None /\ held[s] \in Object /\ held[s][1] = s
    BY DEF Begin, registry, IInv, Shape
  <2>2. \A q \in Run \ {r} : run'[q] = run[q]
    BY DEF Begin, IInv, TypeOK
  <2>3. run'[r].source = s /\ run'[r].record = held[s] /\ run'[r].stage = "begun"
    BY DEF Begin, IInv, TypeOK, Unused
  <2> QED BY <2>1, <2>2, <2>3 DEF IInv, Shape, Under
<1>3. CASE \E r \in Run : Go(r)
  <2> PICK r \in Run : Go(r)
    BY <1>3
  <2>1. CASE Waits(r)
    <3>1. held' = held
      BY <2>1 DEF Waits, registry
    <3>2. \A q \in Run \ {r} : run'[q] = run[q]
      BY <2>1 DEF Waits, IInv, TypeOK
    <3>3. run'[r].source = run[r].source /\ run'[r].record = run[r].record
          /\ \/ Under(r) /\ run'[r].stage \in {"fetch", "body", "pause"}
             \/ run[r].stage = "closing" /\ run'[r].stage = "done"
      BY <2>1 DEF Waits, IInv, TypeOK
    <3> QED BY <3>1, <3>2, <3>3 DEF IInv, Shape, Under
  <2> QED BY <2>1, GoCases, HandleShaped DEF IInv
<1>4. CASE UNCHANGED vars
  BY <1>4 DEF IInv, Shape, Under, vars, registry
<1> QED BY <1>1, <1>2, <1>3, <1>4 DEF Next

LEMMA InitHolds == Init => IInv
<1> SUFFICES ASSUME Init PROVE IInv
  OBVIOUS
<1>1. Seed \in Config
  BY DEF Seed, Config
<1>2. \A s \in Source : <<s, 0>> \in Object /\ <<s, 0>>[1] = s
  BY DEF Object
<1>3. TypeOK
  BY <1>1, <1>2, UnusedTyped, IngestionAssumption DEF Init, TypeOK
<1>4. Shape
  BY <1>2 DEF Init, Shape, Under, Unused
<1> QED BY <1>3, <1>4 DEF IInv

LEMMA Invariant == Spec => []IInv
<1>1. IInv /\ [Next]_vars => IInv'
  BY StepTyped, StepShaped DEF IInv
<1> QED BY InitHolds, <1>1, PTL DEF Spec

(* Sources, runs, hashes and events keep their types: a run always holds a *)
(* record of the source it was started for, and attempts stay below the    *)
(* limit (executeIngestionRun).                                            *)
THEOREM IngestionTyped == Spec => []TypeOK
<1>1. IInv => TypeOK
  BY DEF IInv
<1> QED BY Invariant, <1>1, PTL

-----------------------------------------------------------------------------
(* Events and reports. *)

(* What handling a feed does to the events.                                *)
LEMMA KeepCounts ==
  ASSUME IInv, OncePerKey, NEW r \in Run, Under(r), NEW items \in SUBSET Item,
         Handle(r, items)
  PROVE  /\ OncePerKey'
         /\ \A h \in Hash : events[h] > 0 => events'[h] > 0
         /\ ~run[r].dry => \A h \in Hashes(r, items \cap WellFormed) : events'[h] > 0
<1>1. Fresh(r, items) \subseteq Hash /\ Fresh(r, items) \cap hashes = {}
  BY ItemsTyped
<1>2. Keep(r, items)
  BY DEF Handle
<1>3. Hashes(r, items \cap WellFormed) \subseteq Hash
  BY IngestionAssumption DEF IInv, Shape, Hashes, Hash
<1>4. CASE run[r].dry
  BY <1>2, <1>4 DEF Keep, OncePerKey
<1>5. CASE ~run[r].dry
  <2>1. hashes' = hashes \cup Fresh(r, items)
    BY <1>2, <1>5 DEF Keep
  <2>2. \A h \in Hash : events'[h] = events[h] + (IF h \in Fresh(r, items) THEN 1 ELSE 0)
    BY <1>2, <1>5 DEF Keep
  <2>3. OncePerKey'
    BY <1>1, <2>1, <2>2 DEF OncePerKey
  <2>4. Hashes(r, items \cap WellFormed) \subseteq hashes'
    BY <2>1 DEF Fresh
  <2> QED
    BY <1>1, <1>3, <2>2, <2>3, <2>4 DEF OncePerKey
<1> QED BY <1>4, <1>5

(* Everything else leaves the events alone.                                *)
LEMMA OthersKeepEvents ==
  ASSUME IInv, [Next]_vars
  PROVE  \/ UNCHANGED <<hashes, events>>
         \/ \E r \in Run : Under(r) /\ \E items \in SUBSET Item : Handle(r, items)
<1>1. CASE \E s \in Source, c \in Config : Register(s, c) \/ Update(s, c)
  BY <1>1 DEF Register, Update
<1>2. CASE \E r \in Run, s \in Source, dry, force \in BOOLEAN, given \in Feed \cup {None} :
             Begin(r, s, dry, force, given)
  BY <1>2 DEF Begin
<1>3. CASE \E r \in Run : Go(r)
  BY <1>3, GoCases DEF IInv, Waits, Fail
<1>4. CASE UNCHANGED vars
  BY <1>4 DEF vars
<1> QED BY <1>1, <1>2, <1>3, <1>4 DEF Next

(* The duplicate test and the event are of one turn, so overlapping runs   *)
(* that meet the same items make one event of each key                     *)
(* (processWeatherPayload and its like).                                   *)
THEOREM EventsOncePerKey == Spec => []OncePerKey
<1>1. Init => OncePerKey
  BY DEF Init, OncePerKey
<1>2. IInv /\ OncePerKey /\ [Next]_vars => OncePerKey'
  BY OthersKeepEvents, KeepCounts DEF OncePerKey
<1> QED BY Invariant, <1>1, <1>2, PTL DEF Spec

(* A report over an ended run stays true, as events are never withdrawn.   *)
Told(r) ==
  run[r].stage \in {"closing", "done"} /\ ~run[r].dry =>
    /\ run[r].status # "RUNNING"
    /\ \A i \in run[r].items \cap WellFormed : events[<<run[r].source, KeyOf[i]>>] > 0
    /\ run[r].status = "FAILED" => run[r].items \cap WellFormed = {}

LEMMA EndTold ==
  ASSUME IInv, OncePerKey, NEW r \in Run, Under(r),
         \/ \E items \in SUBSET Item : Handle(r, items)
         \/ Fail(r)
  PROVE  Told(r)'
<1>1. CASE Fail(r)
  <2>1. run'[r] = Ended(r, {}, "FAILED")
    BY <1>1 DEF Fail, IInv, TypeOK
  <2> QED BY <2>1 DEF Told, Ended, Unused
<1>2. CASE \E items \in SUBSET Item : Handle(r, items)
  <2> PICK items \in SUBSET Item : Handle(r, items)
    BY <1>2
  <2>1. run'[r] = Ended(r, items, StatusOf(r, items))
    BY DEF Handle, IInv, TypeOK
  <2>2. /\ run'[r].source = run[r].source /\ run'[r].dry = run[r].dry
        /\ run'[r].items = items /\ run'[r].status = StatusOf(r, items)
    BY <2>1 DEF Ended, Unused
  <2>3. StatusOf(r, items) # "RUNNING"
        /\ (StatusOf(r, items) = "FAILED" => items \cap WellFormed = {})
    BY DEF StatusOf
  <2>4. ~run[r].dry => \A i \in items \cap WellFormed : events'[<<run[r].source, KeyOf[i]>>] > 0
    BY KeepCounts DEF Hashes
  <2> QED BY <2>2, <2>3, <2>4 DEF Told
<1> QED BY <1>1, <1>2

LEMMA StepTold ==
  ASSUME IInv, OncePerKey, RunsTellTruth, [Next]_vars
  PROVE  RunsTellTruth'
<1>1. \A r \in Run : Told(r)
  BY DEF RunsTellTruth, Told
<1>2. \A h \in Hash : events[h] > 0 => events'[h] > 0
  BY OthersKeepEvents, KeepCounts
<1>3. ASSUME NEW r \in Run, run'[r] = run[r]
      PROVE  Told(r)'
  <2>1. CASE run[r].stage \in {"closing", "done"}
    <3>1. \A i \in run[r].items \cap WellFormed : <<run[r].source, KeyOf[i]>> \in Hash
      BY <2>1, IngestionAssumption DEF IInv, Shape, TypeOK, RunRecord, Hash
    <3> QED BY <1>1, <1>2, <1>3, <3>1 DEF Told
  <2>2. CASE run[r].stage \notin {"closing", "done"}
    BY <1>3, <2>2 DEF Told
  <2> QED BY <2>1, <2>2
<1>4. ASSUME NEW r \in Run PROVE Told(r)'
  <2>1. CASE \E s \in Source, c \in Config : Register(s, c) \/ Update(s, c)
    BY <1>3, <2>1 DEF Register, Update
  <2>2. CASE \E q \in Run, s \in Source, dry, force \in BOOLEAN, given \in Feed \cup {None} :
               Begin(q, s, dry, force, given)
    <3> PICK q \in Run, s \in Source, dry \in BOOLEAN, force \in BOOLEAN, given \in Feed \cup {None} :
               Begin(q, s, dry, force, given)
      BY <2>2
    <3>1. CASE q = r
      <4>1. run'[r].stage = "begun"
        BY <3>1 DEF Begin, IInv, TypeOK, Unused
      <4> QED BY <4>1 DEF Told
    <3>2. CASE q # r
      BY <1>3, <3>2 DEF Begin, IInv, TypeOK
    <3> QED BY <3>1, <3>2
  <2>3. CASE \E q \in Run : Go(q)
    <3> PICK q \in Run : Go(q)
      BY <2>3
    <3>1. CASE q # r
      <4>1. run'[r] = run[r]
        BY <3>1, GoCases DEF IInv, TypeOK, Waits, Handle, Fail
      <4> QED BY <1>3, <4>1
    <3>2. CASE q = r /\ Waits(r)
      <4>1. PICK rec \in RunRecord :
              /\ run'[r] = rec /\ events' = events
              /\ rec.source = run[r].source
              /\ rec.dry = run[r].dry /\ rec.items = run[r].items /\ rec.status = run[r].status
              /\ \/ rec.stage \in {"fetch", "body", "pause"}
                 \/ run[r].stage = "closing" /\ rec.stage = "done"
        BY <3>2 DEF Waits, IInv, TypeOK
      <4> QED BY <1>1, <4>1 DEF Told
    <3>3. CASE q = r /\ ~Waits(r)
      BY <3>3, GoCases, EndTold DEF IInv
    <3> QED BY <3>1, <3>2, <3>3
  <2>4. CASE UNCHANGED vars
    BY <1>3, <2>4 DEF vars
  <2> QED BY <2>1, <2>2, <2>3, <2>4 DEF Next
<1> QED BY <1>4 DEF RunsTellTruth, Told

(* What an ended run reports is what readers find, also when another run   *)
(* made the events its items count as duplicates of.                       *)
THEOREM ReportsTrue == Spec => []RunsTellTruth
<1>1. Init => RunsTellTruth
  BY DEF Init, RunsTellTruth, Unused
<1>2. IInv /\ OncePerKey /\ RunsTellTruth /\ [Next]_vars => RunsTellTruth'
  BY StepTold
<1> QED BY Invariant, EventsOncePerKey, <1>1, <1>2, PTL DEF Spec

-----------------------------------------------------------------------------
(* The registry and the runs' copies. *)

(* A source that was never registered was never run. *)
Unregistered == \A s \in Source : held[s] = None => unfed[s] = 0

RInv == IInv /\ Agreement /\ Unregistered /\ SourceTrue

LEMMA EndAgrees ==
  ASSUME RInv, NEW r \in Run, Under(r),
         \/ \E items \in SUBSET Item : Handle(r, items)
         \/ Fail(r)
  PROVE  Agreement' /\ Unregistered' /\ SourceTrue'
<1> DEFINE s == run[r].source
           o == run[r].record
<1>1. s \in Source /\ o \in Object /\ o[1] = s /\ held[s] # None
  BY DEF RInv, IInv, Shape
<1>2. /\ held' = [held EXCEPT ![s] = o] /\ raced' = raced /\ wanted' = wanted
      /\ \E items, status : run' = [run EXCEPT ![r] = Ended(r, items, status)]
  BY DEF Handle, Fail, WriteBack
<1>3. PICK n \in Nat : /\ obj' = [obj EXCEPT ![o] = [obj[o] EXCEPT !.failures = n]]
                       /\ unfed' = [unfed EXCEPT ![s] = IF n = 0 THEN 0 ELSE unfed[s] + 1]
                       /\ n # 0 => /\ n = obj[o].failures + 1
                                   /\ streak' = [streak EXCEPT ![s] = streak[s] + 1]
                       /\ \A x \in Source \ {s} : streak'[x] = streak[x]
                       /\ streak'[s] \in Nat
  <2>1. CASE Fail(r)
    <3>1. obj[o].failures + 1 \in Nat \ {0}
      BY <1>1 DEF RInv, IInv, TypeOK
    <3>2. obj' = [obj EXCEPT ![o] = [obj[o] EXCEPT !.failures = obj[o].failures + 1]]
      BY <2>1 DEF Fail, WriteBack
    <3>3. /\ streak' = [streak EXCEPT ![s] = streak[s] + 1]
          /\ unfed' = [unfed EXCEPT ![s] = unfed[s] + 1]
      BY <2>1 DEF Fail, Counted
    <3>4. streak \in [Source -> Nat]
      BY DEF RInv, IInv, TypeOK
    <3>5. (\A x \in Source \ {s} : streak'[x] = streak[x]) /\ streak'[s] \in Nat
      BY <1>1, <3>3, <3>4
    <3> DEFINE k == obj[o].failures + 1
    <3>6. /\ k \in Nat /\ k # 0
          /\ obj' = [obj EXCEPT ![o] = [obj[o] EXCEPT !.failures = k]]
          /\ unfed' = [unfed EXCEPT ![s] = IF k = 0 THEN 0 ELSE unfed[s] + 1]
          /\ k = obj[o].failures + 1 /\ streak' = [streak EXCEPT ![s] = streak[s] + 1]
      BY <3>1, <3>2, <3>3
    <3> HIDE DEF k, s, o
    <3> QED BY <3>5, <3>6
  <2>2. CASE \E items \in SUBSET Item : Handle(r, items)
    <3>1. /\ obj' = [obj EXCEPT ![o] = [obj[o] EXCEPT !.failures = 0]]
          /\ unfed' = [unfed EXCEPT ![s] = 0]
      BY <2>2 DEF Handle, WriteBack, Healed, Counted
    <3>2. (\A x \in Source \ {s} : streak'[x] = streak[x]) /\ streak'[s] \in Nat
      BY <1>1, <2>2 DEF Handle, Counted, RInv, IInv, TypeOK
    <3> QED BY <3>1, <3>2
  <2> QED BY <2>1, <2>2
<1>4. run'[r].stage = "closing" /\ \A q \in Run \ {r} : run'[q] = run[q]
  BY <1>2 DEF RInv, IInv, TypeOK, Ended, Unused
<1>5. s \notin raced => o = held[s]
  BY DEF RInv, Agreement
<1>6. Agreement'
  <2> SUFFICES ASSUME NEW q \in Run, Under(q)', run'[q].source \notin raced
               PROVE  run'[q].record = held'[run'[q].source]
    BY <1>2 DEF Agreement
  <2>1. q # r /\ run'[q] = run[q] /\ Under(q)
    BY <1>4 DEF Under
  <2>2. run[q].record = held[run[q].source] /\ run[q].source \in Source
    BY <2>1 DEF RInv, Agreement, IInv, Shape
  <2> QED BY <1>2, <1>5, <2>1, <2>2 DEF RInv, IInv, TypeOK
<1>7. SourceTrue'
  <2> SUFFICES ASSUME NEW x \in Source \ raced, held'[x] # None
               PROVE  /\ obj'[held'[x]] = [config |-> wanted[x], failures |-> unfed'[x]]
                      /\ unfed'[x] <= streak'[x]
    BY <1>2 DEF SourceTrue
  <2>1. held'[x] = held[x] /\ held[x] \in Object /\ held[x][1] = x
    BY <1>1, <1>2, <1>5 DEF RInv, IInv, TypeOK, Shape
  <2>2. /\ obj[held[x]] = [config |-> wanted[x], failures |-> unfed[x]]
        /\ unfed[x] <= streak[x]
    BY <2>1 DEF RInv, SourceTrue
  <2>3. CASE x = s
    <3>1. held[x] = o
      BY <1>5, <2>3
    <3>2. obj'[o] = [obj[o] EXCEPT !.failures = n]
      BY <1>1, <1>3 DEF RInv, IInv, TypeOK
    <3>3. obj[o].failures = unfed[s]
      BY <2>2, <2>3, <3>1
    <3>4. n = unfed'[s]
      BY <1>1, <1>3, <3>3 DEF RInv, IInv, TypeOK
    <3>5. unfed[s] \in Nat /\ streak[s] \in Nat /\ unfed[s] <= streak[s]
      BY <1>1, <2>2, <2>3 DEF RInv, IInv, TypeOK
    <3>6. unfed'[s] <= streak'[s]
      <4>0. streak'[s] \in Nat
        BY <1>3
      <4>1. CASE n = 0
        BY <3>4, <4>0, <4>1
      <4>2. CASE n # 0
        <5>1. streak'[s] = streak[s] + 1 /\ n = unfed[s] + 1
          BY <1>1, <1>3, <3>3, <4>2 DEF RInv, IInv, TypeOK
        <5> QED BY <3>4, <3>5, <5>1
      <4> QED BY <4>1, <4>2
    <3> QED BY <2>1, <2>2, <2>3, <3>1, <3>2, <3>4, <3>6
  <2>4. CASE x # s
    BY <1>1, <1>3, <2>1, <2>2, <2>4 DEF RInv, IInv, TypeOK
  <2> QED BY <2>3, <2>4
<1>8. Unregistered'
  BY <1>1, <1>2, <1>3, NoObjectAssumption DEF RInv, Unregistered, IInv, TypeOK
<1> QED BY <1>6, <1>7, <1>8

LEMMA RegistryAgrees ==
  ASSUME RInv, NEW s \in Source, NEW c \in Config, Register(s, c) \/ Update(s, c)
  PROVE  Agreement' /\ Unregistered' /\ SourceTrue'
<1>1. run' = run /\ streak' = streak /\ unfed' = unfed /\ wanted' = [wanted EXCEPT ![s] = c]
  BY DEF Register, Update, ends
<1>2. CASE Register(s, c)
  <2>1. \A r \in Run : Under(r) => run[r].source # s
    BY <1>2 DEF Register, RInv, IInv, Shape
  <2>2. Agreement'
    BY <1>1, <1>2, <2>1 DEF Register, RInv, Agreement, Under, IInv, Shape, TypeOK
  <2>3. SourceTrue'
    <3> SUFFICES ASSUME NEW x \in Source \ raced, held'[x] # None
                 PROVE  /\ obj'[held'[x]] = [config |-> wanted'[x], failures |-> unfed[x]]
                        /\ unfed[x] <= streak[x]
      BY <1>1, <1>2 DEF Register, SourceTrue
    <3>1. /\ <<s, 0>> \in Object /\ held' = [held EXCEPT ![s] = <<s, 0>>]
          /\ obj' = [obj EXCEPT ![<<s, 0>>] = [config |-> c, failures |-> 0]]
      BY <1>2 DEF Register, Object
    <3>2. CASE x = s
      <4>1. held'[s] = <<s, 0>> /\ obj'[<<s, 0>>] = [config |-> c, failures |-> 0]
        BY <3>1 DEF RInv, IInv, TypeOK
      <4>2. unfed[s] = 0 /\ 0 <= streak[s] /\ wanted'[s] = c
        BY <1>1, <1>2 DEF Register, RInv, Unregistered, IInv, TypeOK
      <4> QED BY <3>2, <4>1, <4>2
    <3>3. CASE x # s
      <4>1. held'[x] = held[x] /\ held[x] \in Object /\ held[x][1] = x
        BY <3>1, <3>3 DEF RInv, IInv, TypeOK, Shape
      <4>2. obj'[held[x]] = obj[held[x]] /\ wanted'[x] = wanted[x]
        BY <1>1, <3>1, <3>3, <4>1 DEF RInv, IInv, TypeOK
      <4> QED BY <4>1, <4>2 DEF RInv, SourceTrue
    <3> QED BY <3>2, <3>3
  <2>4. Unregistered'
    BY <1>1, <1>2 DEF Register, RInv, Unregistered, IInv, TypeOK
  <2> QED BY <2>2, <2>3, <2>4
<1>3. CASE Update(s, c)
  <2> DEFINE new == <<s, objects + 1>>
  <2>1. new \in Object /\ held' = [held EXCEPT ![s] = new]
        /\ obj' = [obj EXCEPT ![new] = [obj[held[s]] EXCEPT !.config = c]]
    BY <1>3, IngestionAssumption DEF Update, RInv, IInv, TypeOK, Object
  <2>2. raced \subseteq raced' /\ \A r \in Run : Under(r) /\ run[r].source = s => s \in raced'
    BY <1>3 DEF Update
  <2>3. Agreement'
    BY <1>1, <2>1, <2>2 DEF RInv, Agreement, Under, IInv, Shape, TypeOK
  <2>4. SourceTrue'
    <3> SUFFICES ASSUME NEW x \in Source \ raced', held'[x] # None
                 PROVE  /\ obj'[held'[x]] = [config |-> wanted'[x], failures |-> unfed[x]]
                        /\ unfed[x] <= streak[x]
      BY <1>1 DEF SourceTrue
    <3>1. CASE x = s
      <4>1. held[s] # None /\ held[s] \in Object
        BY <1>3 DEF Update, RInv, IInv, Shape
      <4>2. /\ obj[held[s]] = [config |-> wanted[s], failures |-> unfed[s]]
            /\ unfed[s] <= streak[s]
        BY <2>2, <3>1, <4>1 DEF RInv, SourceTrue
      <4>3. obj'[new] = [obj[held[s]] EXCEPT !.config = c] /\ held'[s] = new /\ wanted'[s] = c
        BY <1>1, <2>1 DEF RInv, IInv, TypeOK
      <4> QED BY <3>1, <4>2, <4>3
    <3>2. CASE x # s
      <4>1. held'[x] = held[x] /\ held[x] \in Object /\ held[x][1] = x
        BY <2>1, <3>2 DEF RInv, IInv, TypeOK, Shape
      <4>2. obj'[held[x]] = obj[held[x]] /\ wanted'[x] = wanted[x]
        BY <1>1, <2>1, <3>2, <4>1 DEF RInv, IInv, TypeOK
      <4> QED BY <2>2, <3>2, <4>1, <4>2 DEF RInv, SourceTrue
    <3> QED BY <3>1, <3>2
  <2>5. Unregistered'
    BY <1>1, <2>1, NoObjectAssumption DEF RInv, Unregistered, IInv, TypeOK
  <2> QED BY <2>3, <2>4, <2>5
<1> QED BY <1>2, <1>3

LEMMA StepAgrees == RInv /\ [Next]_vars => Agreement' /\ Unregistered' /\ SourceTrue'
<1> SUFFICES ASSUME RInv, [Next]_vars PROVE Agreement' /\ Unregistered' /\ SourceTrue'
  OBVIOUS
<1>1. CASE \E s \in Source, c \in Config : Register(s, c) \/ Update(s, c)
  BY <1>1, RegistryAgrees
<1>2. CASE \E r \in Run, s \in Source, dry, force \in BOOLEAN, given \in Feed \cup {None} :
             Begin(r, s, dry, force, given)
  <2> PICK r \in Run, s \in Source, dry \in BOOLEAN, force \in BOOLEAN, given \in Feed \cup {None} :
             Begin(r, s, dry, force, given)
    BY <1>2
  <2>1. UNCHANGED <<held, obj, wanted, raced, streak, unfed>>
    BY DEF Begin, registry, ends
  <2>2. \A q \in Run \ {r} : run'[q] = run[q]
    BY DEF Begin, RInv, IInv, TypeOK
  <2>3. run'[r].source = s /\ run'[r].record = held[s]
    BY DEF Begin, RInv, IInv, TypeOK, Unused
  <2> QED BY <2>1, <2>2, <2>3 DEF RInv, Agreement, Unregistered, SourceTrue, Under
<1>3. CASE \E r \in Run : Go(r)
  <2> PICK r \in Run : Go(r)
    BY <1>3
  <2>1. CASE Waits(r)
    <3>1. UNCHANGED <<held, obj, wanted, raced, streak, unfed>>
      BY <2>1 DEF Waits, registry, ends
    <3>2. \A q \in Run \ {r} : run'[q] = run[q]
      BY <2>1 DEF Waits, RInv, IInv, TypeOK
    <3>3. run'[r].source = run[r].source /\ run'[r].record = run[r].record
          /\ \/ Under(r)
             \/ run'[r].stage = "done"
      BY <2>1 DEF Waits, RInv, IInv, TypeOK
    <3> QED BY <3>1, <3>2, <3>3 DEF RInv, Agreement, Unregistered, SourceTrue, Under
  <2> QED BY <2>1, GoCases, EndAgrees DEF RInv, IInv
<1>4. CASE UNCHANGED vars
  BY <1>4 DEF RInv, Agreement, Unregistered, SourceTrue, Under, vars, registry, ends
<1> QED BY <1>1, <1>2, <1>3, <1>4 DEF Next

(* Unless it is updated under a run, a source's record shows its           *)
(* configuration and how many runs in a row have ended without a payload,  *)
(* never more than those in a row that reported FAILED, whatever runs      *)
(* write back (executeIngestionRun, updateDataSource): all of them hold    *)
(* one record.                                                             *)
THEOREM RegistryTrue == Spec => []SourceTrue
<1>1. Init => Agreement /\ Unregistered /\ SourceTrue
  <2> SUFFICES ASSUME Init PROVE Agreement /\ Unregistered /\ SourceTrue
    OBVIOUS
  <2>1. Agreement
    BY DEF Init, Agreement, Under, Unused
  <2>2. \A s \in Source : held[s] # None => held[s] = <<s, 0>> /\ <<s, 0>> \in Object
    BY DEF Init, Object
  <2>3. SourceTrue
    BY <2>2 DEF Init, SourceTrue, Seed
  <2>4. Unregistered
    BY DEF Init, Unregistered
  <2> QED BY <2>1, <2>3, <2>4
<1>2. RInv /\ [Next]_vars => RInv'
  BY StepTyped, StepShaped, StepAgrees DEF RInv, IInv
<1>3. RInv => SourceTrue
  BY DEF RInv
<1>4. Init => RInv
  BY InitHolds, <1>1 DEF RInv
<1> QED BY <1>2, <1>3, <1>4, PTL DEF Spec
=============================================================================
