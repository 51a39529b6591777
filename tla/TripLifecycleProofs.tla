-------------------------- MODULE TripLifecycleProofs --------------------------
(***************************************************************************)
(* Proofs about TripLifecycle and PlanApplication, for any number of       *)
(* shipments, trips, overlapping requests and applications: the stores     *)
(* implement TripManifest, phantoms have a cause, also those a plan leaves *)
(* behind, nobody on the list is left behind, no route of a plan is given  *)
(* two trips, and an application left alone carries its plan out.          *)
(***************************************************************************)
EXTENDS PlanApplication, TLAPS, FiniteSetTheorems

(* A trip record that may be stored. *)
Full(r) == r.status # "NONE" /\ r.vehicle \in Vehicle /\ r.driver \in Driver

Creating(r) == r.op = "create" /\ r.at = "riders"

(* What a request under way may rely on: the trip it builds is not there   *)
(* yet and its list is as far as the request has come; the trip it moves   *)
(* is there, and everyone on its list is still to come, was too late or    *)
(* has been handled.                                                       *)
WorkSound(r) ==
  /\ Full(r.copy) /\ ordered[r.trip] # None
  /\ IF Creating(r)
     THEN /\ ~Stored(r.trip) /\ r.rest \subseteq ordered[r.trip]
          /\ Riders(r.trip) = ordered[r.trip] \ r.rest
     ELSE Stored(r.trip)
  /\ r.op # "create" =>
       \A s \in Riders(r.trip) :
         s \in r.rest \/ <<r.trip, s>> \in late \/ <<r.trip, s, StatusOf(r.op)>> \in handled

JobsSound == \A j \in Job : job[j] # Idle => WorkSound(job[j])

(* No trip is built by two requests. *)
OneBuilder ==
  \A i, j \in Job : i # j /\ Creating(job[i]) /\ Creating(job[j]) => job[i].trip # job[j].trip

TripsSound ==
  \A t \in Trip :
    /\ Stored(t) => Full(trip[t]) /\ ordered[t] # None
    /\ Riders(t) # {} => ordered[t] # None

IInv == TypeOK /\ JobsSound /\ OneBuilder /\ TripsSound

USE TripAssumption

-----------------------------------------------------------------------------
(* Records. *)

LEMMA WorkFields ==
  ASSUME NEW r \in Work
  PROVE  /\ r # Idle /\ r.op \in {"create", "depart", "complete"} /\ r.at \in {"driver", "riders"}
         /\ r.trip \in Trip /\ r.driver \in Driver /\ r.copy \in TripRecord
         /\ r.rest \in SUBSET Shipment
         /\ \A T \in SUBSET Shipment : [r EXCEPT !.rest = T] \in Work
         /\ \A a \in {"driver", "riders"} : [r EXCEPT !.at = a] \in Work
BY DEF Work, Idle

LEMMA AtWork ==
  ASSUME TypeOK, NEW j \in Job, job[j].op \in {"create", "depart", "complete"}
  PROVE  job[j] \in Work /\ job[j] # Idle
BY DEF TypeOK, Idle, Work

LEMMA IdleQuiet == ~Creating(Idle) /\ Idle \notin Work
BY DEF Creating, Idle, Work

LEMMA RecordTypes ==
  ASSUME TypeOK
  PROVE  /\ \A s \in Shipment, st \in ShipmentStatus, t \in Trip \cup {None} :
              /\ [shipment EXCEPT ![s] = [status |-> st, trip |-> t]] \in [Shipment -> ShipmentRecord]
              /\ [shipment EXCEPT ![s].status = st] \in [Shipment -> ShipmentRecord]
         /\ \A t \in Trip, r \in TripRecord : [trip EXCEPT ![t] = r] \in [Trip -> TripRecord]
<1>1. ASSUME NEW s \in Shipment, NEW st \in ShipmentStatus, NEW t \in Trip \cup {None}
      PROVE  /\ [shipment EXCEPT ![s] = [status |-> st, trip |-> t]] \in [Shipment -> ShipmentRecord]
             /\ [shipment EXCEPT ![s].status = st] \in [Shipment -> ShipmentRecord]
  BY DEF TypeOK, ShipmentRecord
<1> QED BY <1>1 DEF TypeOK

LEMMA TripTypes ==
  ASSUME NEW r \in TripRecord
  PROVE  \A st \in TripStatus : [r EXCEPT !.status = st] \in TripRecord
BY DEF TripRecord

LEMMA PatchTyped ==
  ASSUME TypeOK, NEW t \in Trip, NEW v \in Vehicle, NEW d \in Driver, NEW st \in TripStatus, NEW b \in BOOLEAN
  PROVE  /\ [Patched(t, v, d) EXCEPT !.status = st, !.started = b] \in TripRecord
         /\ [Patched(t, v, d) EXCEPT !.status = st] \in TripRecord
         /\ st # "NONE" => /\ Full([Patched(t, v, d) EXCEPT !.status = st, !.started = b])
                           /\ Full([Patched(t, v, d) EXCEPT !.status = st])
<1>1. trip[t] \in TripRecord
  BY DEF TypeOK
<1>2. /\ Patched(t, v, d) \in TripRecord
      /\ Patched(t, v, d).vehicle \in Vehicle /\ Patched(t, v, d).driver \in Driver
  BY <1>1 DEF TripRecord, Patched
<1> QED BY <1>2 DEF TripRecord, Full

-----------------------------------------------------------------------------
(* Steps that leave trips, lists and requests alone keep what the requests *)
(* rely on.                                                                *)

LEMMA Undisturbed ==
  ASSUME IInv, TypeOK', UNCHANGED <<trip, assigned, job, ordered, handled, late>>
  PROVE  IInv'
<1>1. \A t : (Stored(t))' = Stored(t) /\ (Riders(t))' = Riders(t)
  BY DEF Stored, Riders
<1>2. \A r : (WorkSound(r))' = WorkSound(r)
  BY <1>1 DEF WorkSound
<1> QED BY <1>1, <1>2 DEF IInv, JobsSound, OneBuilder, TripsSound

(* Requests that work on other trips than the one a step touches, and      *)
(* requests whose trip only has more handled or late riders, keep what     *)
(* they rely on.                                                           *)
LEMMA OthersSound ==
  ASSUME NEW w, WorkSound(w),
         (Stored(w.trip))' = Stored(w.trip), (Riders(w.trip))' = Riders(w.trip),
         ordered'[w.trip] = ordered[w.trip], late \subseteq late', handled \subseteq handled'
  PROVE  (WorkSound(w))'
BY DEF WorkSound

-----------------------------------------------------------------------------
(* Creation. *)

(* A turn of the loop over the shipments, from whatever the request was.   *)
LEMMA CreateStepTyped ==
  ASSUME TypeOK, NEW j \in Job, NEW r \in Work, Full(r.copy), CreateStep(j, r),
         ordered' \in [Trip -> (SUBSET Shipment) \cup {None}],
         UNCHANGED <<driver, requests, handled, late, departed, finished>>
  PROVE  TypeOK'
<1>1. CASE r.rest # {}
  <2> PICK s \in r.rest : BindOne(j, r, s) /\ UNCHANGED <<trip, vehicle>>
    BY <1>1 DEF CreateStep
  <2>1. s \in Shipment /\ r.trip \in Trip /\ r.rest \ {s} \in SUBSET Shipment
    BY WorkFields
  <2>2. CASE Known(s)
    <3>1. /\ assigned' = assigned \cup {<<r.trip, s>>} /\ failed' = failed
          /\ shipment' = [shipment EXCEPT ![s] = [status |-> "ASSIGNED", trip |-> r.trip]]
          /\ job' = [job EXCEPT ![j] = [r EXCEPT !.rest = r.rest \ {s}]]
      BY <2>2 DEF BindOne
    <3>2. shipment' \in [Shipment -> ShipmentRecord]
      BY <2>1, <3>1, RecordTypes DEF ShipmentStatus
    <3>3. job' \in [Job -> Work \cup {Idle}]
      BY <2>1, <3>1, WorkFields DEF TypeOK
    <3> QED BY <2>1, <3>1, <3>2, <3>3 DEF TypeOK
  <2>3. CASE ~Known(s)
    <3>1. /\ failed' = failed \cup {r.trip} /\ UNCHANGED <<assigned, shipment>>
          /\ job' = [job EXCEPT ![j] = Idle]
      BY <2>3 DEF BindOne
    <3> QED BY <2>1, <3>1 DEF TypeOK
  <2> QED BY <2>2, <2>3
<1>2. CASE r.rest = {}
  <2> DEFINE w == r.copy.vehicle
  <2>1. /\ trip' = [trip EXCEPT ![r.trip] = r.copy] /\ UNCHANGED <<assigned, shipment, failed>>
        /\ vehicle' = [vehicle EXCEPT ![w].status = "ASSIGNED", ![w].driver = r.copy.driver]
        /\ job' = [job EXCEPT ![j] = [r EXCEPT !.at = "driver"]]
    BY <1>2 DEF CreateStep, StoreTrip
  <2>2. trip' \in [Trip -> TripRecord] /\ job' \in [Job -> Work \cup {Idle}]
    BY <2>1, WorkFields DEF TypeOK
  <2>3. vehicle' \in [Vehicle -> VehicleRecord]
    <3>1. w \in Vehicle /\ r.copy.driver \in Driver
      BY DEF Full
    <3> DEFINE rec == [vehicle[w] EXCEPT !.status = "ASSIGNED", !.driver = r.copy.driver]
    <3>2. rec \in VehicleRecord
      <4>1. vehicle[w] \in VehicleRecord
        BY <3>1 DEF TypeOK
      <4> QED BY <3>1, <4>1 DEF VehicleRecord, VehicleStatus
    <3>3. vehicle' = [vehicle EXCEPT ![w] = rec]
      BY <2>1, <3>1 DEF TypeOK
    <3> HIDE DEF rec, w
    <3> QED BY <3>1, <3>2, <3>3 DEF TypeOK
  <2> QED BY <2>1, <2>2, <2>3 DEF TypeOK
<1> QED BY <1>1, <1>2

(* What it writes.                                                         *)
LEMMA CreateStepWrites ==
  ASSUME TypeOK, NEW j \in Job, NEW r \in Work, CreateStep(j, r)
  PROVE  \/ \E s \in r.rest :
              /\ assigned' = assigned \cup {<<r.trip, s>>} /\ UNCHANGED <<trip, failed>>
              /\ shipment' = [shipment EXCEPT ![s] = [status |-> "ASSIGNED", trip |-> r.trip]]
              /\ job' = [job EXCEPT ![j] = [r EXCEPT !.rest = r.rest \ {s}]]
         \/ /\ failed' = failed \cup {r.trip} /\ UNCHANGED <<assigned, trip, shipment>>
            /\ job' = [job EXCEPT ![j] = Idle]
         \/ /\ r.rest = {} /\ UNCHANGED <<assigned, failed, shipment>>
            /\ trip' = [trip EXCEPT ![r.trip] = r.copy]
            /\ job' = [job EXCEPT ![j] = [r EXCEPT !.at = "driver"]]
<1>1. CASE r.rest # {}
  <2> PICK s \in r.rest : BindOne(j, r, s) /\ UNCHANGED <<trip, vehicle>>
    BY <1>1 DEF CreateStep
  <2> QED BY DEF BindOne
<1>2. CASE r.rest = {}
  BY <1>2 DEF CreateStep, StoreTrip
<1> QED BY <1>1, <1>2

(* A creation that begins orders its trip in this step; one that goes on   *)
(* finds it ordered.  Either way nobody else works on the trip.            *)
LEMMA CreateStepSound ==
  ASSUME IInv, TypeOK', NEW j \in Job, NEW r \in Work, CreateStep(j, r), Creating(r),
         Full(r.copy), UNCHANGED <<handled, late>>,
         ordered'[r.trip] # None, ~Stored(r.trip), r.rest \subseteq ordered'[r.trip],
         Riders(r.trip) = ordered'[r.trip] \ r.rest,
         \A t \in Trip : t # r.trip => ordered'[t] = ordered[t],
         \A i \in Job : i # j /\ job[i] # Idle => job[i].trip # r.trip
  PROVE  IInv'
<1> DEFINE t0 == r.trip
<1>0. TypeOK /\ JobsSound /\ OneBuilder /\ TripsSound /\ t0 \in Trip /\ r.rest \in SUBSET Shipment
  BY WorkFields DEF IInv
<1>1. \A t \in Trip : t # t0 => (Stored(t))' = Stored(t) /\ (Riders(t))' = Riders(t)
  BY <1>0, CreateStepWrites DEF Stored, Riders, TypeOK
<1>2. PICK rec \in Work \cup {Idle} :
        /\ job' = [job EXCEPT ![j] = rec]
        /\ rec # Idle => rec.trip = t0 /\ rec.op = "create" /\ (WorkSound(rec))'
        /\ (Stored(t0))' => (Full(trip[t0]))'
  <2>1. CASE \E s \in r.rest :
               /\ assigned' = assigned \cup {<<t0, s>>} /\ trip' = trip
               /\ job' = [job EXCEPT ![j] = [r EXCEPT !.rest = r.rest \ {s}]]
    <3> PICK s \in r.rest :
               /\ assigned' = assigned \cup {<<t0, s>>} /\ trip' = trip
               /\ job' = [job EXCEPT ![j] = [r EXCEPT !.rest = r.rest \ {s}]]
      BY <2>1
    <3> DEFINE rec == [r EXCEPT !.rest = r.rest \ {s}]
    <3>1. /\ rec \in Work /\ rec.trip = t0 /\ rec.op = "create" /\ rec.at = "riders"
          /\ rec.copy = r.copy /\ rec.rest = r.rest \ {s}
      BY <1>0, WorkFields DEF Work, Creating
    <3>2. s \in Shipment /\ (Riders(t0))' = Riders(t0) \cup {s}
      BY <1>0 DEF Riders
    <3>3. (Riders(t0))' = ordered'[t0] \ (r.rest \ {s}) /\ r.rest \ {s} \subseteq ordered'[t0]
      BY <3>2
    <3>4. ~(Stored(t0))' /\ Full(rec.copy)
      BY <3>1 DEF Stored
    <3> HIDE DEF rec
    <3>5. (WorkSound(rec))'
      BY <3>1, <3>3, <3>4 DEF WorkSound, Creating, Full
    <3> QED BY <3>1, <3>4, <3>5 DEF rec
  <2>2. CASE trip' = trip /\ job' = [job EXCEPT ![j] = Idle]
    BY <2>2 DEF Stored
  <2>3. CASE /\ assigned' = assigned /\ trip' = [trip EXCEPT ![t0] = r.copy]
             /\ job' = [job EXCEPT ![j] = [r EXCEPT !.at = "driver"]]
    <3> DEFINE rec == [r EXCEPT !.at = "driver"]
    <3>1. /\ rec \in Work /\ rec.trip = t0 /\ rec.op = "create" /\ rec.at = "driver"
          /\ rec.copy = r.copy
      BY WorkFields DEF Work, Creating
    <3>2. trip'[t0] = r.copy
      BY <1>0, <2>3 DEF TypeOK
    <3>3. (Stored(t0))' /\ (Full(trip[t0]))'
      BY <3>2 DEF Stored, Full
    <3> HIDE DEF rec
    <3>4. (WorkSound(rec))'
      BY <3>1, <3>3 DEF WorkSound, Creating, Full
    <3> QED BY <2>3, <3>1, <3>3, <3>4 DEF rec
  <2> QED BY <1>0, <2>1, <2>2, <2>3, CreateStepWrites
<1>3. \A i \in Job : i # j => job'[i] = job[i]
  BY <1>0, <1>2 DEF TypeOK
<1>4. job'[j] = rec
  BY <1>0, <1>2 DEF TypeOK
<1>5. ASSUME NEW i \in Job, job'[i] # Idle
      PROVE  (WorkSound(job[i]))'
  <2>1. CASE i = j
    BY <1>2, <1>4, <1>5, <2>1 DEF WorkSound, Creating, Stored, Riders
  <2>2. CASE i # j
    <3>1. PICK w : w = job[i] /\ w = job'[i] /\ w # Idle
      BY <1>3, <1>5, <2>2
    <3>2. WorkSound(w) /\ w.trip # t0 /\ w.trip \in Trip
      <4>1. w \in Work
        BY <1>0, <3>1 DEF TypeOK
      <4>2. WorkSound(w)
        BY <1>0, <3>1 DEF JobsSound
      <4>3. w.trip # t0
        BY <2>2, <3>1
      <4> QED BY <4>1, <4>2, <4>3, WorkFields
    <3>3. (WorkSound(w))'
      BY <1>1, <3>2, OthersSound
    <3> QED BY <3>1, <3>3
  <2> QED BY <2>1, <2>2
<1>6. OneBuilder'
  <2>1. \A i \in Job : i # j => job'[i] = job[i]
    BY <1>3
  <2>2. \A i \in Job : i # j /\ Creating(job[i]) => job[i].trip # t0
    BY IdleQuiet
  <2>3. Creating(rec) => rec.trip = t0
    BY <1>2, IdleQuiet
  <2> QED BY <1>0, <1>4, <2>1, <2>2, <2>3 DEF OneBuilder, Creating
<1>7. TripsSound'
  <2> SUFFICES ASSUME NEW t \in Trip
               PROVE  /\ (Stored(t))' => (Full(trip[t]))' /\ ordered'[t] # None
                      /\ (Riders(t))' # {} => ordered'[t] # None
    BY DEF TripsSound
  <2>1. CASE t = t0
    BY <1>2, <2>1
  <2>2. CASE t # t0
    <3>1. trip'[t] = trip[t]
      BY <1>0, <2>2, CreateStepWrites DEF TypeOK
    <3> QED BY <1>0, <1>1, <2>2, <3>1 DEF TripsSound, Full
  <2> QED BY <2>1, <2>2
<1> QED BY <1>5, <1>6, <1>7 DEF IInv, JobsSound

LEMMA CreateSound ==
  ASSUME IInv, Create \/ \E j \in Job : ContinueCreation(j)
  PROVE  IInv'
<1> TypeOK /\ JobsSound /\ OneBuilder /\ TripsSound
  BY DEF IInv
<1>1. ASSUME NEW j \in Job, NEW t \in Trip, NEW v \in Vehicle, NEW d \in Driver,
             NEW riders \in SUBSET Shipment, CreateTrip(j, t, v, d, riders)
      PROVE  IInv'
  <2> DEFINE r == [op |-> "create", at |-> "riders", trip |-> t, driver |-> d, rest |-> riders,
                   copy |-> [status |-> "SCHEDULED", started |-> FALSE,
                             vehicle |-> v, driver |-> d]]
  <2>1. r \in Work /\ Creating(r) /\ Full(r.copy) /\ r.trip = t /\ r.rest = riders
    BY DEF Work, TripRecord, TripStatus, Creating, Full
  <2>2. /\ CreateStep(j, r) /\ ordered[t] = None /\ ordered' = [ordered EXCEPT ![t] = riders]
        /\ UNCHANGED <<driver, requests, handled, late, departed, finished>>
    BY <1>1 DEF CreateTrip
  <2> HIDE DEF r
  <2>3. ordered' \in [Trip -> (SUBSET Shipment) \cup {None}]
    BY <2>2 DEF TypeOK
  <2>4. TypeOK'
    BY <2>1, <2>2, <2>3, CreateStepTyped
  <2>5. ordered'[t] = riders /\ riders # None /\ \A u \in Trip : u # t => ordered'[u] = ordered[u]
    BY <2>2 DEF TypeOK
  <2>6. ~Stored(t) /\ Riders(t) = {}
    BY <2>2 DEF TripsSound
  <2>7. \A i \in Job : job[i] # Idle => job[i].trip # t
    BY <2>2 DEF JobsSound, WorkSound
  <2> QED BY <2>1, <2>2, <2>4, <2>5, <2>6, <2>7, CreateStepSound
<1>2. ASSUME NEW j \in Job, ContinueCreation(j)
      PROVE  IInv'
  <2>1. /\ Creating(job[j]) /\ CreateStep(j, job[j])
        /\ UNCHANGED <<driver, requests, ordered, handled, late, departed, finished>>
    BY <1>2 DEF ContinueCreation, Creating
  <2>2. job[j] \in Work /\ job[j] # Idle
    BY <2>1, AtWork DEF Creating
  <2>3. PICK r \in Work : r = job[j]
    BY <2>2
  <2>4. WorkSound(r) /\ Creating(r) /\ CreateStep(j, r)
    BY <2>1, <2>2, <2>3 DEF JobsSound
  <2>5. TypeOK'
    <3>1. ordered' \in [Trip -> (SUBSET Shipment) \cup {None}]
      BY <2>1 DEF TypeOK
    <3> QED BY <2>1, <2>4, <3>1, CreateStepTyped DEF WorkSound
  <2>6. ASSUME NEW i \in Job, i # j, job[i] # Idle
        PROVE  job[i].trip # r.trip
    <3>1. CASE Creating(job[i])
      BY <2>1, <2>3, <2>6, <3>1 DEF OneBuilder
    <3>2. CASE ~Creating(job[i])
      BY <2>4, <2>6, <3>2 DEF JobsSound, WorkSound
    <3> QED BY <3>1, <3>2
  <2> QED BY <2>1, <2>4, <2>5, <2>6, CreateStepSound DEF WorkSound
<1> QED BY <1>1, <1>2 DEF Create

-----------------------------------------------------------------------------
(* The steps of a request that is past the building of its trip.           *)

(* A request goes on, or ends, and all others are as sound as before.      *)
LEMMA GoesOn ==
  ASSUME IInv, TypeOK', NEW j \in Job, NEW rec \in Work \cup {Idle},
         job' = [job EXCEPT ![j] = rec], ~Creating(rec), rec # Idle => (WorkSound(rec))',
         UNCHANGED <<assigned, ordered>>, late \subseteq late', handled \subseteq handled',
         \A t \in Trip : (Stored(t))' = Stored(t) /\ (trip'[t] # trip[t] => (Full(trip[t]))')
  PROVE  IInv'
<1> TypeOK /\ JobsSound /\ OneBuilder /\ TripsSound
  BY DEF IInv
<1>1. job'[j] = rec /\ \A i \in Job : i # j => job'[i] = job[i]
  BY DEF TypeOK
<1>2. \A t \in Trip : (Riders(t))' = Riders(t)
  BY DEF Riders
<1>3. ASSUME NEW i \in Job, job'[i] # Idle
      PROVE  (WorkSound(job[i]))'
  <2>1. CASE i = j
    BY <1>1, <1>3, <2>1 DEF WorkSound, Creating, Stored, Riders
  <2>2. CASE i # j
    <3>1. PICK w : w = job[i] /\ w = job'[i] /\ w # Idle
      BY <1>1, <1>3, <2>2
    <3>2. WorkSound(w) /\ w \in Work
      <4>1. w \in Work
        BY <3>1 DEF TypeOK
      <4>2. WorkSound(w)
        BY <3>1 DEF JobsSound
      <4> QED BY <4>1, <4>2
    <3>3. (WorkSound(w))'
      BY <1>2, <3>2, OthersSound, WorkFields
    <3> QED BY <3>1, <3>3
  <2> QED BY <2>1, <2>2
<1>4. OneBuilder'
  BY <1>1 DEF OneBuilder, Creating
<1>5. TripsSound'
  <2> SUFFICES ASSUME NEW t \in Trip
               PROVE  /\ (Stored(t))' => (Full(trip[t]))' /\ ordered'[t] # None
                      /\ (Riders(t))' # {} => ordered'[t] # None
    BY DEF TripsSound
  <2>1. trip'[t] = trip[t] => (Full(trip[t]))' = Full(trip[t])
    BY DEF Full
  <2> QED BY <1>2, <2>1 DEF TripsSound
<1> QED BY <1>3, <1>4, <1>5 DEF IInv, JobsSound

LEMMA TakeDriverSound ==
  ASSUME IInv, NEW j \in Job, TakeDriver(j)
  PROVE  IInv'
<1> TypeOK
  BY DEF IInv
<1> DEFINE d == job[j].driver
<1>1. /\ job' = [job EXCEPT ![j] = Idle] /\ job[j].op = "create"
      /\ UNCHANGED <<shipment, vehicle, trip, assigned, requests, ordered, failed, handled, late,
                     departed, finished>>
      /\ driver' = [driver EXCEPT ![d].vehicle = job[j].copy.vehicle]
  BY DEF TakeDriver, history
<1>2. d \in Driver /\ job[j].copy.vehicle \in Vehicle \cup {None}
  <2>1. job[j] \in Work
    BY <1>1, AtWork
  <2> QED BY <2>1, WorkFields DEF TripRecord
<1> HIDE DEF d
<1>3. driver' \in [Driver -> DriverRecord]
  <2> DEFINE rec == [driver[d] EXCEPT !.vehicle = job[j].copy.vehicle]
  <2>1. rec \in DriverRecord
    <3>1. driver[d] \in DriverRecord
      BY <1>2 DEF TypeOK
    <3> QED BY <1>2, <3>1 DEF DriverRecord
  <2>2. driver' = [driver EXCEPT ![d] = rec]
    BY <1>1
  <2> HIDE DEF rec
  <2> QED BY <2>1, <2>2 DEF TypeOK
<1>4. TypeOK'
  BY <1>1, <1>3 DEF TypeOK
<1>5. \A t \in Trip : (Stored(t))' = Stored(t)
  BY <1>1 DEF Stored
<1> QED BY <1>1, <1>4, <1>5, IdleQuiet, GoesOn

LEMMA StartJobSound ==
  ASSUME IInv, NEW j \in Job, NEW t \in Trip, NEW op \in {"depart", "complete"},
         NEW copy \in TripRecord, Full(copy), StartJob(j, t, op, copy),
         vehicle' \in [Vehicle -> VehicleRecord], requests' \in 0..MaxRequests
  PROVE  IInv'
<1> TypeOK /\ TripsSound
  BY DEF IInv
<1> DEFINE rec == [op |-> op, at |-> "driver", trip |-> t, driver |-> trip[t].driver,
                   copy |-> copy, rest |-> Riders(t)]
<1>1. /\ job' = [job EXCEPT ![j] = rec] /\ Stored(t)
      /\ UNCHANGED <<shipment, driver, trip, assigned, ordered, failed, handled, late,
                     departed, finished>>
  BY DEF StartJob, history
<1>2. /\ rec.op = op /\ rec.at = "driver" /\ rec.trip = t /\ rec.copy = copy
      /\ rec.rest = Riders(t)
  OBVIOUS
<1>3. rec \in Work
  <2>1. trip[t].driver \in Driver /\ Riders(t) \in SUBSET Shipment
    BY <1>1 DEF TripsSound, Full, Riders
  <2> QED BY <2>1 DEF Work
<1> HIDE DEF rec
<1>4. PICK w \in Work : w = rec
  BY <1>3
<1>5. TypeOK'
  BY <1>1, <1>3 DEF TypeOK
<1>6. ordered[t] # None /\ \A u : (Stored(u))' = Stored(u) /\ (Riders(u))' = Riders(u)
  BY <1>1 DEF TripsSound, Stored, Riders
<1>7. (WorkSound(w))'
  BY <1>1, <1>2, <1>4, <1>6 DEF WorkSound, Creating, Full
<1>8. ~Creating(w)
  BY <1>2, <1>4 DEF Creating
<1> QED BY <1>1, <1>4, <1>5, <1>6, <1>7, <1>8, GoesOn

LEMMA VehicleTyped ==
  ASSUME NEW r \in VehicleRecord, NEW st \in VehicleStatus
  PROVE  /\ [r EXCEPT !.status = st] \in VehicleRecord
         /\ [r EXCEPT !.status = st, !.driver = None] \in VehicleRecord
BY DEF VehicleRecord

LEMMA MoveSound ==
  ASSUME IInv, Move, requests' \in 0..MaxRequests
  PROVE  IInv'
<1> TypeOK
  BY DEF IInv
<1>1. ASSUME NEW j \in Job, NEW t \in Trip, Depart(j, t)
      PROVE  IInv'
  <2>1. PICK v \in Vehicle, d \in Driver :
          StartJob(j, t, "depart", [Patched(t, v, d) EXCEPT !.status = "EN_ROUTE", !.started = TRUE])
    BY <1>1 DEF Depart
  <2>2. vehicle' \in [Vehicle -> VehicleRecord]
    <3>1. \A w \in Vehicle : [vehicle[w] EXCEPT !.status = "IN_TRANSIT"] \in VehicleRecord
      BY VehicleTyped DEF TypeOK, VehicleStatus
    <3>2. vehicle' = [vehicle EXCEPT ![trip[t].vehicle].status = "IN_TRANSIT"]
      BY <1>1 DEF Depart
    <3> QED BY <3>1, <3>2 DEF TypeOK
  <2>3. "EN_ROUTE" \in TripStatus /\ "EN_ROUTE" # "NONE"
    BY DEF TripStatus
  <2> DEFINE copy == [Patched(t, v, d) EXCEPT !.status = "EN_ROUTE", !.started = TRUE]
  <2>4. copy \in TripRecord /\ Full(copy)
    BY <2>3, PatchTyped
  <2> HIDE DEF copy
  <2>5. StartJob(j, t, "depart", copy)
    BY <2>1 DEF copy
  <2> QED BY <2>2, <2>4, <2>5, StartJobSound
<1>2. ASSUME NEW j \in Job, NEW t \in Trip, Complete(j, t)
      PROVE  IInv'
  <2>1. PICK v \in Vehicle, d \in Driver :
          StartJob(j, t, "complete", [Patched(t, v, d) EXCEPT !.status = "COMPLETED"])
    BY <1>2 DEF Complete
  <2>2. vehicle' \in [Vehicle -> VehicleRecord]
    <3>1. \A w \in Vehicle : [vehicle[w] EXCEPT !.status = "AVAILABLE", !.driver = None] \in VehicleRecord
      BY VehicleTyped DEF TypeOK, VehicleStatus
    <3>2. vehicle' = [vehicle EXCEPT ![trip[t].vehicle] =
                       [@ EXCEPT !.status = "AVAILABLE", !.driver = None]]
      BY <1>2 DEF Complete
    <3> QED BY <3>1, <3>2 DEF TypeOK
  <2>3. "COMPLETED" \in TripStatus /\ "COMPLETED" # "NONE"
    BY DEF TripStatus
  <2> DEFINE copy == [Patched(t, v, d) EXCEPT !.status = "COMPLETED"]
  <2>4. copy \in TripRecord /\ Full(copy)
    BY <2>3, PatchTyped
  <2> HIDE DEF copy
  <2>5. StartJob(j, t, "complete", copy)
    BY <2>1 DEF copy
  <2> QED BY <2>2, <2>4, <2>5, StartJobSound
<1> QED BY <1>1, <1>2 DEF Move

LEMMA WriteDriverSound ==
  ASSUME IInv, NEW j \in Job, WriteDriver(j)
  PROVE  IInv'
<1> TypeOK /\ JobsSound
  BY DEF IInv
<1>1. job[j].op \in {"depart", "complete"}
  BY DEF WriteDriver
<1>2. PICK r \in Work : r = job[j] /\ r # Idle /\ WorkSound(r)
  BY <1>1, AtWork DEF JobsSound
<1>3. /\ job' = [job EXCEPT ![j] = [r EXCEPT !.at = "riders"]]
      /\ UNCHANGED <<shipment, vehicle, trip, assigned, requests, ordered, failed, handled, late,
                     departed, finished>>
      /\ driver' = [driver EXCEPT ![r.driver] =
           IF r.op = "depart" THEN [@ EXCEPT !.duty = "ON_TRIP"]
           ELSE [@ EXCEPT !.duty = "AVAILABLE", !.vehicle = None]]
  BY <1>2 DEF WriteDriver, history
<1>4. driver' \in [Driver -> DriverRecord]
  <2>1. r.driver \in Driver
    BY WorkFields
  <2>2. driver[r.driver] \in DriverRecord
    BY <2>1 DEF TypeOK
  <2>3. /\ [driver[r.driver] EXCEPT !.duty = "ON_TRIP"] \in DriverRecord
        /\ [driver[r.driver] EXCEPT !.duty = "AVAILABLE", !.vehicle = None] \in DriverRecord
    BY <2>2 DEF DriverRecord, Duty
  <2> QED BY <1>3, <2>1, <2>3 DEF TypeOK
<1> DEFINE rec == [r EXCEPT !.at = "riders"]
<1>5. /\ rec \in Work /\ rec.op = r.op /\ rec.trip = r.trip /\ rec.copy = r.copy
      /\ rec.rest = r.rest
  BY WorkFields DEF Work
<1> HIDE DEF rec
<1>6. job' = [job EXCEPT ![j] = rec]
  BY <1>3 DEF rec
<1>7. TypeOK'
  BY <1>3, <1>4, <1>5, <1>6 DEF TypeOK
<1>8. ~Creating(rec) /\ ~Creating(r) /\ r.op # "create"
  BY <1>1, <1>2, <1>5 DEF Creating
<1>9. \A u : (Stored(u))' = Stored(u) /\ (Riders(u))' = Riders(u)
  BY <1>3 DEF Stored, Riders
<1>10. (WorkSound(rec))'
  BY <1>2, <1>3, <1>5, <1>8, <1>9 DEF WorkSound
<1> QED BY <1>3, <1>5, <1>6, <1>7, <1>8, <1>9, <1>10, GoesOn

LEMMA WriteRiderSound ==
  ASSUME IInv, NEW j \in Job, NEW s \in Shipment, WriteRider(j, s)
  PROVE  IInv'
<1> TypeOK /\ JobsSound
  BY DEF IInv
<1>1. job[j].op \in {"depart", "complete"}
  BY DEF WriteRider
<1>2. PICK r \in Work : r = job[j] /\ r # Idle /\ WorkSound(r)
  BY <1>1, AtWork DEF JobsSound
<1>3. /\ job' = [job EXCEPT ![j] = [r EXCEPT !.rest = r.rest \ {s}]]
      /\ shipment' = [shipment EXCEPT ![s].status = StatusOf(r.op)]
      /\ handled' = handled \cup {<<r.trip, s, StatusOf(r.op)>>}
      /\ UNCHANGED <<vehicle, driver, trip, assigned, requests, ordered, failed, late,
                     departed, finished>>
  BY <1>2 DEF WriteRider, TypeOK
<1>4. StatusOf(r.op) \in {"IN_TRANSIT", "DELIVERED"}
  BY DEF StatusOf
<1>5. shipment' \in [Shipment -> ShipmentRecord]
  BY <1>3, <1>4, RecordTypes DEF ShipmentStatus
<1> DEFINE rec == [r EXCEPT !.rest = r.rest \ {s}]
<1>6. /\ rec \in Work /\ rec.op = r.op /\ rec.trip = r.trip /\ rec.copy = r.copy
      /\ rec.rest = r.rest \ {s} /\ r.trip \in Trip
  BY WorkFields DEF Work
<1> HIDE DEF rec
<1>7. job' = [job EXCEPT ![j] = rec]
  BY <1>3 DEF rec
<1>8. TypeOK'
  <2>1. job' \in [Job -> Work \cup {Idle}]
    BY <1>6, <1>7 DEF TypeOK
  <2>2. handled' \subseteq Trip \X Shipment \X {"IN_TRANSIT", "DELIVERED"}
    BY <1>3, <1>4, <1>6 DEF TypeOK
  <2> QED BY <1>3, <1>5, <2>1, <2>2 DEF TypeOK
<1>9. ~Creating(rec) /\ ~Creating(r) /\ r.op # "create"
  BY <1>1, <1>2, <1>6 DEF Creating
<1>10. \A u : (Stored(u))' = Stored(u) /\ (Riders(u))' = Riders(u)
  BY <1>3 DEF Stored, Riders
<1>11. (WorkSound(rec))'
  BY <1>2, <1>3, <1>6, <1>9, <1>10 DEF WorkSound
<1> QED BY <1>3, <1>6, <1>7, <1>8, <1>9, <1>10, <1>11, GoesOn

LEMMA PublishSound ==
  ASSUME IInv, NEW j \in Job, Publish(j)
  PROVE  IInv'
<1> TypeOK /\ JobsSound
  BY DEF IInv
<1>1. job[j].op \in {"depart", "complete"}
  BY DEF Publish
<1>2. PICK r \in Work : r = job[j] /\ r # Idle /\ WorkSound(r)
  BY <1>1, AtWork DEF JobsSound
<1>3. /\ job' = [job EXCEPT ![j] = Idle] /\ trip' = [trip EXCEPT ![r.trip] = r.copy]
      /\ departed' \in {departed, departed \cup {r.trip}}
      /\ finished' \in {finished, finished \cup {r.trip}}
      /\ UNCHANGED <<shipment, vehicle, driver, assigned, requests, ordered, failed, handled, late>>
  BY <1>2 DEF Publish
<1>4. r.trip \in Trip /\ r.copy \in TripRecord /\ ~Creating(r)
  BY <1>1, <1>2, WorkFields DEF Creating
<1>5. TypeOK'
  BY <1>3, <1>4 DEF TypeOK
<1>6. Stored(r.trip) /\ Full(r.copy)
  BY <1>2, <1>4 DEF WorkSound
<1>7. \A t \in Trip : (Stored(t))' = Stored(t) /\ (trip'[t] # trip[t] => (Full(trip[t]))')
  BY <1>3, <1>4, <1>6 DEF Stored, Full, TypeOK
<1> QED BY <1>3, <1>5, <1>7, IdleQuiet, GoesOn

-----------------------------------------------------------------------------
(* Requests that write one record. *)

LEMMA TripEditSound ==
  ASSUME IInv, requests' \in 0..MaxRequests, NEW t \in Trip, EditTrip(t) \/ Resume(t)
  PROVE  IInv'
<1> TypeOK /\ JobsSound /\ OneBuilder /\ TripsSound
  BY DEF IInv
<1>1. /\ UNCHANGED <<shipment, vehicle, driver, assigned, job, ordered, failed, handled, late,
                     departed, finished>>
      /\ Stored(t) /\ Full(trip[t])
  BY DEF EditTrip, Resume, history, TripsSound
<1>2. PICK rec \in TripRecord : trip' = [trip EXCEPT ![t] = rec] /\ Full(rec)
  <2>1. CASE Resume(t)
    <3>1. trip' = [trip EXCEPT ![t].status = "EN_ROUTE"]
      BY <2>1 DEF Resume
    <3>2. trip[t] \in TripRecord /\ "EN_ROUTE" \in TripStatus
      BY DEF TypeOK, TripStatus
    <3>3. [trip[t] EXCEPT !.status = "EN_ROUTE"] \in TripRecord
      BY <3>2, TripTypes
    <3>4. Full([trip[t] EXCEPT !.status = "EN_ROUTE"])
      BY <1>1, <3>2 DEF Full, TripRecord
    <3> QED BY <3>1, <3>3, <3>4
  <2>2. CASE EditTrip(t)
    <3>1. PICK v \in Vehicle, d \in Driver, b \in BOOLEAN, st \in {trip[t].status, "SCHEDULED", "OTHER"} :
            trip' = [trip EXCEPT ![t] = [Patched(t, v, d) EXCEPT !.status = st, !.started = b]]
      BY <2>2 DEF EditTrip
    <3>2. trip[t].status \in TripStatus /\ trip[t].status # "NONE"
      BY <1>1 DEF TypeOK, TripRecord, Full
    <3>3. st \in TripStatus /\ st # "NONE"
      BY <3>2 DEF TripStatus
    <3> DEFINE rec == [Patched(t, v, d) EXCEPT !.status = st, !.started = b]
    <3>4. rec \in TripRecord /\ Full(rec)
      BY <3>3, PatchTyped
    <3> HIDE DEF rec
    <3> QED BY <3>1, <3>4 DEF rec
  <2> QED BY <2>1, <2>2
<1>3. TypeOK'
  BY <1>1, <1>2 DEF TypeOK
<1>4. \A u \in Trip : (Stored(u))' = Stored(u) /\ (Riders(u))' = Riders(u)
  BY <1>1, <1>2 DEF Stored, Riders, Full, TypeOK
<1>5. \A w \in Work : WorkSound(w) => (WorkSound(w))'
  BY <1>1, <1>4, OthersSound, WorkFields
<1>6. JobsSound'
  <2> SUFFICES ASSUME NEW i \in Job, job'[i] # Idle PROVE (WorkSound(job[i]))'
    BY DEF JobsSound
  <2>1. PICK w \in Work : w = job[i] /\ w = job'[i] /\ WorkSound(w)
    BY <1>1 DEF JobsSound, TypeOK
  <2> QED BY <1>5, <2>1
<1>7. OneBuilder'
  BY <1>1 DEF OneBuilder, Creating
<1>8. TripsSound'
  BY <1>1, <1>2, <1>4 DEF TripsSound, Full, TypeOK
<1> QED BY <1>3, <1>6, <1>7, <1>8 DEF IInv

LEMMA AssignSound ==
  ASSUME IInv, requests' \in 0..MaxRequests, NEW t \in Trip, NEW s \in Shipment, Assign(t, s)
  PROVE  IInv'
<1> TypeOK /\ JobsSound /\ OneBuilder /\ TripsSound
  BY DEF IInv
<1>1. /\ Stored(t) /\ assigned' = assigned \cup {<<t, s>>}
      /\ late' = IF Moving(t) THEN late \cup {<<t, s>>} ELSE late
      /\ UNCHANGED <<vehicle, driver, trip, job, ordered, failed, handled, departed, finished>>
  BY DEF Assign
<1>2. shipment' \in [Shipment -> ShipmentRecord]
  <2>1. PICK st \in ShipmentStatus : shipment' = [shipment EXCEPT ![s] = [status |-> st, trip |-> t]]
    BY DEF Assign, ShipmentStatus
  <2> QED BY <2>1, RecordTypes
<1>3. TypeOK'
  BY <1>1, <1>2 DEF TypeOK
<1>4. /\ \A u : (Stored(u))' = Stored(u) /\ (u # t => (Riders(u))' = Riders(u))
      /\ (Riders(t))' = Riders(t) \cup {s}
  BY <1>1 DEF Stored, Riders
<1>5. ASSUME NEW i \in Job, NEW w \in Work, w = job[i], WorkSound(w)
      PROVE  (WorkSound(w))'
  <2>1. CASE w.trip # t
    <3>1. late \subseteq late' /\ handled \subseteq handled' /\ ordered' = ordered
      BY <1>1
    <3>2. (Stored(w.trip))' = Stored(w.trip) /\ (Riders(w.trip))' = Riders(w.trip)
      BY <1>4, <2>1
    <3> QED BY <1>5, <3>1, <3>2, OthersSound
  <2>2. CASE w.trip = t
    <3>1. ~Creating(w)
      BY <1>1, <1>5, <2>2 DEF WorkSound
    <3>2. w.op # "create" => <<t, s>> \in late'
      BY <1>1, <1>5, <2>2, WorkFields DEF Moving
    <3> QED BY <1>1, <1>4, <1>5, <2>2, <3>1, <3>2 DEF WorkSound
  <2> QED BY <2>1, <2>2
<1>6. JobsSound'
  <2> SUFFICES ASSUME NEW i \in Job, job'[i] # Idle PROVE (WorkSound(job[i]))'
    BY DEF JobsSound
  <2>1. PICK w \in Work : w = job[i] /\ w = job'[i] /\ WorkSound(w)
    BY <1>1 DEF JobsSound, TypeOK
  <2> QED BY <1>5, <2>1
<1>7. OneBuilder'
  BY <1>1 DEF OneBuilder, Creating
<1>8. TripsSound'
  BY <1>1, <1>4 DEF TripsSound, Full
<1> QED BY <1>3, <1>6, <1>7, <1>8 DEF IInv

(* The other requests do not touch what requests under way rely on.        *)
LEMMA QuietSound ==
  ASSUME IInv, requests' \in 0..MaxRequests,
         \/ \E t \in Trip, s \in Shipment : IngestPosition(t, s)
         \/ \E s \in Shipment : CancelShipment(s) \/ EditShipment(s) \/ CreateShipment(s)
         \/ \E v \in Vehicle : EditVehicle(v)
         \/ \E d \in Driver : EditDriver(d)
  PROVE  IInv'
<1> TypeOK
  BY DEF IInv
<1>1. UNCHANGED <<trip, assigned, job, ordered, failed, handled, late, departed, finished>>
  BY DEF IngestPosition, CancelShipment, EditShipment, CreateShipment, EditVehicle, EditDriver, history
<1>2. shipment' \in [Shipment -> ShipmentRecord]
  <2>1. shipment' = shipment => shipment' \in [Shipment -> ShipmentRecord]
    BY DEF TypeOK
  <2>2. \A s \in Shipment, st \in ShipmentStatus :
          [shipment EXCEPT ![s].status = st] \in [Shipment -> ShipmentRecord]
    BY RecordTypes
  <2>3. {"IN_TRANSIT", "CANCELLED", "PLANNED"} \subseteq ShipmentStatus
    BY DEF ShipmentStatus
  <2>4. ASSUME NEW s \in Shipment, NEW t \in Trip, IngestPosition(t, s)
        PROVE  shipment' \in [Shipment -> ShipmentRecord]
    BY <2>2, <2>3, <2>4 DEF IngestPosition
  <2>5. ASSUME NEW s \in Shipment, CancelShipment(s) \/ EditShipment(s) \/ CreateShipment(s)
        PROVE  shipment' \in [Shipment -> ShipmentRecord]
    <3>1. CASE CancelShipment(s)
      BY <2>2, <2>3, <3>1 DEF CancelShipment
    <3>2. CASE EditShipment(s)
      BY <2>2, <3>2 DEF EditShipment
    <3>3. CASE CreateShipment(s)
      BY <2>2, <2>3, <3>3 DEF CreateShipment
    <3> QED BY <2>5, <3>1, <3>2, <3>3
  <2> QED BY <2>1, <2>4, <2>5 DEF EditVehicle, EditDriver
<1>3. vehicle' \in [Vehicle -> VehicleRecord]
  <2>1. ASSUME NEW v \in Vehicle, EditVehicle(v) PROVE vehicle' \in [Vehicle -> VehicleRecord]
    <3> DEFINE gone == [status |-> "OFFLINE", driver |-> None, archived |-> TRUE]
    <3>1. gone \in VehicleRecord
      BY DEF VehicleRecord, VehicleStatus
    <3>2. \A st \in VehicleStatus : [vehicle[v] EXCEPT !.status = st] \in VehicleRecord
      BY VehicleTyped DEF TypeOK
    <3>3. \/ \E st \in VehicleStatus : vehicle' = [vehicle EXCEPT ![v].status = st]
          \/ vehicle' = [vehicle EXCEPT ![v] = gone]
      BY <2>1 DEF EditVehicle
    <3> HIDE DEF gone
    <3> QED BY <3>1, <3>2, <3>3 DEF TypeOK
  <2>2. vehicle' = vehicle => vehicle' \in [Vehicle -> VehicleRecord]
    BY DEF TypeOK
  <2> QED BY <2>1, <2>2 DEF IngestPosition, CancelShipment, EditShipment, CreateShipment, EditDriver
<1>4. driver' \in [Driver -> DriverRecord]
  <2>1. ASSUME NEW d \in Driver, EditDriver(d) PROVE driver' \in [Driver -> DriverRecord]
    <3> DEFINE gone == [duty |-> "OFF_DUTY", vehicle |-> None, archived |-> TRUE]
    <3>1. gone \in DriverRecord
      BY DEF DriverRecord, Duty
    <3>2. \A r \in DriverRecord, du \in Duty : [r EXCEPT !.duty = du] \in DriverRecord
      BY DEF DriverRecord
    <3>3. \/ \E du \in Duty : driver' = [driver EXCEPT ![d].duty = du]
          \/ driver' = [driver EXCEPT ![d] = gone]
      BY <2>1 DEF EditDriver
    <3> HIDE DEF gone
    <3> QED BY <3>1, <3>2, <3>3 DEF TypeOK
  <2>2. driver' = driver => driver' \in [Driver -> DriverRecord]
    BY DEF TypeOK
  <2> QED BY <2>1, <2>2 DEF IngestPosition, CancelShipment, EditShipment, CreateShipment, EditVehicle
<1>5. TypeOK'
  BY <1>1, <1>2, <1>3, <1>4 DEF TypeOK
<1> QED BY <1>1, <1>5, Undisturbed

-----------------------------------------------------------------------------

LEMMA StepSound == IInv /\ [TripNext]_tripVars => IInv'
<1> SUFFICES ASSUME IInv, [TripNext]_tripVars PROVE IInv'
  OBVIOUS
<1> TypeOK
  BY DEF IInv
<1>1. CASE Create \/ Continue
  BY <1>1, CreateSound, TakeDriverSound, WriteDriverSound, WriteRiderSound, PublishSound DEF Continue
<1>2. CASE (Move \/ Edit) /\ requests < MaxRequests /\ requests' = requests + 1
  <2>1. requests' \in 0..MaxRequests
    BY <1>2 DEF TypeOK
  <2>2. CASE Move
    BY <2>1, <2>2, MoveSound
  <2>3. CASE Edit
    BY <2>1, <2>3, TripEditSound, AssignSound, QuietSound DEF Edit
  <2> QED BY <1>2, <2>2, <2>3
<1>3. CASE \E s \in Shipment : CreateShipment(s) /\ UNCHANGED requests
  <2>1. requests' \in 0..MaxRequests
    BY <1>3 DEF TypeOK
  <2> QED BY <1>3, <2>1, QuietSound
<1>4. CASE UNCHANGED tripVars
  <2>1. TypeOK' /\ UNCHANGED <<trip, assigned, job, ordered, handled, late>>
    BY <1>4 DEF tripVars, records, history, TypeOK
  <2> QED BY <2>1, Undisturbed
<1> QED BY <1>1, <1>2, <1>3, <1>4 DEF TripNext

LEMMA InitSound == TripInit => IInv
<1> SUFFICES ASSUME TripInit PROVE IInv
  OBVIOUS
<1>1. /\ [status |-> "NONE", trip |-> None] \in ShipmentRecord
      /\ [status |-> "AVAILABLE", driver |-> None, archived |-> FALSE] \in VehicleRecord
      /\ [duty |-> "AVAILABLE", vehicle |-> None, archived |-> FALSE] \in DriverRecord
      /\ NoTrip \in TripRecord /\ NoTrip.status = "NONE"
  BY DEF ShipmentRecord, ShipmentStatus, VehicleRecord, VehicleStatus, DriverRecord, Duty,
         NoTrip, TripRecord, TripStatus
<1>2. TypeOK
  BY <1>1 DEF TripInit, TypeOK
<1>3. JobsSound /\ OneBuilder
  BY IdleQuiet DEF TripInit, JobsSound, OneBuilder
<1>4. TripsSound
  BY <1>1 DEF TripInit, TripsSound, Stored, Riders
<1> QED BY <1>2, <1>3, <1>4 DEF IInv

LEMMA Sound == TripSpec => []IInv
BY InitSound, StepSound, PTL DEF TripSpec

(* Records, lists and requests keep their types: a request that comes to   *)
(* write a record always has one to write (createTripRecord,               *)
(* updateTripRecord).                                                      *)
THEOREM TripsTyped == TripSpec => []TypeOK
<1>1. IInv => TypeOK
  BY DEF IInv
<1> QED BY Sound, <1>1, PTL

-----------------------------------------------------------------------------
(* What readers of the trips see of a step: only a creation and an         *)
(* assignment change a list or make a trip appear.                         *)

CreationStep ==
  \E j \in Job, r \in Work :
    /\ Creating(r) /\ CreateStep(j, r) /\ Full(r.copy) /\ ~Stored(r.trip)
    /\ \/ job[j] = Idle /\ ordered[r.trip] = None /\ Riders(r.trip) = {}
          /\ ordered' = [ordered EXCEPT ![r.trip] = r.rest]
       \/ job[j] = r /\ ordered' = ordered /\ ordered[r.trip] # None
          /\ r.rest \subseteq ordered[r.trip] /\ Riders(r.trip) = ordered[r.trip] \ r.rest

LEMMA CreationShape ==
  ASSUME IInv, Create \/ \E j \in Job : ContinueCreation(j)
  PROVE  CreationStep
<1> TypeOK /\ JobsSound /\ TripsSound
  BY DEF IInv
<1>1. ASSUME NEW j \in Job, NEW t \in Trip, NEW v \in Vehicle, NEW d \in Driver,
             NEW riders \in SUBSET Shipment, CreateTrip(j, t, v, d, riders)
      PROVE  CreationStep
  <2> DEFINE r == [op |-> "create", at |-> "riders", trip |-> t, driver |-> d, rest |-> riders,
                   copy |-> [status |-> "SCHEDULED", started |-> FALSE,
                             vehicle |-> v, driver |-> d]]
  <2>1. r \in Work /\ Creating(r) /\ Full(r.copy) /\ r.trip = t /\ r.rest = riders
    BY DEF Work, TripRecord, TripStatus, Creating, Full
  <2>2. /\ CreateStep(j, r) /\ ordered[t] = None /\ ordered' = [ordered EXCEPT ![t] = riders]
        /\ job[j] = Idle
    BY <1>1 DEF CreateTrip, Free
  <2> HIDE DEF r
  <2>3. ~Stored(t) /\ Riders(t) = {}
    BY <2>2 DEF TripsSound
  <2> QED BY <2>1, <2>2, <2>3 DEF CreationStep
<1>2. ASSUME NEW j \in Job, ContinueCreation(j)
      PROVE  CreationStep
  <2>1. Creating(job[j]) /\ CreateStep(j, job[j]) /\ ordered' = ordered
    BY <1>2 DEF ContinueCreation, Creating
  <2>2. PICK r \in Work : r = job[j] /\ WorkSound(r)
    BY <2>1, AtWork DEF Creating, JobsSound
  <2>3. Creating(r) /\ CreateStep(j, r)
    BY <2>1, <2>2
  <2> QED BY <2>1, <2>2, <2>3 DEF CreationStep, WorkSound
<1> QED BY <1>1, <1>2 DEF Create

Hidden == UNCHANGED <<ordered, assigned>> /\ \A t \in Trip : (Stored(t))' = Stored(t)

LEMMA EditShape ==
  ASSUME IInv, NEW t \in Trip, EditTrip(t) \/ Resume(t)
  PROVE  Hidden
<1> TypeOK /\ TripsSound
  BY DEF IInv
<1>1. UNCHANGED <<ordered, assigned>> /\ Stored(t)
  BY DEF EditTrip, Resume, history
<1>2. (Stored(t))'
  <2>1. trip[t] \in TripRecord /\ trip[t].status # "NONE"
    BY <1>1 DEF TypeOK, Stored
  <2>2. CASE Resume(t)
    BY <2>1, <2>2 DEF Resume, TypeOK, TripRecord, Stored
  <2>3. CASE EditTrip(t)
    <3>1. PICK v \in Vehicle, d \in Driver, b \in BOOLEAN, st \in {trip[t].status, "SCHEDULED", "OTHER"} :
            trip' = [trip EXCEPT ![t] = [Patched(t, v, d) EXCEPT !.status = st, !.started = b]]
      BY <2>3 DEF EditTrip
    <3>2. st \in TripStatus /\ st # "NONE"
      BY <2>1 DEF TripRecord, TripStatus
    <3>3. Full([Patched(t, v, d) EXCEPT !.status = st, !.started = b])
      BY <3>2, PatchTyped
    <3> QED BY <3>1, <3>3 DEF TypeOK, Stored, Full
  <2> QED BY <2>2, <2>3
<1>3. \A u \in Trip : u # t => trip'[u] = trip[u]
  BY DEF EditTrip, Resume, TypeOK
<1> QED BY <1>1, <1>2, <1>3 DEF Hidden, Stored

LEMMA PublishShape ==
  ASSUME IInv, NEW j \in Job, Publish(j)
  PROVE  Hidden
<1> TypeOK /\ JobsSound
  BY DEF IInv
<1>1. PICK r \in Work : r = job[j] /\ WorkSound(r) /\ ~Creating(r)
  BY AtWork DEF Publish, JobsSound, Creating
<1>2. trip' = [trip EXCEPT ![r.trip] = r.copy] /\ UNCHANGED <<assigned, ordered>>
  BY <1>1 DEF Publish
<1>3. r.trip \in Trip /\ Stored(r.trip) /\ r.copy.status # "NONE"
  BY <1>1, WorkFields DEF WorkSound, Full
<1> QED BY <1>2, <1>3 DEF Hidden, Stored, TypeOK

LEMMA Shape ==
  ASSUME IInv, [TripNext]_tripVars
  PROVE  \/ CreationStep
         \/ \E t \in Trip, s \in Shipment : Assign(t, s)
         \/ Hidden
<1>1. CASE UNCHANGED <<trip, assigned, ordered>>
  BY <1>1 DEF Hidden, Stored
<1>2. CASE Create \/ Continue
  <2>1. ASSUME NEW j \in Job, TakeDriver(j) \/ WriteDriver(j) \/ \E s \in Shipment : WriteRider(j, s)
        PROVE  UNCHANGED <<trip, assigned, ordered>>
    BY <2>1 DEF TakeDriver, WriteDriver, WriteRider, history
  <2> QED BY <1>1, <1>2, <2>1, CreationShape, PublishShape DEF Continue
<1>3. CASE Move
  BY <1>1, <1>3 DEF Move, Depart, Complete, StartJob, history
<1>4. CASE Edit
  <2>1. ASSUME \/ \E t \in Trip, s \in Shipment : IngestPosition(t, s)
               \/ \E s \in Shipment : CancelShipment(s) \/ EditShipment(s)
               \/ \E v \in Vehicle : EditVehicle(v)
               \/ \E d \in Driver : EditDriver(d)
        PROVE  UNCHANGED <<trip, assigned, ordered>>
    BY <2>1 DEF IngestPosition, CancelShipment, EditShipment, EditVehicle, EditDriver, history
  <2> QED BY <1>1, <1>4, <2>1, EditShape DEF Edit
<1>5. CASE \E s \in Shipment : CreateShipment(s)
  BY <1>1, <1>5 DEF CreateShipment, history
<1>6. CASE UNCHANGED tripVars
  BY <1>1, <1>6 DEF tripVars, records, history
<1> QED BY <1>2, <1>3, <1>4, <1>5, <1>6 DEF TripNext

-----------------------------------------------------------------------------
(* Refinement. *)

Seen == [t \in Trip |-> IF Stored(t) THEN Riders(t) ELSE None]

LEMMA HiddenStutters == IInv /\ Hidden => UNCHANGED <<ordered, Seen>>
BY DEF Hidden, Seen, Riders

LEMMA CreationImplements ==
  ASSUME IInv, CreationStep
  PROVE  [Manifest!Next]_(Manifest!vars)
<1> TypeOK
  BY DEF IInv
<1>1. PICK j \in Job, r \in Work :
        /\ Creating(r) /\ CreateStep(j, r) /\ Full(r.copy) /\ ~Stored(r.trip)
        /\ \/ ordered[r.trip] = None /\ Riders(r.trip) = {}
              /\ ordered' = [ordered EXCEPT ![r.trip] = r.rest]
           \/ ordered' = ordered /\ ordered[r.trip] # None
              /\ r.rest \subseteq ordered[r.trip] /\ Riders(r.trip) = ordered[r.trip] \ r.rest
  BY DEF CreationStep
<1> DEFINE t0 == r.trip
<1>2. t0 \in Trip /\ r.rest \in SUBSET Shipment /\ Seen[t0] = None
  BY <1>1, WorkFields DEF Seen
<1>3. /\ \A t \in Trip : t # t0 => Seen'[t] = Seen[t]
      /\ \/ trip' = trip /\ Seen' = Seen
         \/ r.rest = {} /\ assigned' = assigned /\ Seen'[t0] = Riders(t0)
  <2>1. \A t \in Trip : t # t0 => (Stored(t))' = Stored(t) /\ (Riders(t))' = Riders(t)
    BY <1>1, CreateStepWrites DEF Stored, Riders, TypeOK
  <2>2. CASE trip' = trip
    <3>1. ~(Stored(t0))'
      BY <1>1, <2>2 DEF Stored
    <3> QED BY <1>1, <2>1, <2>2, <3>1 DEF Seen
  <2>3. CASE r.rest = {} /\ assigned' = assigned /\ trip' = [trip EXCEPT ![t0] = r.copy]
    <3>1. (Stored(t0))' /\ (Riders(t0))' = Riders(t0)
      BY <1>1, <1>2, <2>3 DEF Stored, Full, TypeOK, Riders
    <3> QED BY <1>2, <2>1, <2>3, <3>1 DEF Seen
  <2> QED BY <1>1, <2>2, <2>3, CreateStepWrites
<1>4. Seen = [t \in Trip |-> Seen[t]] /\ Seen' = [t \in Trip |-> Seen'[t]]
  BY DEF Seen
<1>5. CASE trip' = trip /\ Seen' = Seen
  <2>1. \/ Manifest!Order(t0, r.rest)
        \/ UNCHANGED <<ordered, Seen>>
    BY <1>1, <1>5 DEF Manifest!Order, Seen
  <2> QED BY <1>2, <2>1 DEF Manifest!Next, Manifest!vars, Seen
<1>6. CASE r.rest = {} /\ Seen'[t0] = Riders(t0)
  <2>1. Seen' = [Seen EXCEPT ![t0] = Riders(t0)]
    BY <1>2, <1>3, <1>4, <1>6
  <2>2. Manifest!OrderEmpty(t0) \/ Manifest!Appear(t0)
    BY <1>1, <1>2, <1>6, <2>1 DEF Manifest!OrderEmpty, Manifest!Appear, Seen
  <2> QED BY <1>2, <2>2 DEF Manifest!Next
<1> QED BY <1>3, <1>5, <1>6

LEMMA AssignImplements ==
  ASSUME IInv, NEW t \in Trip, NEW s \in Shipment, Assign(t, s)
  PROVE  Manifest!Add(t, s)
<1> TypeOK
  BY DEF IInv
<1>1. /\ Stored(t) /\ trip' = trip /\ ordered' = ordered
      /\ assigned' = assigned \cup {<<t, s>>}
  BY DEF Assign
<1>2. \A u \in Trip : /\ (Stored(u))' = Stored(u)
                      /\ u # t => (Riders(u))' = Riders(u)
  BY <1>1 DEF Stored, Riders
<1>3. (Riders(t))' = Riders(t) \cup {s} /\ Riders(t) \in SUBSET Shipment
  BY <1>1 DEF Riders
<1>4. Seen[t] = Riders(t) /\ Seen[t] # None
  BY <1>1, <1>3 DEF Seen
<1>5. Seen' = [Seen EXCEPT ![t] = Seen[t] \cup {s}]
  BY <1>1, <1>2, <1>3, <1>4 DEF Seen
<1> QED BY <1>1, <1>4, <1>5 DEF Manifest!Add, Seen

(* The several records of a creation, written one after the other between  *)
(* the steps of other requests, look to a reader of the trips like a trip  *)
(* that appears complete (createTripRecord, assignShipmentToTrip).         *)
THEOREM TripsImplementManifest == TripSpec => ImplementsManifest
<1>1. TripInit => Manifest!Init
  BY DEF TripInit, Manifest!Init, Stored, NoTrip
<1>2. IInv /\ [TripNext]_tripVars => [Manifest!Next]_(Manifest!vars)
  <2> SUFFICES ASSUME IInv, [TripNext]_tripVars PROVE [Manifest!Next]_(Manifest!vars)
    OBVIOUS
  <2>1. CASE Hidden
    BY <2>1, HiddenStutters DEF Manifest!vars, Seen
  <2>2. CASE \E t \in Trip, s \in Shipment : Assign(t, s)
    BY <2>2, AssignImplements DEF Manifest!Next
  <2> QED BY <2>1, <2>2, Shape, CreationImplements
<1> QED BY <1>1, <1>2, Sound, PTL DEF TripSpec, ImplementsManifest, Manifest!Spec

-----------------------------------------------------------------------------
(* Phantoms. *)

PhantomInv == IInv /\ PhantomsExplained

(* Bindings that stay are explained as before, new ones by the list that   *)
(* was extended in the same step.                                          *)
BindingsKept ==
  /\ assigned \subseteq assigned' /\ failed \subseteq failed'
  /\ \A t \in Trip :
       /\ Stored(t) => (Stored(t))'
       /\ Stored(t) \/ Building(t) => (Stored(t) \/ Building(t) \/ t \in failed)'
  /\ \A s \in Shipment :
       \/ shipment'[s].trip = shipment[s].trip
       \/ \E t \in Trip : /\ shipment'[s].trip = t /\ <<t, s>> \in assigned'
                          /\ (Stored(t) \/ Building(t))'

LEMMA PhantomKept ==
  ASSUME PhantomInv, BindingsKept
  PROVE  PhantomsExplained'
<1> SUFFICES ASSUME NEW s \in Shipment, NEW u, u = shipment'[s].trip, u # None
             PROVE  <<u, s>> \in assigned' /\ (Stored(u) \/ Building(u) \/ u \in failed)'
  BY DEF PhantomsExplained, Stored, Building
<1>1. CASE shipment'[s].trip = shipment[s].trip
  <2>1. shipment[s] \in ShipmentRecord
    BY DEF PhantomInv, IInv, TypeOK
  <2>2. u \in Trip /\ u = shipment[s].trip
    BY <1>1, <2>1 DEF ShipmentRecord
  <2>3. <<u, s>> \in assigned /\ (Stored(u) \/ Building(u) \/ u \in failed)
    BY <2>2 DEF PhantomInv, PhantomsExplained
  <2> QED BY <2>2, <2>3 DEF BindingsKept
<1>2. CASE shipment'[s].trip # shipment[s].trip
  <2>1. PICK t \in Trip : /\ shipment'[s].trip = t /\ <<t, s>> \in assigned'
                          /\ (Stored(t) \/ Building(t))'
    BY <1>2 DEF BindingsKept
  <2> QED BY <2>1
<1> QED BY <1>1, <1>2

(* A request that is not building anything may change: bindings stay.      *)
LEMMA PhantomQuiet ==
  ASSUME UNCHANGED <<assigned, failed>>,
         \A t \in Trip : (Stored(t))' = Stored(t),
         \A j \in Job : job[j] # Idle /\ job[j].op = "create" =>
           job'[j] = job[j] \/ Stored(job[j].trip),
         \A s \in Shipment : shipment'[s].trip = shipment[s].trip
  PROVE  BindingsKept
<1>1. \A t \in Trip : Building(t) => (Building(t))' \/ Stored(t)
  BY DEF Building
<1> QED BY <1>1 DEF BindingsKept

LEMMA PhantomCreation ==
  ASSUME IInv, CreationStep
  PROVE  BindingsKept
<1> TypeOK
  BY DEF IInv
<1>1. PICK j \in Job, r \in Work :
        /\ Creating(r) /\ CreateStep(j, r) /\ Full(r.copy) /\ ~Stored(r.trip)
        /\ job[j] \in {Idle, r}
  BY DEF CreationStep
<1>2. r.trip \in Trip /\ r # Idle /\ r.op = "create" /\ r.rest \in SUBSET Shipment
  BY <1>1, WorkFields DEF Creating
<1>3. PICK rec : job' = [job EXCEPT ![j] = rec]
  BY CreateStepWrites, <1>1
<1>4. job'[j] = rec /\ \A i \in Job : i # j => job'[i] = job[i]
  BY <1>3 DEF TypeOK
<1>5. \A t \in Trip : t # r.trip /\ Building(t) => (Building(t))'
  BY <1>1, <1>4 DEF Building
<1>6. \A t \in Trip : t # r.trip /\ Stored(t) => (Stored(t))'
  BY <1>1, CreateStepWrites DEF Stored, TypeOK
<1>7. CASE \E s \in r.rest :
             /\ assigned' = assigned \cup {<<r.trip, s>>} /\ failed' = failed
             /\ shipment' = [shipment EXCEPT ![s] = [status |-> "ASSIGNED", trip |-> r.trip]]
             /\ job' = [job EXCEPT ![j] = [r EXCEPT !.rest = r.rest \ {s}]]
  <2> PICK s \in r.rest :
             /\ assigned' = assigned \cup {<<r.trip, s>>} /\ failed' = failed
             /\ shipment' = [shipment EXCEPT ![s] = [status |-> "ASSIGNED", trip |-> r.trip]]
             /\ job' = [job EXCEPT ![j] = [r EXCEPT !.rest = r.rest \ {s}]]
    BY <1>7
  <2>1. job'[j] = [r EXCEPT !.rest = r.rest \ {s}]
    BY DEF TypeOK
  <2>2. [r EXCEPT !.rest = r.rest \ {s}] \in Work
    BY <1>2, WorkFields
  <2>3. job'[j].op = "create" /\ job'[j].trip = r.trip /\ job'[j] # Idle
    <3>1. /\ [r EXCEPT !.rest = r.rest \ {s}].op = r.op
          /\ [r EXCEPT !.rest = r.rest \ {s}].trip = r.trip
      BY DEF Work
    <3>2. job'[j] # Idle
      BY <2>1, <2>2, IdleQuiet
    <3> QED BY <1>2, <2>1, <3>1, <3>2
  <2>4. (Building(r.trip))'
    BY <2>3 DEF Building
  <2>5. \A q \in Shipment : \/ shipment'[q].trip = shipment[q].trip
                            \/ q = s /\ shipment'[q].trip = r.trip
    BY DEF TypeOK
  <2>6. \A t \in Trip : Stored(t) => (Stored(t))'
    BY <1>1, <1>6
  <2>7. \A t \in Trip : Stored(t) \/ Building(t) => (Stored(t) \/ Building(t) \/ t \in failed)'
    BY <1>5, <2>4, <2>6
  <2>8. <<r.trip, s>> \in assigned' /\ assigned \subseteq assigned' /\ failed \subseteq failed'
    OBVIOUS
  <2> QED BY <1>2, <2>4, <2>5, <2>6, <2>7, <2>8 DEF BindingsKept
<1>8. CASE failed' = failed \cup {r.trip} /\ UNCHANGED <<assigned, shipment>>
  <2>1. \A t \in Trip : Stored(t) => (Stored(t))'
    BY <1>1, <1>6
  <2>2. \A t \in Trip : Stored(t) \/ Building(t) => (Stored(t) \/ Building(t) \/ t \in failed)'
    BY <1>5, <1>8, <2>1
  <2> QED BY <1>8, <2>1, <2>2 DEF BindingsKept
<1>9. CASE /\ UNCHANGED <<assigned, failed, shipment>>
           /\ trip' = [trip EXCEPT ![r.trip] = r.copy]
  <2>1. (Stored(r.trip))'
    BY <1>1, <1>2, <1>9 DEF Stored, Full, TypeOK
  <2> QED BY <1>5, <1>6, <1>9, <2>1 DEF BindingsKept
<1> QED BY <1>1, <1>7, <1>8, <1>9, CreateStepWrites

LEMMA PhantomAssign ==
  ASSUME IInv, NEW t \in Trip, NEW s \in Shipment, Assign(t, s)
  PROVE  BindingsKept
<1> TypeOK
  BY DEF IInv
<1>1. /\ Stored(t) /\ UNCHANGED <<trip, job, failed>> /\ assigned' = assigned \cup {<<t, s>>}
      /\ \E st : shipment' = [shipment EXCEPT ![s] = [status |-> st, trip |-> t]]
  BY DEF Assign
<1>2. \A q \in Shipment : shipment'[q].trip = shipment[q].trip \/ (q = s /\ shipment'[q].trip = t)
  BY <1>1 DEF TypeOK
<1>3. \A u : (Stored(u))' = Stored(u) /\ (Building(u))' = Building(u)
  BY <1>1 DEF Stored, Building
<1> QED BY <1>1, <1>2, <1>3 DEF BindingsKept

(* Every other step leaves the bindings alone, and ends a creation only    *)
(* with its trip stored.                                                   *)
LEMMA OtherStep ==
  ASSUME IInv, [TripNext]_tripVars, ~CreationStep, ~\E t \in Trip, s \in Shipment : Assign(t, s)
  PROVE  /\ UNCHANGED <<assigned, failed>>
         /\ \A j \in Job : job[j] # Idle /\ job[j].op = "create" =>
              job'[j] = job[j] \/ Stored(job[j].trip)
         /\ \A s \in Shipment : shipment'[s].trip = shipment[s].trip
<1> TypeOK /\ JobsSound
  BY DEF IInv
<1>1. ASSUME NEW j \in Job, TakeDriver(j)
      PROVE  /\ UNCHANGED <<assigned, failed, shipment>> /\ Stored(job[j].trip)
             /\ \A i \in Job : i # j => job'[i] = job[i]
  <2>1. job[j] # Idle /\ ~Creating(job[j])
    BY <1>1, AtWork DEF TakeDriver, Creating
  <2>2. Stored(job[j].trip)
    BY <2>1 DEF JobsSound, WorkSound
  <2> QED BY <1>1, <2>2 DEF TakeDriver, history, TypeOK
<1>2. ASSUME NEW j \in Job, WriteDriver(j) \/ Publish(j)
      PROVE  /\ UNCHANGED <<assigned, failed, shipment>> /\ job[j].op # "create"
             /\ \A i \in Job : i # j => job'[i] = job[i]
  BY <1>2 DEF WriteDriver, Publish, history, TypeOK
<1>3. ASSUME NEW j \in Job, NEW s \in Shipment, WriteRider(j, s)
      PROVE  /\ UNCHANGED <<assigned, failed>> /\ job[j].op # "create"
             /\ \A i \in Job : i # j => job'[i] = job[i]
             /\ \A q \in Shipment : shipment'[q].trip = shipment[q].trip
  BY <1>3 DEF WriteRider, TypeOK, ShipmentRecord
<1>4. ASSUME NEW j \in Job, NEW t \in Trip, Depart(j, t) \/ Complete(j, t)
      PROVE  /\ UNCHANGED <<assigned, failed, shipment>> /\ job[j] = Idle
             /\ \A i \in Job : i # j => job'[i] = job[i]
  BY <1>4 DEF Depart, Complete, StartJob, Free, history, TypeOK
<1>5. ASSUME Edit \/ \E s \in Shipment : CreateShipment(s)
      PROVE  /\ UNCHANGED <<assigned, failed, job>>
             /\ \A q \in Shipment : shipment'[q].trip = shipment[q].trip
  <2>1. ASSUME NEW s \in Shipment, CancelShipment(s) \/ EditShipment(s) \/ CreateShipment(s)
        PROVE  /\ UNCHANGED <<assigned, failed, job>>
               /\ \A q \in Shipment : shipment'[q].trip = shipment[q].trip
    BY <2>1 DEF CancelShipment, EditShipment, CreateShipment, history, TypeOK, ShipmentRecord
  <2>2. ASSUME NEW s \in Shipment, NEW t \in Trip, IngestPosition(t, s)
        PROVE  /\ UNCHANGED <<assigned, failed, job>>
               /\ \A q \in Shipment : shipment'[q].trip = shipment[q].trip
    BY <2>2 DEF IngestPosition, history, TypeOK, ShipmentRecord
  <2>3. ASSUME \/ \E t \in Trip : EditTrip(t) \/ Resume(t)
               \/ \E v \in Vehicle : EditVehicle(v)
               \/ \E d \in Driver : EditDriver(d)
        PROVE  UNCHANGED <<assigned, failed, job, shipment>>
    BY <2>3 DEF EditTrip, Resume, EditVehicle, EditDriver, history
  <2> QED BY <1>5, <2>1, <2>2, <2>3 DEF Edit
<1>6. UNCHANGED tripVars => UNCHANGED <<assigned, failed, job, shipment>>
  BY DEF tripVars, records, history
<1>7. ~Create /\ ~\E j \in Job : ContinueCreation(j)
  BY CreationShape
<1>8. CASE Continue
  BY <1>1, <1>2, <1>3, <1>7, <1>8 DEF Continue
<1>9. CASE Move
  BY <1>4, <1>9 DEF Move
<1> QED BY <1>5, <1>6, <1>7, <1>8, <1>9 DEF TripNext

LEMMA StepKeepsBindings ==
  ASSUME IInv, [TripNext]_tripVars
  PROVE  BindingsKept
<1>1. CASE CreationStep
  BY <1>1, PhantomCreation
<1>2. CASE \E t \in Trip, s \in Shipment : Assign(t, s)
  BY <1>2, PhantomAssign
<1>3. CASE ~CreationStep /\ ~\E t \in Trip, s \in Shipment : Assign(t, s)
  <2>1. Hidden
    BY <1>3, Shape
  <2> QED BY <1>3, <2>1, OtherStep, PhantomQuiet DEF Hidden
<1> QED BY <1>1, <1>2, <1>3

(* A shipment points to a trip that is there, is on its way or was given   *)
(* up half-way, and stands on its list, whatever requests overlap          *)
(* (createTripRecord, assignShipmentToTrip).                               *)
THEOREM PhantomsHaveACause == TripSpec => []PhantomsExplained
<1>1. TripInit => PhantomsExplained
  BY DEF TripInit, PhantomsExplained
<1>2. IInv /\ PhantomsExplained /\ [TripNext]_tripVars => PhantomsExplained'
  <2> SUFFICES ASSUME PhantomInv, [TripNext]_tripVars PROVE PhantomsExplained'
    BY DEF PhantomInv
  <2> IInv
    BY DEF PhantomInv
  <2>1. BindingsKept
    BY StepKeepsBindings
  <2> QED BY <2>1, PhantomKept
<1> QED BY <1>1, <1>2, Sound, PTL DEF TripSpec

-----------------------------------------------------------------------------
(* Departures. *)

LEMMA PublishComplete ==
  ASSUME IInv, NEW j \in Job, Publish(j), NEW t \in Trip, NEW s \in Shipment,
         <<t, s>> \in assigned, <<t, s>> \notin late
  PROVE  /\ t \in departed' \ departed => <<t, s, "IN_TRANSIT">> \in handled
         /\ t \in finished' \ finished => <<t, s, "DELIVERED">> \in handled
<1>1. job[j].op \in {"depart", "complete"} /\ TypeOK /\ JobsSound
  BY DEF Publish, IInv
<1>2. PICK r \in Work : r = job[j] /\ WorkSound(r)
  BY <1>1, AtWork DEF JobsSound
<1>3. /\ r.rest = {} /\ r.op # "create"
      /\ t \in departed' \ departed => r.op = "depart" /\ t = r.trip
      /\ t \in finished' \ finished => r.op = "complete" /\ t = r.trip
  BY <1>1, <1>2 DEF Publish
<1>4. t = r.trip => <<r.trip, s, StatusOf(r.op)>> \in handled
  BY <1>2, <1>3 DEF WorkSound, Riders
<1> QED BY <1>3, <1>4 DEF StatusOf

LEMMA OnlyPublish ==
  ASSUME [TripNext]_tripVars, ~\E j \in Job : Publish(j)
  PROVE  UNCHANGED <<departed, finished>>
<1>1. Create => UNCHANGED <<departed, finished>>
  BY DEF Create, CreateTrip
<1>2. Continue => UNCHANGED <<departed, finished>>
  BY DEF Continue, ContinueCreation, TakeDriver, WriteDriver, WriteRider, history
<1>3. Move => UNCHANGED <<departed, finished>>
  BY DEF Move, Depart, Complete, StartJob, history
<1>4. Edit => UNCHANGED <<departed, finished>>
  BY DEF Edit, EditTrip, Resume, Assign, IngestPosition, CancelShipment, EditShipment,
         EditVehicle, EditDriver, history
<1>5. (\E s \in Shipment : CreateShipment(s)) => UNCHANGED <<departed, finished>>
  BY DEF CreateShipment, history
<1>6. UNCHANGED tripVars => UNCHANGED <<departed, finished>>
  BY DEF tripVars, history
<1> QED BY <1>1, <1>2, <1>3, <1>4, <1>5, <1>6 DEF TripNext

(* A departure or completion is published with everybody handled who was   *)
(* on the list when it was read, and all who came later are known          *)
(* (updateTripRecord, assignShipmentToTrip).                               *)
THEOREM NobodyIsLeft == TripSpec => NobodyLeftBehind
<1> DEFINE AllAboard ==
      \A t \in Trip, s \in Shipment :
        /\ (t \in departed' \ departed /\ <<t, s>> \in assigned /\ <<t, s>> \notin late
              => <<t, s, "IN_TRANSIT">> \in handled)
        /\ (t \in finished' \ finished /\ <<t, s>> \in assigned /\ <<t, s>> \notin late
              => <<t, s, "DELIVERED">> \in handled)
<1>1. IInv /\ [TripNext]_tripVars => AllAboard
  BY PublishComplete, OnlyPublish
<1> QED BY <1>1, Sound, PTL DEF TripSpec, NobodyLeftBehind

-----------------------------------------------------------------------------
(* Applications of a plan, which run beside the requests above.            *)

(* The trip t an application has for route i can take its shipments.       *)
Ready(t, i) ==
  \/ t = None \/ t \in invented
  \/ t \in Trip /\ Stored(t) /\ \A s \in Plan[i].riders : <<t, s>> \in assigned

(* What an application has reached, as a record of its own.                *)
PlaceSound(p) ==
  p # Resting =>
    /\ p.stage # "route" => p.at \in Route
    /\ p.stage = "creating" => p.trip \in Trip /\ ordered[p.trip] = Plan[p.at].riders
    /\ p.stage = "bind" => p.left \subseteq Plan[p.at].riders /\ Ready(p.trip, p.at)

(* A stored trip has everyone on its list it was ordered with.             *)
ListsFull == \A t \in Trip : Stored(t) => ordered[t] \subseteq Riders(t)

PlanInv ==
  /\ IInv /\ PlanTypeOK /\ PlanPhantoms /\ ListsFull
  /\ \A a \in App : PlaceSound(app[a])

LEMMA RouteTypes ==
  ASSUME NEW i \in Route
  PROVE  /\ i \in 1..(Len(Plan) + 1) /\ i + 1 \in 1..(Len(Plan) + 1)
         /\ Plan[i].vehicle \in Vehicle /\ Plan[i].driver \in Driver \cup {None}
         /\ Plan[i].riders \in SUBSET Shipment
<1> DEFINE R == [vehicle : Vehicle, driver : Driver \cup {None}, riders : SUBSET Shipment]
<1>1. Plan \in Seq(R)
  BY PlanAssumption
<1> HIDE DEF R
<1>2. i \in 1..Len(Plan) /\ Len(Plan) \in Nat /\ Plan[i] \in R
  BY <1>1 DEF Route
<1> QED BY <1>2 DEF R

LEMMA PlaceFields ==
  ASSUME NEW p \in AppRecord, p # Resting
  PROVE  /\ p.stage \in {"route", "creating", "bind"} /\ p.at \in 1..(Len(Plan) + 1)
         /\ p.trip \in Trip \cup {None} /\ p.left \in SUBSET Shipment /\ p.options \in Options
BY DEF AppRecord

(* The record of an application that has moved on. *)
Moved(p, st, i, t, L) == [p EXCEPT !.stage = st, !.at = i, !.trip = t, !.left = L]

LEMMA PlaceMoved ==
  ASSUME NEW p \in AppRecord, p # Resting,
         NEW st \in {"route", "creating", "bind"}, NEW i \in 1..(Len(Plan) + 1),
         NEW t \in Trip \cup {None}, NEW L \in SUBSET Shipment,
         NEW q, q = Moved(p, st, i, t, L)
  PROVE  /\ q \in AppRecord /\ q # Resting
         /\ q.stage = st /\ q.at = i /\ q.trip = t /\ q.left = L
<1>1. q.stage = st /\ q.at = i /\ q.trip = t /\ q.left = L
  BY DEF AppRecord, Moved
<1>2. q \in AppRecord
  BY DEF AppRecord, Moved
<1> QED BY <1>1, <1>2 DEF Resting

LEMMA PlaceKept ==
  ASSUME NEW p, PlaceSound(p), assigned \subseteq assigned', invented \subseteq invented',
         \A t \in Trip : /\ Stored(t) => (Stored(t))'
                         /\ ordered[t] # None => ordered'[t] = ordered[t]
  PROVE  (PlaceSound(p))'
<1>1. \A t, i : Ready(t, i) => (Ready(t, i))'
  BY DEF Ready
<1>2. ASSUME NEW t \in Trip, NEW i \in Route, ordered[t] = Plan[i].riders
      PROVE  ordered'[t] = Plan[i].riders
  BY <1>2, RouteTypes
<1> QED BY <1>1, <1>2 DEF PlaceSound

(* What has been written for others stays.                                 *)
Grows ==
  /\ assigned \subseteq assigned' /\ invented \subseteq invented'
  /\ \A t \in Trip : /\ Stored(t) => (Stored(t))'
                     /\ ordered[t] # None => ordered'[t] = ordered[t]

LEMMA PlacesKept ==
  ASSUME PlanInv, Grows, NEW a \in App, NEW q \in AppRecord, (PlaceSound(q))',
         app' = [app EXCEPT ![a] = q]
  PROVE  app' \in [App -> AppRecord] /\ \A b \in App : (PlaceSound(app[b]))'
<1>1. app \in [App -> AppRecord]
  BY DEF PlanInv, PlanTypeOK
<1>2. app' \in [App -> AppRecord] /\ app'[a] = q /\ \A b \in App : b # a => app'[b] = app[b]
  BY <1>1
<1>3. ASSUME NEW b \in App PROVE (PlaceSound(app[b]))'
  <2>1. CASE b = a
    <3>1. app'[b] = q
      BY <1>2, <2>1
    <3> QED BY <3>1 DEF PlaceSound, Ready, Stored
  <2>2. CASE b # a
    <3>1. PICK p : p = app[b] /\ p = app'[b] /\ PlaceSound(p)
      BY <1>2, <2>2 DEF PlanInv
    <3>2. (PlaceSound(p))'
      BY <3>1, PlaceKept DEF Grows
    <3> QED BY <3>1, <3>2 DEF PlaceSound, Ready, Stored
  <2> QED BY <2>1, <2>2
<1> QED BY <1>2, <1>3

LEMMA PlacesStay ==
  ASSUME PlanInv, Grows, app' = app
  PROVE  app' \in [App -> AppRecord] /\ \A b \in App : (PlaceSound(app[b]))'
<1>1. ASSUME NEW b \in App PROVE (PlaceSound(app[b]))'
  <2>1. PICK p : p = app[b] /\ p = app'[b] /\ PlaceSound(p)
    BY DEF PlanInv
  <2>2. (PlaceSound(p))'
    BY <2>1, PlaceKept DEF Grows
  <2> QED BY <2>1, <2>2 DEF PlaceSound, Ready, Stored
<1> QED BY <1>1 DEF PlanInv, PlanTypeOK

(* The stores under a step that is one of TripLifecycle's.                 *)
LEMMA TripsGrow ==
  ASSUME IInv, ListsFull, [TripNext]_tripVars, invented' = invented
  PROVE  Grows /\ ListsFull'
<1> TypeOK /\ JobsSound /\ TripsSound
  BY DEF IInv
<1>1. CASE Hidden
  BY <1>1 DEF Hidden, Grows, ListsFull, Riders
<1>2. CASE \E t \in Trip, s \in Shipment : Assign(t, s)
  <2>1. UNCHANGED <<trip, ordered>> /\ assigned \subseteq assigned'
    BY <1>2 DEF Assign
  <2> QED BY <2>1 DEF Grows, ListsFull, Riders, Stored
<1>3. CASE CreationStep
  <2>1. PICK j \in Job, r \in Work :
          /\ Creating(r) /\ CreateStep(j, r) /\ Full(r.copy) /\ ~Stored(r.trip)
          /\ \/ ordered[r.trip] = None /\ Riders(r.trip) = {}
                /\ ordered' = [ordered EXCEPT ![r.trip] = r.rest]
             \/ ordered' = ordered /\ Riders(r.trip) = ordered[r.trip] \ r.rest
    BY <1>3 DEF CreationStep
  <2>2. r.trip \in Trip
    BY WorkFields
  <2>3. /\ assigned \subseteq assigned'
        /\ \/ trip' = trip
           \/ r.rest = {} /\ trip' = [trip EXCEPT ![r.trip] = r.copy]
    BY <2>1, CreateStepWrites
  <2>4. \A t \in Trip : t # r.trip => /\ (Stored(t))' = Stored(t)
                                      /\ Riders(t) \subseteq (Riders(t))'
                                      /\ ordered'[t] = ordered[t]
    BY <2>1, <2>3 DEF Stored, Riders, TypeOK
  <2>5. Grows
    BY <2>1, <2>3, <2>4 DEF Grows
  <2>6. ordered'[r.trip] \subseteq (Riders(r.trip))' \/ ~(Stored(r.trip))'
    <3>1. CASE trip' = trip
      BY <2>1, <3>1 DEF Stored
    <3>2. CASE r.rest = {}
      <4>1. Riders(r.trip) \subseteq (Riders(r.trip))'
        BY <2>3 DEF Riders
      <4>2. ordered'[r.trip] \subseteq Riders(r.trip)
        BY <2>1, <2>2, <3>2 DEF TypeOK
      <4> QED BY <4>1, <4>2
    <3> QED BY <2>3, <3>1, <3>2
  <2>7. ListsFull'
    <3> SUFFICES ASSUME NEW t \in Trip, (Stored(t))' PROVE ordered'[t] \subseteq (Riders(t))'
      BY DEF ListsFull
    <3>1. CASE t = r.trip
      BY <2>6, <3>1
    <3>2. CASE t # r.trip
      BY <2>4, <3>2 DEF ListsFull
    <3> QED BY <3>1, <3>2
  <2> QED BY <2>5, <2>7
<1> QED BY <1>1, <1>2, <1>3, Shape

LEMMA PlanPhantomKept ==
  ASSUME PlanInv, BindingsKept, invented \subseteq invented'
  PROVE  PlanPhantoms'
<1> SUFFICES ASSUME NEW s \in Shipment, NEW u, u = shipment'[s].trip, u # None
             PROVE  /\ (Stored(u) \/ Building(u) \/ u \in failed \cup invented)'
                    /\ u \in invented' \/ <<u, s>> \in assigned'
  BY DEF PlanPhantoms, Stored, Building
<1>1. CASE shipment'[s].trip = shipment[s].trip
  <2>1. shipment[s] \in ShipmentRecord
    BY DEF PlanInv, IInv, TypeOK
  <2>2. u \in Trip /\ u = shipment[s].trip
    BY <1>1, <2>1 DEF ShipmentRecord
  <2>3. /\ Stored(u) \/ Building(u) \/ u \in failed \cup invented
        /\ u \in invented \/ <<u, s>> \in assigned
    BY <2>2 DEF PlanInv, PlanPhantoms
  <2> QED BY <2>2, <2>3 DEF BindingsKept
<1>2. CASE shipment'[s].trip # shipment[s].trip
  <2>1. PICK t \in Trip : /\ shipment'[s].trip = t /\ <<t, s>> \in assigned'
                          /\ (Stored(t) \/ Building(t))'
    BY <1>2 DEF BindingsKept
  <2> QED BY <2>1
<1> QED BY <1>1, <1>2

-----------------------------------------------------------------------------
(* The steps of an application. *)

(* Steps that are TripLifecycle's for the stores.                          *)
LEMMA StoresSound ==
  ASSUME PlanInv, [TripNext]_tripVars, invented' = invented
  PROVE  IInv' /\ ListsFull' /\ PlanPhantoms' /\ Grows
BY StepSound, TripsGrow, StepKeepsBindings, PlanPhantomKept DEF PlanInv

LEMMA BeginSound ==
  ASSUME PlanInv, NEW a \in App, Begin(a)
  PROVE  PlanInv'
<1> PlanTypeOK /\ TypeOK
  BY DEF PlanInv, IInv
<1>1. /\ UNCHANGED <<tripVars, approval, decisions, invented, made>>
      /\ overlapped' \in BOOLEAN
  BY DEF Begin, PlanTypeOK
<1>2. PICK o \in Options :
        app' = [app EXCEPT ![a] =
          [stage |-> "route", at |-> 1, trip |-> None, left |-> {}, options |-> o,
           quiet |-> \A j \in Job : Free(j), since |-> requests,
           known |-> {s \in Shipment : Known(s)}]]
  BY DEF Begin
<1> DEFINE quiet == \A j \in Job : Free(j)
           known == {s \in Shipment : Known(s)}
<1>3. quiet \in BOOLEAN /\ known \in SUBSET Shipment /\ requests \in 0..MaxRequests
  BY DEF TypeOK
<1> HIDE DEF quiet, known
<1>0. PICK q : q = [stage |-> "route", at |-> 1, trip |-> None, left |-> {}, options |-> o,
                   quiet |-> quiet, since |-> requests, known |-> known]
  OBVIOUS
<1>4. q \in AppRecord /\ q.stage = "route"
  <2>1. 1 \in 1..(Len(Plan) + 1)
    <3> DEFINE R == [vehicle : Vehicle, driver : Driver \cup {None}, riders : SUBSET Shipment]
    <3>1. Plan \in Seq(R)
      BY PlanAssumption
    <3> HIDE DEF R
    <3>2. Len(Plan) \in Nat
      BY <3>1
    <3> QED BY <3>2
  <2> QED BY <1>0, <1>3, <2>1 DEF AppRecord
<1>5. app' = [app EXCEPT ![a] = q]
  BY <1>0, <1>2 DEF quiet, known
<1>6. (PlaceSound(q))'
  BY <1>4 DEF PlaceSound
<1>7. IInv' /\ ListsFull' /\ PlanPhantoms' /\ Grows
  BY <1>1, StoresSound
<1>8. app' \in [App -> AppRecord] /\ \A b \in App : (PlaceSound(app[b]))'
  BY <1>4, <1>5, <1>6, <1>7, PlacesKept
<1>9. PlanTypeOK'
  BY <1>1, <1>7, <1>8 DEF PlanTypeOK, IInv
<1> QED BY <1>7, <1>8, <1>9 DEF PlanInv

LEMMA OnTheWay ==
  ASSUME PlanInv, NEW a \in App, Under(a)
  PROVE  app[a] \in AppRecord /\ app[a] # Resting /\ PlaceSound(app[a])
BY DEF PlanInv, PlanTypeOK, Under

(* The creation of the trip for a route is ordered.                        *)
LEMMA StartCreationSound ==
  ASSUME PlanInv, NEW a \in App, NEW t \in Trip, AtRoute(a), Creatable(Here(a)),
         CreateTrip(a, t, Here(a).vehicle, Here(a).driver, Here(a).riders),
         app' = [app EXCEPT ![a].stage = "creating", ![a].trip = t],
         made' = made \cup {<<a, app[a].at, t>>},
         UNCHANGED <<approval, decisions, invented, overlapped>>
  PROVE  PlanInv'
<1> PlanTypeOK /\ TypeOK
  BY DEF PlanInv, IInv
<1>1. PICK p \in AppRecord : p = app[a] /\ p # Resting /\ p.at \in Route
  BY OnTheWay DEF AtRoute
<1>2. /\ Here(a) = Plan[p.at] /\ Here(a).vehicle \in Vehicle /\ Here(a).driver \in Driver
      /\ Here(a).riders \in SUBSET Shipment
  BY <1>1, RouteTypes DEF Here, Creatable
<1>3. a \in Job
  BY PlanAssumption
<1>4. [TripNext]_tripVars
  BY <1>2, <1>3 DEF TripNext, Create
<1>5. IInv' /\ ListsFull' /\ PlanPhantoms' /\ Grows
  BY <1>4, StoresSound
<1>6. ordered'[t] = Plan[p.at].riders
  BY <1>2 DEF CreateTrip, TypeOK
<1>0. PICK q : q = Moved(p, "creating", p.at, t, p.left)
  OBVIOUS
<1>7. p.at \in 1..(Len(Plan) + 1) /\ p.left \in SUBSET Shipment
  BY <1>1, PlaceFields
<1>8. /\ q \in AppRecord /\ q # Resting
      /\ q.stage = "creating" /\ q.at = p.at /\ q.trip = t
  <2>1. t \in Trip \cup {None} /\ "creating" \in {"route", "creating", "bind"}
    OBVIOUS
  <2> QED BY <1>0, <1>1, <1>7, <2>1, PlaceMoved
<1>9. app' = [app EXCEPT ![a] = q]
  <2>1. [p EXCEPT !.stage = "creating", !.trip = t] = q
    BY <1>0, <1>1 DEF AppRecord, Resting, Moved
  <2> QED BY <1>1, <2>1 DEF PlanTypeOK
<1>10. (PlaceSound(q))'
  BY <1>1, <1>6, <1>8 DEF PlaceSound
<1>11. app' \in [App -> AppRecord] /\ \A b \in App : (PlaceSound(app[b]))'
  BY <1>5, <1>8, <1>9, <1>10, PlacesKept
<1>12. PlanTypeOK'
  BY <1>1, <1>5, <1>11 DEF PlanTypeOK, IInv
<1> QED BY <1>5, <1>11, <1>12 DEF PlanInv

(* An invented id is nobody else's. *)
LEMMA InventSound ==
  ASSUME PlanInv, NEW a \in App, NEW t \in Trip, Under(a), app[a].at \in Route, Invent(a, t)
  PROVE  PlanInv'
<1> PlanTypeOK /\ TypeOK /\ JobsSound /\ OneBuilder /\ TripsSound /\ ListsFull
  BY DEF PlanInv, IInv
<1>1. /\ UNCHANGED <<shipment, vehicle, driver, trip, assigned, job, requests, failed, handled,
                     late, departed, finished, approval, decisions, overlapped>>
      /\ ordered[t] = None /\ ordered' = [ordered EXCEPT ![t] = {}]
      /\ invented' = invented \cup {t} /\ made' = made \cup {<<a, app[a].at, t>>}
  BY DEF Invent, records
<1>2. /\ \A u : (Stored(u))' = Stored(u) /\ (Riders(u))' = Riders(u)
      /\ \A u \in Trip : u # t => ordered'[u] = ordered[u]
      /\ ordered'[t] = {} /\ ordered'[t] # None
  BY <1>1 DEF Stored, Riders, TypeOK
<1>3. ~Stored(t)
  BY <1>1 DEF TripsSound
<1>4. TypeOK'
  BY <1>1 DEF TypeOK
<1>5. JobsSound'
  <2> SUFFICES ASSUME NEW j \in Job, job'[j] # Idle PROVE (WorkSound(job[j]))'
    BY DEF JobsSound
  <2>1. PICK w \in Work : w = job[j] /\ w = job'[j] /\ WorkSound(w)
    BY <1>1 DEF TypeOK, JobsSound
  <2>2. w.trip \in Trip /\ w.trip # t
    BY <1>1, <2>1, WorkFields DEF WorkSound
  <2>3. (WorkSound(w))'
    BY <1>1, <1>2, <2>1, <2>2, OthersSound
  <2> QED BY <2>1, <2>3 DEF WorkSound, Creating, Stored, Riders
<1>6. OneBuilder'
  BY <1>1 DEF OneBuilder, Creating
<1>7. TripsSound'
  BY <1>1, <1>2 DEF TripsSound, Full
<1>8. IInv'
  BY <1>4, <1>5, <1>6, <1>7 DEF IInv
<1>9. ListsFull'
  BY <1>2, <1>3 DEF ListsFull
<1>10. Grows
  BY <1>1, <1>2 DEF Grows
<1>11. PlanPhantoms'
  <2>1. BindingsKept
    BY <1>1, <1>2, PhantomQuiet
  <2> QED BY <1>1, <2>1, PlanPhantomKept
<1>12. PICK p \in AppRecord : p = app[a] /\ p # Resting /\ p.at \in Route
  BY OnTheWay
<1>13. PICK q : q = Moved(p, "bind", p.at, t, Plan[p.at].riders)
  OBVIOUS
<1>14. /\ q \in AppRecord /\ q # Resting
       /\ q.stage = "bind" /\ q.at = p.at /\ q.trip = t /\ q.left = Plan[p.at].riders
  <2>1. /\ t \in Trip \cup {None} /\ "bind" \in {"route", "creating", "bind"}
        /\ p.at \in 1..(Len(Plan) + 1) /\ Plan[p.at].riders \in SUBSET Shipment
    BY <1>12, RouteTypes
  <2> QED BY <1>12, <1>13, <2>1, PlaceMoved
<1>15. app' = [app EXCEPT ![a] = q]
  <2>1. [p EXCEPT !.stage = "bind", !.trip = t, !.left = Plan[p.at].riders] = q
    BY <1>12, <1>13 DEF AppRecord, Resting, Moved
  <2>2. app' = [app EXCEPT ![a] = [p EXCEPT !.stage = "bind", !.trip = t,
                                            !.left = Plan[p.at].riders]]
    BY <1>12 DEF Invent, Here, PlanTypeOK
  <2> QED BY <2>1, <2>2
<1>16. (PlaceSound(q))'
  BY <1>1, <1>12, <1>14 DEF PlaceSound, Ready
<1>17. app' \in [App -> AppRecord] /\ \A b \in App : (PlaceSound(app[b]))'
  BY <1>10, <1>14, <1>15, <1>16, PlacesKept
<1>18. PlanTypeOK'
  BY <1>1, <1>4, <1>12, <1>17 DEF PlanTypeOK
<1> QED BY <1>8, <1>9, <1>11, <1>17, <1>18 DEF PlanInv

LEMMA StartTripSound ==
  ASSUME PlanInv, NEW a \in App, NEW t \in Trip, StartTrip(a, t)
  PROVE  PlanInv'
<1>1. AtRoute(a) /\ Under(a) /\ app[a].at \in Route
  BY DEF StartTrip, AtRoute
<1> QED BY <1>1, InventSound, StartCreationSound DEF StartTrip

LEMMA TripFailedSound ==
  ASSUME PlanInv, NEW a \in App, NEW t \in Trip, TripFailed(a, t)
  PROVE  PlanInv'
<1>1. Under(a) /\ app[a].at \in Route /\ Invent(a, t)
  BY OnTheWay DEF TripFailed, PlaceSound
<1> QED BY <1>1, InventSound

(* A creation that has returned has listed everyone it was ordered with;   *)
(* an application not asked for trips unbinds.                             *)
LEMMA ToBinding ==
  ASSUME PlanInv, NEW a \in App, TripReturned(a) \/ NoTripWanted(a)
  PROVE  PlanInv'
<1> PlanTypeOK /\ ListsFull
  BY DEF PlanInv
<1>1. UNCHANGED <<tripVars, approval, decisions, invented, made, overlapped>> /\ Under(a)
  BY DEF TripReturned, NoTripWanted, AtRoute
<1>2. PICK p \in AppRecord : p = app[a] /\ p # Resting /\ PlaceSound(p)
  BY <1>1, OnTheWay
<1>3. IInv' /\ ListsFull' /\ PlanPhantoms' /\ Grows
  BY <1>1, StoresSound
<1>4. PICK t \in Trip \cup {None} :
        /\ p.at \in Route /\ Ready(t, p.at)
        /\ app' = [app EXCEPT ![a] = Moved(p, "bind", p.at, t, Plan[p.at].riders)]
  <2>1. CASE TripReturned(a)
    <3>1. p.stage = "creating" /\ Stored(p.trip)
      BY <1>2, <2>1 DEF TripReturned
    <3>2. p.at \in Route /\ p.trip \in Trip /\ ordered[p.trip] = Plan[p.at].riders
      BY <1>2, <3>1 DEF PlaceSound
    <3>3. Ready(p.trip, p.at)
      BY <3>1, <3>2 DEF Ready, ListsFull, Riders
    <3>4. app' = [app EXCEPT ![a] = [p EXCEPT !.stage = "bind", !.left = Plan[p.at].riders]]
      BY <1>2, <2>1 DEF TripReturned, Here, PlanTypeOK
    <3>5. [p EXCEPT !.stage = "bind", !.left = Plan[p.at].riders]
            = Moved(p, "bind", p.at, p.trip, Plan[p.at].riders)
      BY <1>2 DEF AppRecord, Resting, Moved
    <3> QED BY <3>2, <3>3, <3>4, <3>5
  <2>2. CASE NoTripWanted(a)
    <3>1. p.at \in Route /\ Ready(None, p.at)
      BY <1>2, <2>2 DEF NoTripWanted, AtRoute, Ready
    <3>2. app' = [app EXCEPT ![a] =
                    [p EXCEPT !.stage = "bind", !.trip = None, !.left = Plan[p.at].riders]]
      BY <1>2, <2>2 DEF NoTripWanted, Here, PlanTypeOK
    <3>3. [p EXCEPT !.stage = "bind", !.trip = None, !.left = Plan[p.at].riders]
            = Moved(p, "bind", p.at, None, Plan[p.at].riders)
      BY <1>2 DEF AppRecord, Resting, Moved
    <3> QED BY <3>1, <3>2, <3>3
  <2> QED BY <2>1, <2>2
<1>5. PICK q : q = Moved(p, "bind", p.at, t, Plan[p.at].riders)
  OBVIOUS
<1>6. /\ q \in AppRecord /\ q # Resting
      /\ q.stage = "bind" /\ q.at = p.at /\ q.trip = t /\ q.left = Plan[p.at].riders
  <2>1. /\ "bind" \in {"route", "creating", "bind"}
        /\ p.at \in 1..(Len(Plan) + 1) /\ Plan[p.at].riders \in SUBSET Shipment
    BY <1>4, RouteTypes
  <2> QED BY <1>2, <1>5, <2>1, PlaceMoved
<1>7. (PlaceSound(q))'
  <2>1. PlaceSound(q)
    BY <1>4, <1>6 DEF PlaceSound
  <2> QED BY <1>3, <2>1, PlaceKept DEF Grows
<1>8. app' \in [App -> AppRecord] /\ \A b \in App : (PlaceSound(app[b]))'
  BY <1>3, <1>4, <1>5, <1>6, <1>7, PlacesKept
<1>9. PlanTypeOK'
  BY <1>1, <1>3, <1>8 DEF PlanTypeOK, IInv
<1> QED BY <1>3, <1>8, <1>9 DEF PlanInv

LEMMA BindPlannedSound ==
  ASSUME PlanInv, NEW a \in App, NEW s \in Shipment, BindPlanned(a, s)
  PROVE  PlanInv'
<1> PlanTypeOK /\ TypeOK /\ IInv /\ ListsFull /\ PlanPhantoms
  BY DEF PlanInv, IInv
<1>1. /\ UNCHANGED <<vehicle, driver, trip, assigned, job, requests, ordered, failed, handled,
                     late, departed, finished, approval, decisions, invented, made, overlapped>>
      /\ Under(a) /\ app[a].stage = "bind" /\ s \in app[a].left
  BY DEF BindPlanned, history
<1>2. PICK p \in AppRecord : p = app[a] /\ p # Resting /\ PlaceSound(p)
  BY <1>1, OnTheWay
<1>3. /\ p.trip \in Trip \cup {None} /\ p.at \in Route /\ s \in Plan[p.at].riders
      /\ Ready(p.trip, p.at)
  BY <1>1, <1>2, PlaceFields DEF PlaceSound
<1>4. \/ shipment' = shipment
      \/ shipment' = [shipment EXCEPT ![s] = [status |-> "ASSIGNED", trip |-> p.trip]]
  BY <1>2 DEF BindPlanned
<1>5. shipment' \in [Shipment -> ShipmentRecord]
  <2>1. CASE shipment' = shipment
    BY <2>1 DEF TypeOK
  <2>2. CASE shipment' = [shipment EXCEPT ![s] = [status |-> "ASSIGNED", trip |-> p.trip]]
    <3>1. "ASSIGNED" \in ShipmentStatus
      BY DEF ShipmentStatus
    <3>2. p.trip \in Trip \cup {None}
      BY <1>3
    <3>3. [shipment EXCEPT ![s] = [status |-> "ASSIGNED", trip |-> p.trip]]
            \in [Shipment -> ShipmentRecord]
      BY <3>1, <3>2, RecordTypes
    <3> QED BY <2>2, <3>3
  <2> QED BY <1>4, <2>1, <2>2
<1>6. TypeOK'
  BY <1>1, <1>5 DEF TypeOK
<1>7. IInv'
  BY <1>1, <1>6, Undisturbed
<1>8. ListsFull' /\ Grows
  BY <1>1 DEF ListsFull, Riders, Stored, Grows
<1>9. PlanPhantoms'
  <2>1. \A u : (Stored(u))' = Stored(u) /\ (Building(u))' = Building(u)
    BY <1>1 DEF Stored, Building
  <2>2. ASSUME NEW z \in Shipment, NEW u, u = shipment'[z].trip, u # None
        PROVE  /\ Stored(u) \/ Building(u) \/ u \in failed \cup invented
               /\ u \in invented \/ <<u, z>> \in assigned
    <3>1. CASE u = shipment[z].trip
      BY <2>2, <3>1 DEF PlanPhantoms
    <3>2. CASE u # shipment[z].trip
      <4>1. z = s /\ u = p.trip
        BY <1>4, <2>2, <3>2 DEF TypeOK
      <4> QED BY <1>3, <2>2, <4>1 DEF Ready
    <3> QED BY <3>1, <3>2
  <2> QED BY <1>1, <2>1, <2>2 DEF PlanPhantoms
<1>10. PICK q : q = Moved(p, "bind", p.at, p.trip, p.left \ {s})
  OBVIOUS
<1>11. /\ q \in AppRecord /\ q # Resting
       /\ q.stage = "bind" /\ q.at = p.at /\ q.trip = p.trip /\ q.left = p.left \ {s}
  <2>1. /\ "bind" \in {"route", "creating", "bind"}
        /\ p.at \in 1..(Len(Plan) + 1) /\ p.left \ {s} \in SUBSET Shipment
    BY <1>2, PlaceFields
  <2> QED BY <1>2, <1>3, <1>10, <2>1, PlaceMoved
<1>12. app' = [app EXCEPT ![a] = q]
  <2>1. [p EXCEPT !.left = p.left \ {s}] = q
    BY <1>1, <1>2, <1>10 DEF AppRecord, Resting, Moved
  <2>2. app' = [app EXCEPT ![a] = [p EXCEPT !.left = p.left \ {s}]]
    BY <1>2 DEF BindPlanned, PlanTypeOK
  <2> QED BY <2>1, <2>2
<1>13. (PlaceSound(q))'
  <2>1. PlaceSound(q)
    BY <1>1, <1>2, <1>11 DEF PlaceSound
  <2> QED BY <1>8, <2>1, PlaceKept DEF Grows
<1>14. app' \in [App -> AppRecord] /\ \A b \in App : (PlaceSound(app[b]))'
  BY <1>8, <1>11, <1>12, <1>13, PlacesKept
<1>15. PlanTypeOK'
  BY <1>1, <1>6, <1>14 DEF PlanTypeOK
<1> QED BY <1>7, <1>8, <1>9, <1>14, <1>15 DEF PlanInv

LEMMA LockVehicleSound ==
  ASSUME PlanInv, NEW a \in App, LockVehicle(a)
  PROVE  PlanInv'
<1> PlanTypeOK /\ TypeOK /\ IInv /\ ListsFull
  BY DEF PlanInv, IInv
<1>1. /\ UNCHANGED <<shipment, driver, trip, assigned, job, requests, ordered, failed, handled,
                     late, departed, finished, approval, decisions, invented, made, overlapped>>
      /\ Under(a) /\ app[a].stage = "bind"
  BY DEF LockVehicle, history
<1>2. PICK p \in AppRecord : p = app[a] /\ p # Resting /\ PlaceSound(p)
  BY <1>1, OnTheWay
<1>3. /\ p.at \in Route /\ Here(a) = Plan[p.at]
      /\ p.at + 1 \in 1..(Len(Plan) + 1) /\ p.trip \in Trip \cup {None}
      /\ Plan[p.at].vehicle \in Vehicle /\ Plan[p.at].driver \in Driver \cup {None}
  BY <1>1, <1>2, PlaceFields, RouteTypes DEF PlaceSound, Here
<1>4. vehicle' \in [Vehicle -> VehicleRecord]
  <2> DEFINE v == Plan[p.at].vehicle
             d == Plan[p.at].driver
             rec == [vehicle[v] EXCEPT !.status = "ASSIGNED", !.driver = d]
  <2>1. vehicle[v] \in VehicleRecord
    BY <1>3 DEF TypeOK
  <2>2. rec \in VehicleRecord
    BY <1>3, <2>1 DEF VehicleRecord, VehicleStatus
  <2>3. vehicle' = vehicle \/ vehicle' = [vehicle EXCEPT ![v] = rec]
    <3>1. \/ vehicle' = vehicle
          \/ vehicle' = [vehicle EXCEPT ![v].status = "ASSIGNED", ![v].driver = d]
      BY <1>3 DEF LockVehicle
    <3> QED BY <1>3, <3>1 DEF TypeOK
  <2> HIDE DEF rec, v
  <2> QED BY <2>2, <2>3 DEF TypeOK
<1>5. TypeOK'
  BY <1>1, <1>4 DEF TypeOK
<1>6. IInv'
  BY <1>1, <1>5, Undisturbed
<1>7. ListsFull' /\ Grows
  BY <1>1 DEF ListsFull, Riders, Stored, Grows
<1>8. PlanPhantoms'
  BY <1>1 DEF PlanInv, PlanPhantoms, Stored, Building
<1>9. PICK q : q = Moved(p, "route", p.at + 1, p.trip, {})
  OBVIOUS
<1>10. q \in AppRecord /\ q # Resting /\ q.stage = "route"
  <2>1. "route" \in {"route", "creating", "bind"} /\ {} \in SUBSET Shipment
    OBVIOUS
  <2> QED BY <1>2, <1>3, <1>9, <2>1, PlaceMoved
<1>11. app' = [app EXCEPT ![a] = q]
  <2>1. [p EXCEPT !.stage = "route", !.at = p.at + 1, !.left = {}] = q
    BY <1>2, <1>9 DEF AppRecord, Resting, Moved
  <2>2. app' = [app EXCEPT ![a] = [p EXCEPT !.stage = "route", !.at = p.at + 1, !.left = {}]]
    BY <1>2 DEF LockVehicle, PlanTypeOK
  <2> QED BY <2>1, <2>2
<1>12. (PlaceSound(q))'
  BY <1>10 DEF PlaceSound
<1>13. app' \in [App -> AppRecord] /\ \A b \in App : (PlaceSound(app[b]))'
  BY <1>7, <1>10, <1>11, <1>12, PlacesKept
<1>14. PlanTypeOK'
  BY <1>1, <1>5, <1>13 DEF PlanTypeOK
<1> QED BY <1>6, <1>7, <1>8, <1>13, <1>14 DEF PlanInv

(* Ends, decisions and the requests of others. *)
LEMMA EndSound ==
  ASSUME PlanInv, NEW a \in App, End(a)
  PROVE  PlanInv'
<1>1. /\ UNCHANGED <<tripVars, decisions, invented, made, overlapped>>
      /\ approval' = "APPLIED" /\ app' = [app EXCEPT ![a] = Resting]
  BY DEF End
<1>2. IInv' /\ ListsFull' /\ PlanPhantoms' /\ Grows
  BY <1>1, StoresSound
<1>3. Resting \in AppRecord /\ (PlaceSound(Resting))'
  BY DEF AppRecord, PlaceSound
<1>4. app' \in [App -> AppRecord] /\ \A b \in App : (PlaceSound(app[b]))'
  BY <1>1, <1>2, <1>3, PlacesKept
<1>5. PlanTypeOK'
  BY <1>1, <1>2, <1>4 DEF PlanInv, PlanTypeOK, IInv
<1> QED BY <1>2, <1>4, <1>5 DEF PlanInv

LEMMA BesideSound ==
  ASSUME PlanInv, Decide \/ Others \/ UNCHANGED planVars
  PROVE  PlanInv'
<1>1. /\ UNCHANGED <<app, invented, made, overlapped>> /\ [TripNext]_tripVars
      /\ approval' \in {"PENDING", "APPROVED", "REJECTED", "APPLIED"}
      /\ decisions' \in 0..MaxDecisions
  <2>1. CASE Decide
    BY <2>1, PlanAssumption DEF Decide, Approve, Reject, PlanInv, PlanTypeOK
  <2>2. CASE Others
    <3>1. [TripNext]_tripVars
      BY <2>2 DEF Others, TripNext, Continue, Edit
    <3> QED BY <2>2, <3>1 DEF Others, PlanInv, PlanTypeOK
  <2>3. CASE UNCHANGED planVars
    BY <2>3 DEF planVars, PlanInv, PlanTypeOK
  <2> QED BY <2>1, <2>2, <2>3
<1>2. IInv' /\ ListsFull' /\ PlanPhantoms' /\ Grows
  BY <1>1, StoresSound
<1>3. app' \in [App -> AppRecord] /\ \A b \in App : (PlaceSound(app[b]))'
  BY <1>1, <1>2, PlacesStay
<1>4. PlanTypeOK'
  BY <1>1, <1>2, <1>3 DEF PlanInv, PlanTypeOK, IInv
<1> QED BY <1>2, <1>3, <1>4 DEF PlanInv

LEMMA PlanSound == PlanSpec => []PlanInv
<1>1. PlanInit => PlanInv
  <2> SUFFICES ASSUME PlanInit PROVE PlanInv
    OBVIOUS
  <2>1. IInv
    BY InitSound DEF PlanInit
  <2>2. PlanTypeOK
    <3>1. 0 \in 0..MaxDecisions
      BY PlanAssumption
    <3>2. [a \in App |-> Resting] \in [App -> AppRecord]
      BY DEF AppRecord
    <3>3. TypeOK
      BY <2>1 DEF IInv
    <3> QED BY <3>1, <3>2, <3>3 DEF PlanInit, PlanTypeOK
  <2>3. PlanPhantoms /\ ListsFull
    BY DEF PlanInit, TripInit, PlanPhantoms, ListsFull, Stored, NoTrip
  <2>4. \A a \in App : PlaceSound(app[a])
    BY DEF PlanInit, PlaceSound
  <2> QED BY <2>1, <2>2, <2>3, <2>4 DEF PlanInv
<1>2. PlanInv /\ [PlanNext]_planVars => PlanInv'
  <2> SUFFICES ASSUME PlanInv, [PlanNext]_planVars PROVE PlanInv'
    OBVIOUS
  <2>1. CASE Application
    BY <2>1, BeginSound, ToBinding, LockVehicleSound, EndSound, StartTripSound, TripFailedSound,
       BindPlannedSound DEF Application
  <2> QED BY <2>1, BesideSound DEF PlanNext
<1> QED BY <1>1, <1>2, PTL DEF PlanSpec

(* Applications, however they overlap, keep the records' types: each has   *)
(* a route of the plan to work on, and writes a vehicle the plan names     *)
(* (applyOptimizationRun).                                                 *)
THEOREM PlanTyped == PlanSpec => []PlanTypeOK
<1>1. PlanInv => PlanTypeOK
  BY DEF PlanInv
<1> QED BY <1>1, PlanSound, PTL

(* Whatever overlaps with applications of a plan, a shipment is bound to a *)
(* trip that is stored or under way, to one that was given up half-way or  *)
(* to an invented id, and else stands on its trip's list                   *)
(* (applyOptimizationRun, createTripRecord).                               *)
THEOREM PlanPhantomsHaveACause == PlanSpec => []PlanPhantoms
<1>1. PlanInv => PlanPhantoms
  BY DEF PlanInv
<1> QED BY <1>1, PlanSound, PTL

-----------------------------------------------------------------------------
(* One trip for a route. *)

Entered(i, t) == \E a \in App : <<a, i, t>> \in made
Reached(p, i) == i < p.at \/ (i = p.at /\ p.stage # "route")

(* One application at a time: what has been entered is for routes it has   *)
(* reached, and once it is over nothing has been entered or the plan is    *)
(* applied for good.                                                       *)
OneAtATime ==
  ~overlapped =>
    /\ \A a, b \in App : Under(a) /\ Under(b) => a = b
    /\ \A a \in App : Under(a) => \A e \in made : Reached(app[a], e[2])
    /\ (\A a \in App : ~Under(a)) => made = {} \/ approval = "APPLIED"
    /\ \A i \in Route : \A t, u \in Trip \ invented : Entered(i, t) /\ Entered(i, u) => t = u

(* Application a goes from p to q. *)
Hop(a, p, q) ==
  /\ p = app[a] /\ p \in AppRecord /\ p # Resting
  /\ q \in AppRecord /\ q # Resting /\ app' = [app EXCEPT ![a] = q]
  /\ q.options = p.options /\ q.quiet = p.quiet /\ q.since = p.since /\ q.known = p.known

LEMMA HopMoved ==
  ASSUME NEW p \in AppRecord, p # Resting,
         NEW st \in {"route", "creating", "bind"}, NEW i \in 1..(Len(Plan) + 1),
         NEW t \in Trip \cup {None}, NEW L \in SUBSET Shipment,
         NEW q, q = Moved(p, st, i, t, L)
  PROVE  /\ q \in AppRecord /\ q # Resting
         /\ q.stage = st /\ q.at = i /\ q.trip = t /\ q.left = L
         /\ q.options = p.options /\ q.quiet = p.quiet /\ q.since = p.since /\ q.known = p.known
<1>1. q \in AppRecord /\ q # Resting /\ q.stage = st /\ q.at = i /\ q.trip = t /\ q.left = L
  BY PlaceMoved
<1>2. q.options = p.options /\ q.quiet = p.quiet /\ q.since = p.since /\ q.known = p.known
  BY DEF AppRecord, Resting, Moved
<1> QED BY <1>1, <1>2

(* The route gets a trip: one whose creation begins, or an invented id.    *)
Provides(a, p, q, t) ==
  /\ Hop(a, p, q) /\ p.at \in Route /\ q.at = p.at /\ q.trip = t
  /\ made' = made \cup {<<a, p.at, t>>} /\ UNCHANGED <<approval, overlapped, requests>>
  /\ \/ /\ p.stage = "route" /\ q.stage = "creating" /\ invented' = invented
        /\ Plan[p.at].driver \in Driver
        /\ CreateTrip(a, t, Plan[p.at].vehicle, Plan[p.at].driver, Plan[p.at].riders)
     \/ /\ q.stage = "bind" /\ q.left = Plan[p.at].riders
        /\ p.stage = "route" \/ (p.stage = "creating" /\ Free(a))
        /\ invented' = invented \cup {t} /\ UNCHANGED <<records, job>>

LEMMA HopProvides ==
  ASSUME PlanInv, NEW a \in App, NEW t \in Trip, StartTrip(a, t) \/ TripFailed(a, t)
  PROVE  \E p, q : Provides(a, p, q, t)
<1>1. /\ Under(a) /\ app[a].at \in Route
      /\ app[a].stage = "route" \/ (app[a].stage = "creating" /\ Free(a))
  BY OnTheWay DEF StartTrip, TripFailed, AtRoute, PlaceSound
<1>2. PICK p \in AppRecord : p = app[a] /\ p # Resting
  BY <1>1, OnTheWay
<1>. p # Resting
  BY <1>2
<1>3. /\ p.at \in 1..(Len(Plan) + 1) /\ Plan[p.at].riders \in SUBSET Shipment
      /\ p.left \in SUBSET Shipment /\ t \in Trip \cup {None}
      /\ "bind" \in {"route", "creating", "bind"} /\ "creating" \in {"route", "creating", "bind"}
  BY <1>1, <1>2, RouteTypes, PlaceFields
<1>4. app \in [App -> AppRecord]
  BY DEF PlanInv, PlanTypeOK
<1>5. CASE Invent(a, t)
  <2>0. PICK q : q = Moved(p, "bind", p.at, t, Plan[p.at].riders)
    OBVIOUS
  <2>1. app' = [app EXCEPT ![a] = q]
    <3>1. [p EXCEPT !.stage = "bind", !.trip = t, !.left = Plan[p.at].riders] = q
      BY <1>2, <2>0 DEF AppRecord, Resting, Moved
    <3>2. app' = [app EXCEPT ![a] = [p EXCEPT !.stage = "bind", !.trip = t, !.left = Plan[p.at].riders]]
      BY <1>2, <1>4, <1>5 DEF Invent, Here
    <3> QED BY <3>1, <3>2
  <2>2. Hop(a, p, q) /\ q.stage = "bind" /\ q.at = p.at /\ q.trip = t
       /\ q.left = Plan[p.at].riders
    <3>1. /\ q \in AppRecord /\ q.stage = "bind" /\ q.at = p.at /\ q.trip = t
          /\ q.left = Plan[p.at].riders
          /\ q.options = p.options /\ q.quiet = p.quiet /\ q.since = p.since /\ q.known = p.known
      BY <1>3, <2>0, HopMoved
    <3>2. q # Resting
      BY <3>1 DEF Resting
    <3> QED BY <1>2, <2>1, <3>1, <3>2 DEF Hop
  <2>3. /\ invented' = invented \cup {t} /\ made' = made \cup {<<a, p.at, t>>}
        /\ UNCHANGED <<approval, overlapped, requests, records, job>>
    BY <1>2, <1>5 DEF Invent
  <2>4. p.at \in Route /\ (p.stage = "route" \/ (p.stage = "creating" /\ Free(a)))
    BY <1>1, <1>2
  <2> QED BY <2>2, <2>3, <2>4 DEF Provides
<1>6. CASE /\ AtRoute(a) /\ Creatable(Here(a))
           /\ CreateTrip(a, t, Here(a).vehicle, Here(a).driver, Here(a).riders)
           /\ app' = [app EXCEPT ![a].stage = "creating", ![a].trip = t]
           /\ made' = made \cup {<<a, app[a].at, t>>}
           /\ UNCHANGED <<approval, decisions, invented, overlapped>>
  <2>0. PICK q : q = Moved(p, "creating", p.at, t, p.left)
    OBVIOUS
  <2>1. app' = [app EXCEPT ![a] = q]
    <3>1. [p EXCEPT !.stage = "creating", !.trip = t] = q
      BY <1>2, <2>0 DEF AppRecord, Resting, Moved
    <3>2. app' = [app EXCEPT ![a] = [p EXCEPT !.stage = "creating", !.trip = t]]
      BY <1>2, <1>4, <1>6
    <3> QED BY <3>1, <3>2
  <2>2. Hop(a, p, q) /\ q.stage = "creating" /\ q.at = p.at /\ q.trip = t
    <3>1. /\ q \in AppRecord /\ q.stage = "creating" /\ q.at = p.at /\ q.trip = t
          /\ q.options = p.options /\ q.quiet = p.quiet /\ q.since = p.since /\ q.known = p.known
      BY <1>3, <2>0, HopMoved
    <3>2. q # Resting
      BY <3>1 DEF Resting
    <3> QED BY <1>2, <2>1, <3>1, <3>2 DEF Hop
  <2>3. requests' = requests /\ Here(a) = Plan[p.at] /\ p.stage = "route"
        /\ Plan[p.at].driver \in Driver
    BY <1>1, <1>2, <1>6, RouteTypes DEF CreateTrip, Here, AtRoute, Creatable
  <2> QED BY <1>1, <1>2, <1>6, <2>2, <2>3 DEF Provides
<1> QED BY <1>1, <1>2, <1>5, <1>6 DEF StartTrip, TripFailed

(* The other steps of an application on its way: on to the binding, a      *)
(* shipment bound, the vehicle locked.                                     *)
ToBind(a, p, q) ==
  /\ Hop(a, p, q) /\ q.stage = "bind" /\ q.at = p.at /\ q.left = Plan[p.at].riders
  /\ UNCHANGED tripVars
  /\ \/ p.stage = "creating" /\ Free(a) /\ q.trip = p.trip
     \/ p.stage = "route" /\ ~p.options.create

Binds(a, p, q, s) ==
  /\ Hop(a, p, q) /\ p.stage = "bind" /\ q.stage = "bind" /\ q.at = p.at /\ q.trip = p.trip
  /\ s \in p.left /\ q.left = p.left \ {s}
  /\ shipment' = IF Known(s) THEN [shipment EXCEPT ![s] = [status |-> "ASSIGNED", trip |-> p.trip]]
                 ELSE shipment
  /\ UNCHANGED <<vehicle, job, requests>>

Locks(a, p, q) ==
  /\ Hop(a, p, q) /\ p.stage = "bind" /\ q.stage = "route" /\ q.at = p.at + 1 /\ p.at \in Route
  /\ p.options.assign => p.left = {}
  /\ vehicle' = IF p.options.lock
                THEN [vehicle EXCEPT ![Plan[p.at].vehicle].status = "ASSIGNED",
                                     ![Plan[p.at].vehicle].driver = Plan[p.at].driver]
                ELSE vehicle
  /\ UNCHANGED <<shipment, job, requests>>

Proceeds(a, p, q) ==
  /\ UNCHANGED <<approval, invented, made, overlapped>>
  /\ ToBind(a, p, q) \/ Locks(a, p, q) \/ \E s \in Shipment : Binds(a, p, q, s)

LEMMA HopProceeds ==
  ASSUME PlanInv, NEW a \in App,
         \/ TripReturned(a) \/ NoTripWanted(a) \/ LockVehicle(a)
         \/ \E s \in Shipment : BindPlanned(a, s)
  PROVE  \E p, q : Proceeds(a, p, q)
<1>1. Under(a) /\ (app[a].stage # "route" => app[a].at \in Route)
  <2>1. Under(a)
    BY DEF TripReturned, NoTripWanted, LockVehicle, BindPlanned, AtRoute
  <2> QED BY <2>1, OnTheWay DEF PlaceSound
<1>2. PICK p \in AppRecord : p = app[a] /\ p # Resting
  BY <1>1, OnTheWay
<1>. p # Resting
  BY <1>2
<1>3. app \in [App -> AppRecord]
  BY DEF PlanInv, PlanTypeOK
<1>4. /\ p.at \in 1..(Len(Plan) + 1) /\ p.left \in SUBSET Shipment /\ {} \in SUBSET Shipment
      /\ p.trip \in Trip \cup {None} /\ None \in Trip \cup {None}
      /\ "bind" \in {"route", "creating", "bind"} /\ "route" \in {"route", "creating", "bind"}
  BY <1>2, PlaceFields
<1>5. p.at \in Route => /\ Plan[p.at].riders \in SUBSET Shipment
                        /\ p.at + 1 \in 1..(Len(Plan) + 1)
  BY RouteTypes
<1>6. CASE TripReturned(a)
  <2>0. PICK q : q = Moved(p, "bind", p.at, p.trip, Plan[p.at].riders)
    OBVIOUS
  <2>1. app' = [app EXCEPT ![a] = q]
    <3>1. [p EXCEPT !.stage = "bind", !.left = Plan[p.at].riders] = q
      BY <1>2, <2>0 DEF AppRecord, Resting, Moved
    <3>2. app' = [app EXCEPT ![a] = [p EXCEPT !.stage = "bind", !.left = Plan[p.at].riders]]
      BY <1>2, <1>3, <1>6 DEF TripReturned, Here
    <3> QED BY <3>1, <3>2
  <2>2. /\ "bind" \in {"route", "creating", "bind"} /\ p.at \in 1..(Len(Plan) + 1)
        /\ p.trip \in Trip \cup {None} /\ Plan[p.at].riders \in SUBSET Shipment
    BY <1>1, <1>2, <1>4, <1>5, <1>6 DEF TripReturned
  <2>3. Hop(a, p, q) /\ q.stage = "bind" /\ q.at = p.at /\ q.trip = p.trip
       /\ q.left = Plan[p.at].riders
    <3>1. /\ q \in AppRecord /\ q.stage = "bind" /\ q.at = p.at /\ q.trip = p.trip
          /\ q.left = Plan[p.at].riders
          /\ q.options = p.options /\ q.quiet = p.quiet /\ q.since = p.since /\ q.known = p.known
      BY <2>0, <2>2, HopMoved
    <3>2. q # Resting
      BY <3>1 DEF Resting
    <3> QED BY <1>2, <2>1, <3>1, <3>2 DEF Hop
  <2>4. ToBind(a, p, q)
    BY <1>2, <1>6, <2>3 DEF TripReturned, ToBind
  <2> QED BY <1>6, <2>4 DEF TripReturned, Proceeds
<1>7. CASE NoTripWanted(a)
  <2>0. PICK q : q = Moved(p, "bind", p.at, None, Plan[p.at].riders)
    OBVIOUS
  <2>1. app' = [app EXCEPT ![a] = q]
    <3>1. [p EXCEPT !.stage = "bind", !.trip = None, !.left = Plan[p.at].riders] = q
      BY <1>2, <2>0 DEF AppRecord, Resting, Moved
    <3>2. app' = [app EXCEPT ![a] = [p EXCEPT !.stage = "bind", !.trip = None, !.left = Plan[p.at].riders]]
      BY <1>2, <1>3, <1>7 DEF NoTripWanted, Here
    <3> QED BY <3>1, <3>2
  <2>2. /\ "bind" \in {"route", "creating", "bind"} /\ p.at \in 1..(Len(Plan) + 1)
        /\ None \in Trip \cup {None} /\ Plan[p.at].riders \in SUBSET Shipment
    BY <1>2, <1>4, <1>5, <1>7 DEF NoTripWanted, AtRoute
  <2>3. Hop(a, p, q) /\ q.stage = "bind" /\ q.at = p.at /\ q.trip = None
       /\ q.left = Plan[p.at].riders
    <3>1. /\ q \in AppRecord /\ q.stage = "bind" /\ q.at = p.at /\ q.trip = None
          /\ q.left = Plan[p.at].riders
          /\ q.options = p.options /\ q.quiet = p.quiet /\ q.since = p.since /\ q.known = p.known
      BY <2>0, <2>2, HopMoved
    <3>2. q # Resting
      BY <3>1 DEF Resting
    <3> QED BY <1>2, <2>1, <3>1, <3>2 DEF Hop
  <2>4. ToBind(a, p, q)
    BY <1>2, <1>7, <2>3 DEF NoTripWanted, AtRoute, ToBind
  <2> QED BY <1>7, <2>4 DEF NoTripWanted, Proceeds
<1>8. CASE LockVehicle(a)
  <2>0. PICK q : q = Moved(p, "route", p.at + 1, p.trip, {})
    OBVIOUS
  <2>1. app' = [app EXCEPT ![a] = q]
    <3>1. [p EXCEPT !.stage = "route", !.at = p.at + 1, !.left = {}] = q
      BY <1>2, <2>0 DEF AppRecord, Resting, Moved
    <3>2. app' = [app EXCEPT ![a] = [p EXCEPT !.stage = "route", !.at = p.at + 1, !.left = {}]]
      BY <1>2, <1>3, <1>8 DEF LockVehicle
    <3> QED BY <3>1, <3>2
  <2>2. /\ "route" \in {"route", "creating", "bind"} /\ p.at + 1 \in 1..(Len(Plan) + 1)
        /\ p.trip \in Trip \cup {None} /\ {} \in SUBSET Shipment /\ p.at \in Route
    BY <1>1, <1>2, <1>4, <1>5, <1>8 DEF LockVehicle
  <2>3. Hop(a, p, q) /\ q.stage = "route" /\ q.at = p.at + 1
    <3>1. /\ q \in AppRecord /\ q.stage = "route" /\ q.at = p.at + 1
          /\ q.options = p.options /\ q.quiet = p.quiet /\ q.since = p.since /\ q.known = p.known
      BY <2>0, <2>2, HopMoved
    <3>2. q # Resting
      BY <3>1 DEF Resting
    <3> QED BY <1>2, <2>1, <3>1, <3>2 DEF Hop
  <2>4. Locks(a, p, q)
    BY <1>2, <1>8, <2>2, <2>3 DEF LockVehicle, Here, Locks
  <2> QED BY <1>8, <2>4 DEF LockVehicle, history, Proceeds
<1>9. ASSUME NEW s \in Shipment, BindPlanned(a, s)
      PROVE  \E q : Proceeds(a, p, q)
  <2>0. PICK q : q = Moved(p, "bind", p.at, p.trip, p.left \ {s})
    OBVIOUS
  <2>1. app' = [app EXCEPT ![a] = q]
    <3>1. [p EXCEPT !.left = p.left \ {s}] = q
      BY <1>2, <2>0, <1>9 DEF BindPlanned, AppRecord, Resting, Moved
    <3>2. app' = [app EXCEPT ![a] = [p EXCEPT !.left = p.left \ {s}]]
      BY <1>2, <1>3, <1>9 DEF BindPlanned
    <3> QED BY <3>1, <3>2
  <2>2. /\ "bind" \in {"route", "creating", "bind"} /\ p.at \in 1..(Len(Plan) + 1)
        /\ p.trip \in Trip \cup {None} /\ p.left \ {s} \in SUBSET Shipment
    BY <1>4
  <2>3. Hop(a, p, q) /\ q.stage = "bind" /\ q.at = p.at /\ q.trip = p.trip
       /\ q.left = p.left \ {s}
    <3>1. /\ q \in AppRecord /\ q.stage = "bind" /\ q.at = p.at /\ q.trip = p.trip
          /\ q.left = p.left \ {s}
          /\ q.options = p.options /\ q.quiet = p.quiet /\ q.since = p.since /\ q.known = p.known
      BY <2>0, <2>2, HopMoved, <1>9
    <3>2. q # Resting
      BY <3>1 DEF Resting
    <3> QED BY <1>2, <2>1, <3>1, <3>2 DEF Hop
  <2>4. Binds(a, p, q, s)
    BY <1>2, <1>9, <2>3 DEF BindPlanned, Binds
  <2> QED BY <1>9, <2>4 DEF BindPlanned, history, Proceeds
<1> QED BY <1>6, <1>7, <1>8, <1>9

(* A hop keeps every application under way that was. *)
LEMMA HopUnder ==
  ASSUME PlanInv, NEW a \in App, NEW p, NEW q, Hop(a, p, q)
  PROVE  /\ Under(a) /\ \A b \in App : (Under(b))' <=> Under(b)
         /\ app'[a] = q /\ \A b \in App : b # a => app'[b] = app[b]
<1>1. app \in [App -> AppRecord]
  BY DEF PlanInv, PlanTypeOK
<1>2. app'[a] = q /\ \A b \in App : b # a => app'[b] = app[b]
  BY <1>1 DEF Hop
<1> QED BY <1>2 DEF Hop, Under

LEMMA OnceProvides ==
  ASSUME PlanInv, OneAtATime, NEW a \in App, NEW t \in Trip, NEW p, NEW q, Provides(a, p, q, t)
  PROVE  OneAtATime'
<1> SUFFICES ASSUME ~overlapped' PROVE OneAtATime'
  BY DEF OneAtATime
<1>1. Hop(a, p, q) /\ ~overlapped /\ made \subseteq App \X Route \X Trip /\ p.at \in Route
  BY DEF Provides, PlanInv, PlanTypeOK
<1>2. /\ Under(a) /\ \A b \in App : (Under(b))' <=> Under(b)
      /\ app'[a] = q /\ \A b \in App : b # a => app'[b] = app[b]
  BY <1>1, HopUnder
<1>3. /\ \A b, c \in App : Under(b) /\ Under(c) => b = c
      /\ \A e \in made : Reached(p, e[2])
      /\ \A i \in Route : \A u, w \in Trip \ invented : Entered(i, u) /\ Entered(i, w) => u = w
  BY <1>1, <1>2 DEF OneAtATime, Hop
<1>4. \A b \in App : (Under(b))' => b = a
  BY <1>2, <1>3
<1>5. \A i : Reached(p, i) \/ i = p.at => Reached(q, i)
  BY DEF Provides, Reached
<1>6. \A e \in made' : Reached(q, e[2])
  BY <1>3, <1>5 DEF Provides
<1>7. \A b \in App : (Under(b))' => \A e \in made' : (Reached(app[b], e[2]))'
  BY <1>2, <1>4, <1>6 DEF Reached
<1>8. ASSUME NEW i \in Route, NEW u \in Trip \ invented', NEW w \in Trip \ invented',
             (Entered(i, u))', (Entered(i, w))'
      PROVE  u = w
  <2>1. u \in Trip \ invented /\ w \in Trip \ invented
    BY DEF Provides
  <2>2. CASE q.stage = "creating"
    <3>1. p.stage = "route" /\ made' = made \cup {<<a, p.at, t>>}
      BY <2>2 DEF Provides
    <3>2. \A e \in made : e[2] # p.at
      <4> SUFFICES ASSUME NEW e \in made PROVE e[2] # p.at
        OBVIOUS
      <4>1. e[2] \in Int /\ p.at \in Int
        BY <1>1, RouteTypes
      <4>2. e[2] < p.at
        BY <1>3, <3>1 DEF Reached
      <4> QED BY <4>1, <4>2
    <3>3. \A x : (Entered(i, x))' => Entered(i, x) \/ (i = p.at /\ x = t)
      BY <3>1 DEF Entered
    <3>4. \A x : ~Entered(p.at, x)
      BY <3>2 DEF Entered
    <3> QED BY <1>3, <1>8, <2>1, <3>3, <3>4
  <2>3. CASE q.stage # "creating"
    <3>1. t \in invented' /\ made' = made \cup {<<a, p.at, t>>}
      BY <2>3 DEF Provides
    <3>2. Entered(i, u) /\ Entered(i, w)
      BY <1>8, <3>1 DEF Entered
    <3> QED BY <1>3, <2>1, <3>2
  <2> QED BY <2>2, <2>3
<1> QED BY <1>2, <1>4, <1>7, <1>8 DEF OneAtATime

LEMMA OnceProceeds ==
  ASSUME PlanInv, OneAtATime, NEW a \in App, NEW p, NEW q, Proceeds(a, p, q)
  PROVE  OneAtATime'
<1> SUFFICES ASSUME ~overlapped' PROVE OneAtATime'
  BY DEF OneAtATime
<1>1. /\ Hop(a, p, q) /\ ~overlapped /\ UNCHANGED <<approval, made, invented>>
      /\ made \subseteq App \X Route \X Trip
  BY DEF Proceeds, ToBind, Binds, Locks, PlanInv, PlanTypeOK
<1>2. /\ Under(a) /\ \A b \in App : (Under(b))' <=> Under(b)
      /\ app'[a] = q /\ \A b \in App : b # a => app'[b] = app[b]
  BY <1>1, HopUnder
<1>3. \A i \in Route : Reached(p, i) => Reached(q, i)
  <2>1. p.at \in 1..(Len(Plan) + 1)
    BY <1>1, PlaceFields DEF Hop
  <2>2. Route \subseteq Int
    BY RouteTypes
  <2> QED BY <2>1, <2>2 DEF Proceeds, ToBind, Binds, Locks, Reached
<1>4. \A e \in made' : Reached(q, e[2])
  BY <1>1, <1>2, <1>3 DEF OneAtATime, Hop
<1>5. \A b \in App : (Under(b))' => b = a
  BY <1>1, <1>2 DEF OneAtATime
<1>6. \A b \in App : (Under(b))' => \A e \in made' : (Reached(app[b], e[2]))'
  BY <1>2, <1>4, <1>5 DEF Reached
<1>7. \A i, u : (Entered(i, u))' = Entered(i, u)
  BY <1>1 DEF Entered
<1> QED BY <1>1, <1>2, <1>5, <1>6, <1>7 DEF OneAtATime

(* A plan that is applied is not approved again: nobody begins on it.      *)
LEMMA OnceBegin ==
  ASSUME PlanInv, OneAtATime, NEW a \in App, Begin(a)
  PROVE  OneAtATime'
<1> SUFFICES ASSUME ~overlapped' PROVE OneAtATime'
  BY DEF OneAtATime
<1>1. /\ ~overlapped /\ \A b \in App : ~Under(b)
      /\ approval = "APPROVED" /\ UNCHANGED <<made, invented>>
  BY DEF Begin, PlanInv, PlanTypeOK
<1>2. made' = {}
  BY <1>1 DEF OneAtATime
<1>3. \A b \in App : b # a => app'[b] = app[b]
  BY DEF Begin, PlanInv, PlanTypeOK
<1>4. \A b \in App : (Under(b))' => b = a
  BY <1>1, <1>3 DEF Under
<1>5. \A i, u : ~(Entered(i, u))'
  BY <1>2 DEF Entered
<1> QED BY <1>2, <1>4, <1>5 DEF OneAtATime

LEMMA OnceRest ==
  ASSUME PlanInv, OneAtATime, Decide \/ Others \/ UNCHANGED planVars \/ \E a \in App : End(a)
  PROVE  OneAtATime'
<1> SUFFICES ASSUME ~overlapped' PROVE OneAtATime'
  BY DEF OneAtATime
<1>1. /\ ~overlapped /\ UNCHANGED <<made, invented>>
      /\ app' = app \/ \E a \in App : app' = [app EXCEPT ![a] = Resting] /\ approval' = "APPLIED"
      /\ approval = "APPLIED" => approval' = "APPLIED"
  BY DEF Decide, Approve, Reject, Others, planVars, End
<1>2. \A i, u : (Entered(i, u))' = Entered(i, u)
  BY <1>1 DEF Entered
<1>3. CASE app' = app
  <2>1. \A b : (Under(b))' = Under(b)
    BY <1>3 DEF Under
  <2> QED BY <1>1, <1>2, <1>3, <2>1 DEF OneAtATime, Reached
<1>4. ASSUME NEW a \in App, app' = [app EXCEPT ![a] = Resting], approval' = "APPLIED"
      PROVE  OneAtATime'
  <2>1. app'[a] = Resting /\ \A b \in App : b # a => app'[b] = app[b]
    BY <1>4 DEF PlanInv, PlanTypeOK
  <2>2. \A b \in App : (Under(b))' => Under(b) /\ app'[b] = app[b]
    BY <2>1 DEF Under
  <2>3. \A b \in App : (Under(b))' => \A e \in made' : (Reached(app[b], e[2]))'
    BY <1>1, <2>2 DEF OneAtATime, Reached
  <2> QED BY <1>1, <1>2, <1>4, <2>2, <2>3 DEF OneAtATime
<1> QED BY <1>1, <1>3, <1>4

LEMMA OneAtATimeSound == PlanSpec => []OneAtATime
<1>1. PlanInit => OneAtATime
  BY DEF PlanInit, OneAtATime, Under, Entered
<1>2. PlanInv /\ OneAtATime /\ [PlanNext]_planVars => OneAtATime'
  <2> SUFFICES ASSUME PlanInv, OneAtATime, [PlanNext]_planVars PROVE OneAtATime'
    OBVIOUS
  <2>1. ASSUME NEW a \in App, NEW t \in Trip, StartTrip(a, t) \/ TripFailed(a, t)
        PROVE  OneAtATime'
    BY <2>1, HopProvides, OnceProvides
  <2>2. ASSUME NEW a \in App, \/ TripReturned(a) \/ NoTripWanted(a) \/ LockVehicle(a)
                              \/ \E s \in Shipment : BindPlanned(a, s)
        PROVE  OneAtATime'
    BY <2>2, HopProceeds, OnceProceeds
  <2> QED BY <2>1, <2>2, OnceBegin, OnceRest DEF PlanNext, Application
<1> QED BY <1>1, <1>2, PlanSound, PTL DEF PlanSpec

(* Whatever is decided, edited and created in between, as long as no two   *)
(* applications overlap no route is given two trips: a plan that has been  *)
(* applied cannot be approved once more (applyOptimizationRun,             *)
(* approveOptimizationRun).                                                *)
THEOREM RoutesAppliedOnce == PlanSpec => []RouteAppliedOnce
<1>1. PlanInv /\ OneAtATime => RouteAppliedOnce
  <2> SUFFICES ASSUME PlanInv, OneAtATime, ~overlapped, NEW i \in Route
               PROVE  Cardinality({t \in Trip \ invented : \E a \in App : <<a, i, t>> \in made}) <= 1
    BY DEF RouteAppliedOnce
  <2> DEFINE T == {t \in Trip \ invented : \E a \in App : <<a, i, t>> \in made}
  <2>1. \A t, u \in T : t = u
    BY DEF OneAtATime, Entered
  <2>2. T = {} \/ \E t : T = {t}
    BY <2>1
  <2> HIDE DEF T
  <2>3. Cardinality(T) <= 1
    <3>1. CASE T = {}
      <4>1. Cardinality(T) = 0
        BY <3>1, FS_EmptySet
      <4> QED BY <4>1
    <3>2. CASE \E t : T = {t}
      <4>1. Cardinality(T) = 1
        BY <3>2, FS_Singleton
      <4> QED BY <4>1
    <3> QED BY <2>2, <3>1, <3>2
  <2> QED BY <2>3 DEF T
<1> QED BY <1>1, PlanSound, OneAtATimeSound, PTL

-----------------------------------------------------------------------------
(* What an application leaves behind. *)

AllAsked == [create |-> TRUE, assign |-> TRUE, lock |-> TRUE]

(* Nothing was under way when it began, and nothing has come in since.     *)
Calm(p) == p.options = AllAsked /\ p.quiet /\ p.since = requests /\ ~overlapped

Done(a, p, i) ==
  /\ vehicle[Plan[i].vehicle].status = "ASSIGNED"
  /\ \A s \in Plan[i].riders \cap p.known :
       shipment[s].status = "ASSIGNED" /\ <<a, i, shipment[s].trip>> \in made

(* The only request at work is its own creation; the routes before the     *)
(* present one are done, and of the present one what has been bound.       *)
CarriedSoFar(a, p) ==
  /\ \A j \in Job : j # a => Free(j)
  /\ p.stage # "creating" => Free(a)
  /\ ~Free(a) => job[a].op = "create" /\ job[a].trip = p.trip
  /\ \A s \in p.known : Known(s)
  /\ p.stage # "route" => <<a, p.at, p.trip>> \in made
  /\ p.stage = "bind" =>
       \A s \in (Plan[p.at].riders \cap p.known) \ p.left :
         shipment[s].status = "ASSIGNED" /\ shipment[s].trip = p.trip
  /\ \A i \in Route : i < p.at => Done(a, p, i)

CarryInv ==
  \A a \in App, p \in AppRecord : p = app[a] /\ p # Resting =>
    p.since <= requests /\ (Calm(p) => CarriedSoFar(a, p))

(* What is done stays done under a step that touches none of its shipments *)
(* and takes no vehicle back.                                              *)
LEMMA DoneKept ==
  ASSUME NEW a \in App, NEW p, NEW q, NEW i \in Route, Done(a, p, i), q.known = p.known,
         made \subseteq made',
         \A v \in Vehicle : vehicle[v].status = "ASSIGNED" => vehicle'[v].status = "ASSIGNED",
         \A s \in Plan[i].riders \cap p.known : shipment'[s] = shipment[s]
  PROVE  (Done(a, q, i))'
<1>1. Plan[i].vehicle \in Vehicle
  BY RouteTypes
<1> QED BY <1>1 DEF Done

(* Routes share no shipment. *)
LEMMA RidersApart ==
  ASSUME NEW i \in Route, NEW k \in Route, i # k, NEW s, s \in Plan[i].riders
  PROVE  s \notin Plan[k].riders
BY PlanAssumption DEF Route

LEMMA TakenVehicles ==
  ASSUME TypeOK, NEW v \in Vehicle, NEW d \in Driver \cup {None},
         vehicle' = [vehicle EXCEPT ![v].status = "ASSIGNED", ![v].driver = d]
  PROVE  /\ vehicle'[v].status = "ASSIGNED"
         /\ \A w \in Vehicle : vehicle[w].status = "ASSIGNED" => vehicle'[w].status = "ASSIGNED"
<1>1. vehicle \in [Vehicle -> VehicleRecord]
  BY DEF TypeOK
<1>2. \A w \in Vehicle : w # v => vehicle'[w] = vehicle[w]
  BY <1>1
<1>3. vehicle[v] \in VehicleRecord
  BY <1>1
<1>4. vehicle'[v] = [vehicle[v] EXCEPT !.status = "ASSIGNED", !.driver = d]
  BY <1>1
<1>5. vehicle'[v].status = "ASSIGNED"
  BY <1>3, <1>4 DEF VehicleRecord
<1> QED BY <1>2, <1>5

(* A turn of a creation, seen from the application it works for.           *)
LEMMA CreationBeside ==
  ASSUME TypeOK, NEW a \in Job, NEW r \in Work, Creating(r), Full(r.copy), CreateStep(a, r)
  PROVE  /\ \A s \in Shipment : s \notin r.rest => shipment'[s] = shipment[s]
         /\ \A s \in Shipment : Known(s) => (Known(s))'
         /\ \A v \in Vehicle : vehicle[v].status = "ASSIGNED" => vehicle'[v].status = "ASSIGNED"
         /\ \A j \in Job : j # a => job'[j] = job[j]
         /\ job'[a] # Idle => job'[a].op = "create" /\ job'[a].trip = r.trip
<1>1. CASE r.rest # {}
  <2> PICK s \in r.rest : BindOne(a, r, s) /\ UNCHANGED <<trip, vehicle>>
    BY <1>1 DEF CreateStep
  <2>1. /\ \/ shipment' = shipment
           \/ shipment' = [shipment EXCEPT ![s] = [status |-> "ASSIGNED", trip |-> r.trip]]
        /\ \/ job' = [job EXCEPT ![a] = [r EXCEPT !.rest = r.rest \ {s}]]
           \/ job' = [job EXCEPT ![a] = Idle]
    BY DEF BindOne
  <2>2. \A z \in Shipment : z # s => shipment'[z] = shipment[z]
    BY <2>1 DEF TypeOK
  <2>3. \A z \in Shipment : Known(z) => (Known(z))'
    BY <2>1 DEF TypeOK, Known
  <2>4. \/ job'[a] = [r EXCEPT !.rest = r.rest \ {s}]
        \/ job'[a] = Idle
    BY <2>1 DEF TypeOK
  <2>5. job'[a] # Idle => job'[a].op = "create" /\ job'[a].trip = r.trip
    BY <2>4 DEF Creating, Work
  <2>6. \A j \in Job : j # a => job'[j] = job[j]
    BY <2>1 DEF TypeOK
  <2> QED BY <2>2, <2>3, <2>5, <2>6
<1>2. CASE r.rest = {}
  <2>1. /\ shipment' = shipment /\ job' = [job EXCEPT ![a] = [r EXCEPT !.at = "driver"]]
        /\ vehicle' = [vehicle EXCEPT ![r.copy.vehicle].status = "ASSIGNED",
                                      ![r.copy.vehicle].driver = r.copy.driver]
    BY <1>2 DEF CreateStep, StoreTrip
  <2>2. \A v \in Vehicle : vehicle[v].status = "ASSIGNED" => vehicle'[v].status = "ASSIGNED"
    BY <2>1, TakenVehicles DEF Full
  <2>3. job'[a].op = "create" /\ job'[a].trip = r.trip
    <3>1. job'[a] = [r EXCEPT !.at = "driver"]
      BY <2>1 DEF TypeOK
    <3> QED BY <3>1 DEF Creating, Work
  <2>4. \A j \in Job : j # a => job'[j] = job[j]
    BY <2>1 DEF TypeOK
  <2> QED BY <2>1, <2>2, <2>3, <2>4 DEF Known
<1> QED BY <1>1, <1>2

(* A step that touches none but the shipments of the present route.        *)
LEMMA DoneStays ==
  ASSUME NEW a \in App, NEW p \in AppRecord, NEW q, CarriedSoFar(a, p), p # Resting,
         p.at \in Route, q.known = p.known, made \subseteq made',
         \A v \in Vehicle : vehicle[v].status = "ASSIGNED" => vehicle'[v].status = "ASSIGNED",
         \A s \in Shipment : s \notin Plan[p.at].riders => shipment'[s] = shipment[s]
  PROVE  \A i \in Route : i < p.at => (Done(a, q, i))'
<1> SUFFICES ASSUME NEW i \in Route, i < p.at PROVE (Done(a, q, i))'
  OBVIOUS
<1>1. i # p.at /\ Plan[i].riders \in SUBSET Shipment
  BY RouteTypes
<1>2. \A s \in Plan[i].riders \cap p.known : shipment'[s] = shipment[s]
  BY <1>1, RidersApart
<1>3. Done(a, p, i)
  BY DEF CarriedSoFar
<1> QED BY <1>2, <1>3, DoneKept

LEMMA CarryProvides ==
  ASSUME PlanInv, NEW a \in App, NEW t \in Trip, NEW p, NEW q, Provides(a, p, q, t),
         CarriedSoFar(a, p)
  PROVE  (CarriedSoFar(a, q))'
<1>1. /\ p \in AppRecord /\ p # Resting /\ p.at \in Route /\ q.at = p.at /\ q.trip = t
      /\ q.known = p.known /\ <<a, q.at, t>> \in made' /\ made \subseteq made'
  BY DEF Provides, Hop
<1>2. p.known \in SUBSET Shipment /\ TypeOK /\ a \in Job
  BY <1>1, PlanAssumption DEF AppRecord, Resting, PlanInv, IInv
<1>3. CASE /\ q.stage = "creating" /\ Plan[p.at].driver \in Driver
           /\ CreateTrip(a, t, Plan[p.at].vehicle, Plan[p.at].driver, Plan[p.at].riders)
  <2> DEFINE r == [op |-> "create", at |-> "riders", trip |-> t, driver |-> Plan[p.at].driver,
                   rest |-> Plan[p.at].riders,
                   copy |-> [status |-> "SCHEDULED", started |-> FALSE,
                             vehicle |-> Plan[p.at].vehicle, driver |-> Plan[p.at].driver]]
  <2>1. CreateStep(a, r)
    BY <1>3 DEF CreateTrip
  <2>2. r \in Work /\ Creating(r) /\ Full(r.copy) /\ r.trip = t /\ r.rest = Plan[p.at].riders
    BY <1>1, <1>3, RouteTypes DEF Work, TripRecord, TripStatus, Creating, Full
  <2> HIDE DEF r
  <2>3. /\ \A s \in Shipment : s \notin Plan[p.at].riders => shipment'[s] = shipment[s]
        /\ \A s \in Shipment : Known(s) => (Known(s))'
        /\ \A v \in Vehicle : vehicle[v].status = "ASSIGNED" => vehicle'[v].status = "ASSIGNED"
        /\ \A j \in Job : j # a => job'[j] = job[j]
        /\ job'[a] # Idle => job'[a].op = "create" /\ job'[a].trip = t
    BY <1>2, <2>1, <2>2, CreationBeside
  <2>4. \A i \in Route : i < p.at => (Done(a, q, i))'
    BY <1>1, <2>3, DoneStays
  <2>5. \A j \in Job : j # a => (Free(j))'
    BY <2>3 DEF CarriedSoFar, Free
  <2>6. \A s \in q.known : (Known(s))'
    BY <1>1, <1>2, <2>3 DEF CarriedSoFar
  <2> QED BY <1>1, <1>3, <2>3, <2>4, <2>5, <2>6 DEF CarriedSoFar, Free
<1>4. CASE /\ q.stage = "bind" /\ q.left = Plan[p.at].riders /\ UNCHANGED <<records, job>>
           /\ p.stage = "route" \/ (p.stage = "creating" /\ Free(a))
  <2>1. UNCHANGED <<shipment, vehicle, job>> /\ \A s : (Known(s))' = Known(s)
    BY <1>4 DEF records, Known
  <2>2. \A i \in Route : i < p.at => (Done(a, q, i))'
    BY <1>1, <2>1, DoneStays
  <2>3. \A j \in Job : (Free(j))'
    BY <1>4, <2>1 DEF CarriedSoFar, Free
  <2> QED BY <1>1, <1>2, <1>4, <2>1, <2>2, <2>3 DEF CarriedSoFar
<1> QED BY <1>3, <1>4 DEF Provides

LEMMA CarryProceeds ==
  ASSUME PlanInv, NEW a \in App, NEW p, NEW q, Proceeds(a, p, q),
         p.options = AllAsked, CarriedSoFar(a, p)
  PROVE  (CarriedSoFar(a, q))'
<1>1. /\ p \in AppRecord /\ p # Resting /\ q.known = p.known /\ PlaceSound(p) /\ made' = made
      /\ a \in Job
  BY PlanAssumption DEF Proceeds, ToBind, Binds, Locks, Hop, PlanInv
<1>2. p.known \in SUBSET Shipment /\ TypeOK /\ p.at \in 1..(Len(Plan) + 1)
  BY <1>1, PlaceFields DEF AppRecord, Resting, PlanInv, IInv
<1>3. p.options.create /\ p.options.assign /\ p.options.lock
  BY DEF AllAsked
<1>4. CASE ToBind(a, p, q)
  <2>1. /\ p.stage = "creating" /\ Free(a) /\ q.trip = p.trip /\ q.stage = "bind" /\ q.at = p.at
        /\ q.left = Plan[p.at].riders /\ UNCHANGED <<shipment, vehicle, job>>
    BY <1>3, <1>4 DEF ToBind, tripVars, records
  <2>2. p.at \in Route
    BY <1>1, <2>1 DEF PlaceSound
  <2>3. \A i \in Route : i < p.at => (Done(a, q, i))'
    BY <1>1, <2>1, <2>2, DoneStays
  <2> QED BY <1>1, <2>1, <2>3 DEF CarriedSoFar, Free, Known
<1>5. ASSUME NEW s \in Shipment, Binds(a, p, q, s)
      PROVE  (CarriedSoFar(a, q))'
  <2>1. /\ p.stage = "bind" /\ q.stage = "bind" /\ q.at = p.at /\ q.trip = p.trip /\ s \in p.left
        /\ q.left = p.left \ {s} /\ UNCHANGED <<vehicle, job>>
        /\ shipment' = IF Known(s) THEN [shipment EXCEPT ![s] = [status |-> "ASSIGNED", trip |-> p.trip]]
                       ELSE shipment
    BY <1>5 DEF Binds
  <2>2. p.at \in Route /\ s \in Plan[p.at].riders
    BY <1>1, <2>1 DEF PlaceSound
  <2>3. /\ \A z \in Shipment : z # s => shipment'[z] = shipment[z]
        /\ Known(s) => shipment'[s] = [status |-> "ASSIGNED", trip |-> p.trip]
    BY <1>2, <2>1 DEF TypeOK
  <2>4. \A i \in Route : i < p.at => (Done(a, q, i))'
    BY <1>1, <2>1, <2>2, <2>3, DoneStays
  <2>5. \A z \in q.known : (Known(z))'
    BY <1>1, <1>2, <2>3 DEF CarriedSoFar, Known
  <2>6. \A z \in (Plan[q.at].riders \cap q.known) \ q.left :
          shipment'[z].status = "ASSIGNED" /\ shipment'[z].trip = q.trip
    BY <1>1, <1>2, <2>1, <2>3 DEF CarriedSoFar
  <2> QED BY <1>1, <2>1, <2>4, <2>5, <2>6 DEF CarriedSoFar, Free
<1>6. CASE Locks(a, p, q)
  <2>1. /\ p.stage = "bind" /\ q.stage = "route" /\ q.at = p.at + 1 /\ p.at \in Route
        /\ p.left = {} /\ UNCHANGED <<shipment, job>>
        /\ vehicle' = [vehicle EXCEPT ![Plan[p.at].vehicle].status = "ASSIGNED",
                                      ![Plan[p.at].vehicle].driver = Plan[p.at].driver]
    BY <1>3, <1>6 DEF Locks
  <2>2. /\ vehicle'[Plan[p.at].vehicle].status = "ASSIGNED"
        /\ \A v \in Vehicle : vehicle[v].status = "ASSIGNED" => vehicle'[v].status = "ASSIGNED"
    BY <1>2, <2>1, RouteTypes, TakenVehicles
  <2>3. \A i \in Route : i < p.at => (Done(a, q, i))'
    BY <1>1, <2>1, <2>2, DoneStays
  <2>4. (Done(a, q, p.at))'
    BY <1>1, <2>1, <2>2 DEF CarriedSoFar, Done
  <2>5. \A i \in Route : i < q.at => i < p.at \/ i = p.at
    BY <1>2, <2>1, RouteTypes
  <2> QED BY <1>1, <2>1, <2>3, <2>4, <2>5 DEF CarriedSoFar, Free, Known
<1> QED BY <1>4, <1>5, <1>6 DEF Proceeds

(* An application takes a step; no other is under way, or it is not calm.  *)
LEMMA CarryHop ==
  ASSUME PlanInv, OneAtATime, CarryInv, NEW a \in App, NEW p, NEW q, Hop(a, p, q),
         UNCHANGED <<requests, overlapped>>,
         p.options = AllAsked /\ CarriedSoFar(a, p) => (CarriedSoFar(a, q))'
  PROVE  CarryInv'
<1> SUFFICES ASSUME NEW b \in App, NEW w \in AppRecord, w = app'[b], w # Resting
             PROVE  w.since <= requests' /\ ((Calm(w))' => (CarriedSoFar(b, w))')
  BY DEF CarryInv
<1>1. /\ Under(a) /\ \A c \in App : (Under(c))' <=> Under(c)
      /\ app'[a] = q /\ \A c \in App : c # a => app'[c] = app[c]
  BY HopUnder
<1>2. (Calm(w))' <=> w.options = AllAsked /\ w.quiet /\ w.since = requests /\ ~overlapped
  BY DEF Calm
<1>3. CASE b = a
  <2>1. w = q /\ p = app[a] /\ p \in AppRecord /\ p # Resting
    BY <1>1, <1>3 DEF Hop
  <2>2. p.since <= requests /\ (Calm(p) => CarriedSoFar(a, p))
    BY <2>1 DEF CarryInv
  <2>3. w.since <= requests'
    BY <2>1, <2>2 DEF Hop
  <2>4. (Calm(w))' => Calm(p)
    BY <1>2, <2>1 DEF Calm, Hop
  <2> QED BY <1>3, <2>1, <2>2, <2>3, <2>4 DEF Calm
<1>4. CASE b # a
  <2>1. w = app[b] /\ Under(b)
    BY <1>1, <1>4 DEF Under
  <2>2. w.since <= requests
    BY <2>1 DEF CarryInv
  <2>3. overlapped
    BY <1>1, <1>4, <2>1 DEF OneAtATime
  <2> QED BY <1>2, <2>2, <2>3
<1> QED BY <1>3, <1>4

LEMMA CarryBegin ==
  ASSUME PlanInv, CarryInv, NEW a \in App, Begin(a)
  PROVE  CarryInv'
<1> SUFFICES ASSUME NEW b \in App, NEW w \in AppRecord, w = app'[b], w # Resting
             PROVE  w.since <= requests' /\ ((Calm(w))' => (CarriedSoFar(b, w))')
  BY DEF CarryInv
<1>1. PICK o \in Options :
        app' = [app EXCEPT ![a] =
          [stage |-> "route", at |-> 1, trip |-> None, left |-> {}, options |-> o,
           quiet |-> \A j \in Job : Free(j), since |-> requests,
           known |-> {s \in Shipment : Known(s)}]]
  BY DEF Begin
<1>2. UNCHANGED tripVars /\ UNCHANGED <<shipment, job, requests>> /\ requests \in 0..MaxRequests
  BY DEF Begin, tripVars, records, PlanInv, IInv, TypeOK
<1>3. app \in [App -> AppRecord]
  BY DEF PlanInv, PlanTypeOK
<1>4. CASE b = a
  <2> DEFINE quiet == \A j \in Job : Free(j)
             known == {s \in Shipment : Known(s)}
  <2>1. w = [stage |-> "route", at |-> 1, trip |-> None, left |-> {}, options |-> o,
             quiet |-> quiet, since |-> requests, known |-> known]
    BY <1>1, <1>3, <1>4
  <2>2. /\ w.stage = "route" /\ w.at = 1 /\ w.since = requests
        /\ (w.quiet => \A j \in Job : Free(j)) /\ \A s \in w.known : Known(s)
    <3> HIDE DEF quiet, known
    <3>1. /\ w.stage = "route" /\ w.at = 1 /\ w.since = requests
          /\ w.quiet = quiet /\ w.known = known
      BY <2>1
    <3> QED BY <3>1 DEF quiet, known
  <2>3. \A i \in Route : ~(i < w.at)
    BY <2>2, RouteTypes
  <2>4. w.quiet => (CarriedSoFar(b, w))'
    <3>1. a \in Job
      BY PlanAssumption
    <3> QED BY <1>2, <1>4, <2>2, <2>3, <3>1 DEF CarriedSoFar, Free, Known
  <2> QED BY <1>2, <2>2, <2>4 DEF Calm
<1>5. CASE b # a
  <2>1. w = app[b] /\ Under(b) /\ overlapped'
    BY <1>1, <1>3, <1>5 DEF Under, Begin
  <2> QED BY <1>2, <2>1 DEF CarryInv, Calm
<1> QED BY <1>4, <1>5

(* The requests of others: only the application's own creation goes on     *)
(* without counting.                                                       *)
LEMMA CarryCreation ==
  ASSUME PlanInv, NEW a \in App, NEW p \in AppRecord, p = app[a], p # Resting,
         CarriedSoFar(a, p), NEW j \in Job, ContinueCreation(j), made' = made
  PROVE  (CarriedSoFar(a, p))'
<1>1. Creating(job[j]) /\ CreateStep(j, job[j])
  BY DEF ContinueCreation, Creating
<1>2. TypeOK /\ job[j] \in Work /\ job[j] # Idle
  BY <1>1, AtWork DEF PlanInv, IInv, Creating
<1>3. j = a /\ job[a].trip = p.trip /\ p.stage = "creating"
  BY <1>2 DEF CarriedSoFar, Free
<1>4. PICK r \in Work : r = job[j] /\ WorkSound(r)
  BY <1>2 DEF PlanInv, IInv, JobsSound
<1>5. PlaceSound(p)
  BY DEF PlanInv
<1>6. p.at \in Route /\ r.rest \subseteq Plan[p.at].riders /\ Full(r.copy)
  BY <1>1, <1>3, <1>4, <1>5 DEF PlaceSound, WorkSound
<1>7. /\ \A s \in Shipment : s \notin Plan[p.at].riders => shipment'[s] = shipment[s]
      /\ \A s \in Shipment : Known(s) => (Known(s))'
      /\ \A v \in Vehicle : vehicle[v].status = "ASSIGNED" => vehicle'[v].status = "ASSIGNED"
      /\ \A k \in Job : k # a => job'[k] = job[k]
      /\ job'[a] # Idle => job'[a].op = "create" /\ job'[a].trip = p.trip
  <2>1. Creating(r) /\ CreateStep(a, r) /\ a \in Job /\ r.trip = p.trip
    BY <1>1, <1>3, <1>4
  <2> QED BY <1>2, <1>6, <2>1, CreationBeside
<1>8. \A i \in Route : i < p.at => (Done(a, p, i))'
  BY <1>6, <1>7, DoneStays
<1>9. \A s \in p.known : (Known(s))'
  BY <1>7 DEF CarriedSoFar, AppRecord, Resting
<1> QED BY <1>3, <1>7, <1>8, <1>9 DEF CarriedSoFar, Free

LEMMA CarryOthers ==
  ASSUME PlanInv, CarryInv, Others
  PROVE  CarryInv'
<1> SUFFICES ASSUME NEW b \in App, NEW w \in AppRecord, w = app'[b], w # Resting
             PROVE  w.since <= requests' /\ ((Calm(w))' => (CarriedSoFar(b, w))')
  BY DEF CarryInv
<1>1. w = app[b] /\ UNCHANGED <<made, overlapped>> /\ requests \in Nat /\ w.since \in Nat
  BY TripAssumption DEF Others, PlanInv, IInv, TypeOK, AppRecord, Resting
<1>2. w.since <= requests /\ (Calm(w) => CarriedSoFar(b, w))
  BY <1>1 DEF CarryInv
<1>3. CASE requests' = requests + 1
  BY <1>1, <1>2, <1>3 DEF Calm
<1>4. CASE UNCHANGED requests
  <2>1. (Calm(w))' => Calm(w)
    BY <1>1, <1>4 DEF Calm
  <2> SUFFICES ASSUME CarriedSoFar(b, w), requests' = requests PROVE (CarriedSoFar(b, w))'
    BY <1>2, <1>4, <2>1
  <2>2. requests' # requests + 1
    BY <1>1
  <2>3. ASSUME NEW j \in Job, ContinueCreation(j)
        PROVE  (CarriedSoFar(b, w))'
    BY <1>1, <2>3, CarryCreation
  <2>4. ASSUME NEW j \in Job, TakeDriver(j)
        PROVE  (CarriedSoFar(b, w))'
    <3>1. /\ job' = [job EXCEPT ![j] = Idle] /\ UNCHANGED <<shipment, vehicle>>
          /\ b \in Job
      BY <2>4, PlanAssumption DEF TakeDriver
    <3>2. \A k \in Job : job'[k] = job[k] \/ job'[k] = Idle
      BY <3>1 DEF PlanInv, IInv, TypeOK
    <3>3. \A i : Done(b, w, i) => (Done(b, w, i))'
      BY <1>1, <3>1 DEF Done
    <3> QED BY <1>1, <3>1, <3>2, <3>3 DEF CarriedSoFar, Free, Known
  <2>5. ASSUME NEW s \in Shipment, CreateShipment(s)
        PROVE  (CarriedSoFar(b, w))'
    <3>1. /\ ~Known(s) /\ shipment' = [shipment EXCEPT ![s].status = "PLANNED"]
          /\ UNCHANGED <<vehicle, job>>
      BY <2>5 DEF CreateShipment
    <3>2. w.known \in SUBSET Shipment
      BY DEF AppRecord, Resting
    <3>3. \A z \in w.known : shipment'[z] = shipment[z]
      BY <3>1, <3>2 DEF CarriedSoFar, PlanInv, IInv, TypeOK
    <3>4. ASSUME NEW i \in Route, i < w.at PROVE (Done(b, w, i))'
      <4>1. Done(b, w, i)
        BY <3>4 DEF CarriedSoFar
      <4>2. \A z \in Plan[i].riders \cap w.known : shipment'[z] = shipment[z]
        BY <3>3
      <4> QED BY <1>1, <3>1, <4>1, <4>2, DoneKept
    <3> QED BY <1>1, <3>1, <3>3, <3>4 DEF CarriedSoFar, Free, Known
  <2> QED BY <2>2, <2>3, <2>4, <2>5 DEF Others
<1> QED BY <1>3, <1>4 DEF Others, ContinueCreation, TakeDriver

LEMMA CarryRest ==
  ASSUME PlanInv, CarryInv, Decide \/ UNCHANGED planVars \/ \E a \in App : End(a)
  PROVE  CarryInv'
<1> SUFFICES ASSUME NEW b \in App, NEW w \in AppRecord, w = app'[b], w # Resting
             PROVE  w.since <= requests' /\ ((Calm(w))' => (CarriedSoFar(b, w))')
  BY DEF CarryInv
<1>1. /\ UNCHANGED <<shipment, vehicle, job, requests, made, overlapped>>
      /\ app' = app \/ \E a \in App : app' = [app EXCEPT ![a] = Resting]
  BY DEF Decide, planVars, End, tripVars, records
<1>2. w = app[b]
  BY <1>1 DEF PlanInv, PlanTypeOK
<1>3. w.since <= requests /\ (Calm(w) => CarriedSoFar(b, w))
  BY <1>2 DEF CarryInv
<1>4. (Calm(w))' = Calm(w)
  BY <1>1 DEF Calm
<1>5. CarriedSoFar(b, w) => (CarriedSoFar(b, w))'
  BY <1>1 DEF CarriedSoFar, Free, Known, Done
<1> QED BY <1>1, <1>3, <1>4, <1>5

LEMMA CarrySound == PlanSpec => []CarryInv
<1>1. PlanInit => CarryInv
  BY DEF PlanInit, CarryInv
<1>2. PlanInv /\ OneAtATime /\ CarryInv /\ [PlanNext]_planVars => CarryInv'
  <2> SUFFICES ASSUME PlanInv, OneAtATime, CarryInv, [PlanNext]_planVars PROVE CarryInv'
    OBVIOUS
  <2>1. ASSUME NEW a \in App, NEW t \in Trip, StartTrip(a, t) \/ TripFailed(a, t)
        PROVE  CarryInv'
    <3>1. PICK p, q : Provides(a, p, q, t)
      BY <2>1, HopProvides
    <3>2. Hop(a, p, q) /\ UNCHANGED <<requests, overlapped>>
      BY <3>1 DEF Provides
    <3> QED BY <3>1, <3>2, CarryProvides, CarryHop
  <2>2. ASSUME NEW a \in App, \/ TripReturned(a) \/ NoTripWanted(a) \/ LockVehicle(a)
                              \/ \E s \in Shipment : BindPlanned(a, s)
        PROVE  CarryInv'
    <3>1. PICK p, q : Proceeds(a, p, q)
      BY <2>2, HopProceeds
    <3>2. Hop(a, p, q) /\ UNCHANGED <<requests, overlapped>>
      BY <3>1 DEF Proceeds, ToBind, Locks, Binds, tripVars
    <3> QED BY <3>1, <3>2, CarryProceeds, CarryHop
  <2> QED BY <2>1, <2>2, CarryBegin, CarryOthers, CarryRest DEF PlanNext, Application
<1> QED BY <1>1, <1>2, PlanSound, OneAtATimeSound, PTL DEF PlanSpec

(* An application asked for everything, with nothing under way when it     *)
(* began and no request since, ends with every shipment that was on record *)
(* assigned to the trip entered for its route and every vehicle taken,     *)
(* also where the creation of a trip failed half-way and an id was         *)
(* invented (applyOptimizationRun).                                        *)
THEOREM PlansCarriedOut == PlanSpec => []PlanCarriedOut
<1>1. PlanInv /\ CarryInv => PlanCarriedOut
  <2> SUFFICES ASSUME PlanInv, CarryInv, NEW a \in App, Under(a), app[a].at = Len(Plan) + 1,
                      app[a].options = AllAsked, app[a].quiet, app[a].since = requests,
                      ~overlapped, NEW i \in Route
               PROVE  Done(a, app[a], i)
    BY DEF PlanCarriedOut, AllAsked, Done
  <2>1. CarriedSoFar(a, app[a])
    BY OnTheWay DEF CarryInv, Calm
  <2>2. i < app[a].at
    <3>1. i \in 1..Len(Plan) /\ Len(Plan) \in Nat
      <4> DEFINE R == [vehicle : Vehicle, driver : Driver \cup {None}, riders : SUBSET Shipment]
      <4>1. Plan \in Seq(R)
        BY PlanAssumption
      <4> HIDE DEF R
      <4> QED BY <4>1 DEF Route
    <3> QED BY <3>1
  <2> QED BY <2>1, <2>2 DEF CarriedSoFar
<1> QED BY <1>1, PlanSound, CarrySound, PTL
=============================================================================
