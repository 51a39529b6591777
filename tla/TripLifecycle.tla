----------------------------- MODULE TripLifecycle -----------------------------
(***************************************************************************)
(* Trips and what they bind: shipments, a vehicle and a driver             *)
(* (src/src/lib/services/trip.service.ts, shipment.service.ts,             *)
(* fleet.service.ts, driver.service.ts), four stores in the server's       *)
(* memory without a transaction between them.                              *)
(*                                                                         *)
(* Creating, starting and completing a trip writes one record after the    *)
(* other, and after each write the request waits for the database and the  *)
(* audit log: other requests run in between.  A job is such a request, and *)
(* a step is what runs between two waits.                                  *)
(***************************************************************************)
EXTENDS Naturals

CONSTANTS
  Shipment, Vehicle, Driver,
  Trip,       \* trips that may ever be created
  Job,        \* requests under way at once
  MaxRequests, \* bound: requests other than creations
  None

ASSUME TripAssumption ==
  /\ MaxRequests \in Nat
  /\ None \notin Shipment \cup Vehicle \cup Driver \cup Trip
  /\ \A S \in SUBSET Shipment : S # None

VARIABLES
  shipment, vehicle, driver, trip, \* the records
  assigned,  \* the assignment records: pairs of a trip and a shipment
  job,       \* the requests under way
  requests,
  \* history
  ordered,   \* the shipments each trip was ordered with
  failed,    \* trips whose creation was given up
  handled,   \* <<t, s, status>>: t's departure or completion set s to status
  late,      \* <<t, s>>: s was assigned while t was leaving or being completed
  departed, finished  \* trips a departure, a completion has been published for

records == <<shipment, vehicle, driver, trip, assigned>>
history == <<ordered, failed, handled, late, departed, finished>>
tripVars == <<records, job, requests, history>>

ShipmentStatus == {"NONE", "PLANNED", "ASSIGNED", "IN_TRANSIT", "DELIVERED", "CANCELLED"}
VehicleStatus == {"AVAILABLE", "ASSIGNED", "IN_TRANSIT", "OFFLINE"}
Duty == {"AVAILABLE", "ON_TRIP", "OFF_DUTY"}
TripStatus == {"NONE", "SCHEDULED", "EN_ROUTE", "COMPLETED", "OTHER"}

TripRecord ==
  [status : TripStatus, started : BOOLEAN,
   vehicle : Vehicle \cup {None}, driver : Driver \cup {None}]

ShipmentRecord == [status : ShipmentStatus, trip : Trip \cup {None}]
VehicleRecord == [status : VehicleStatus, driver : Driver \cup {None}, archived : BOOLEAN]
DriverRecord == [duty : Duty, vehicle : Vehicle \cup {None}, archived : BOOLEAN]

Idle == [op |-> "idle"]

(* What a job remembers: the record it comes to next, the trip it will     *)
(* store, the driver it read, and the shipments it has not written yet.    *)
Work ==
  [op : {"create", "depart", "complete"}, at : {"driver", "riders"},
   trip : Trip, driver : Driver, copy : TripRecord, rest : SUBSET Shipment]

TypeOK ==
  /\ shipment \in [Shipment -> ShipmentRecord]
  /\ vehicle \in [Vehicle -> VehicleRecord]
  /\ driver \in [Driver -> DriverRecord]
  /\ trip \in [Trip -> TripRecord]
  /\ assigned \subseteq Trip \X Shipment
  /\ job \in [Job -> Work \cup {Idle}]
  /\ requests \in 0..MaxRequests
  /\ ordered \in [Trip -> (SUBSET Shipment) \cup {None}]
  /\ handled \subseteq Trip \X Shipment \X {"IN_TRANSIT", "DELIVERED"}
  /\ late \subseteq Trip \X Shipment
  /\ failed \subseteq Trip /\ departed \subseteq Trip /\ finished \subseteq Trip

NoTrip == [status |-> "NONE", started |-> FALSE, vehicle |-> None, driver |-> None]

TripInit ==
  /\ shipment = [s \in Shipment |-> [status |-> "NONE", trip |-> None]]
  /\ vehicle = [v \in Vehicle |->
       [status |-> "AVAILABLE", driver |-> None, archived |-> FALSE]]
  /\ driver = [d \in Driver |->
       [duty |-> "AVAILABLE", vehicle |-> None, archived |-> FALSE]]
  /\ trip = [t \in Trip |-> NoTrip]
  /\ assigned = {}
  /\ job = [j \in Job |-> Idle]
  /\ requests = 0
  /\ ordered = [t \in Trip |-> None]
  /\ failed = {} /\ handled = {} /\ late = {} /\ departed = {} /\ finished = {}

Stored(t) == trip[t].status # "NONE"
Known(s) == shipment[s].status # "NONE"
Riders(t) == {s \in Shipment : <<t, s>> \in assigned}
Free(j) == job[j] = Idle

-----------------------------------------------------------------------------
(* createTripRecord *)

Fit(v, d) ==
  /\ ~vehicle[v].archived /\ vehicle[v].status # "OFFLINE"
  /\ ~driver[d].archived /\ driver[d].duty # "OFF_DUTY"

(* Plausible slip: the shipment is bound, and its assignment forgotten.    *)
BindOneUnlisted(j, rec, s) ==
  \/ /\ Known(s)
     /\ shipment' = [shipment EXCEPT ![s] = [status |-> "ASSIGNED", trip |-> rec.trip]]
     /\ job' = [job EXCEPT ![j] = [rec EXCEPT !.rest = @ \ {s}]]
     /\ UNCHANGED <<assigned, failed>>
  \/ /\ ~Known(s)
     /\ failed' = failed \cup {rec.trip}
     /\ job' = [job EXCEPT ![j] = Idle]
     /\ UNCHANGED <<assigned, shipment>>

(* One shipment is listed and bound, whatever its status; an unknown one   *)
(* ends the creation, and what is bound by then stays bound.               *)
BindOne(j, rec, s) ==
  \/ /\ Known(s)
     /\ assigned' = assigned \cup {<<rec.trip, s>>}
     /\ shipment' = [shipment EXCEPT ![s] = [status |-> "ASSIGNED", trip |-> rec.trip]]
     /\ job' = [job EXCEPT ![j] = [rec EXCEPT !.rest = @ \ {s}]]
     /\ UNCHANGED failed
  \/ /\ ~Known(s)
     /\ failed' = failed \cup {rec.trip}
     /\ job' = [job EXCEPT ![j] = Idle]
     /\ UNCHANGED <<assigned, shipment>>

(* With all of them bound the trip is stored and its vehicle taken.        *)
StoreTrip(j, rec) ==
  LET v == rec.copy.vehicle IN
  /\ trip' = [trip EXCEPT ![rec.trip] = rec.copy]
  /\ vehicle' = [vehicle EXCEPT ![v].status = "ASSIGNED", ![v].driver = rec.copy.driver]
  /\ job' = [job EXCEPT ![j] = [rec EXCEPT !.at = "driver"]]

(* Plausible slip: the trip is stored before its shipments are bound.      *)
CreateStepTripFirst(j, rec) ==
  \/ /\ rec.rest # {}
     /\ \E s \in rec.rest : BindOne(j, rec, s)
     /\ trip' = [trip EXCEPT ![rec.trip] = rec.copy]
     /\ UNCHANGED vehicle
  \/ /\ rec.rest = {}
     /\ StoreTrip(j, rec)
     /\ UNCHANGED <<assigned, shipment, failed>>

CreateStep(j, rec) ==
  \/ /\ rec.rest # {}
     /\ \E s \in rec.rest : BindOne(j, rec, s)
     /\ UNCHANGED <<trip, vehicle>>
  \/ /\ rec.rest = {}
     /\ StoreTrip(j, rec)
     /\ UNCHANGED <<assigned, shipment, failed>>

CreateTrip(j, t, v, d, riders) ==
  /\ Free(j) /\ ordered[t] = None
  /\ Fit(v, d)
  /\ ordered' = [ordered EXCEPT ![t] = riders]
  /\ CreateStep(j,
       [op |-> "create", at |-> "riders", trip |-> t, driver |-> d, rest |-> riders,
        copy |-> [status |-> "SCHEDULED", started |-> FALSE, vehicle |-> v, driver |-> d]])
  /\ UNCHANGED <<driver, requests, handled, late, departed, finished>>

ContinueCreation(j) ==
  /\ job[j].op = "create" /\ job[j].at = "riders"
  /\ CreateStep(j, job[j])
  /\ UNCHANGED <<driver, requests, ordered, handled, late, departed, finished>>

(* The driver's record is the last one.                                    *)
TakeDriver(j) ==
  /\ job[j].op = "create" /\ job[j].at = "driver"
  /\ driver' = [driver EXCEPT ![job[j].driver].vehicle = job[j].copy.vehicle]
  /\ job' = [job EXCEPT ![j] = Idle]
  /\ UNCHANGED <<shipment, vehicle, trip, assigned, requests, history>>

-----------------------------------------------------------------------------
(* updateTripRecord *)

(* What a PATCH may say besides the status (tripUpdateSchema).             *)
Patched(t, v, d) == [trip[t] EXCEPT !.vehicle = v, !.driver = d]

(* Plausible slip: the list is taken from the shipments' own records.      *)
StartJobByShipments(j, t, op, copy) ==
  /\ Free(j) /\ Stored(t)
  /\ job' = [job EXCEPT ![j] =
       [op |-> op, at |-> "driver", trip |-> t, driver |-> trip[t].driver, copy |-> copy,
        rest |-> {s \in Shipment : shipment[s].trip = t}]]
  /\ UNCHANGED <<shipment, driver, trip, assigned, history>>

(* The trip is read once, here; its vehicle is the first record written.   *)
StartJob(j, t, op, copy) ==
  /\ Free(j) /\ Stored(t)
  /\ job' = [job EXCEPT ![j] =
       [op |-> op, at |-> "driver", trip |-> t, driver |-> trip[t].driver, copy |-> copy,
        rest |-> Riders(t)]]
  /\ UNCHANGED <<shipment, driver, trip, assigned, history>>

Depart(j, t) ==
  /\ ~trip[t].started
  /\ \E v \in Vehicle, d \in Driver :
       StartJob(j, t, "depart",
         [Patched(t, v, d) EXCEPT !.status = "EN_ROUTE", !.started = TRUE])
  /\ vehicle' = [vehicle EXCEPT ![trip[t].vehicle].status = "IN_TRANSIT"]

Complete(j, t) ==
  /\ \E v \in Vehicle, d \in Driver :
       StartJob(j, t, "complete", [Patched(t, v, d) EXCEPT !.status = "COMPLETED"])
  /\ vehicle' = [vehicle EXCEPT ![trip[t].vehicle] =
       [@ EXCEPT !.status = "AVAILABLE", !.driver = None]]

(* The driver is written through the trip as it was read: so is every      *)
(* later record of the job.                                                *)
WriteDriver(j) ==
  LET rec == job[j] IN
  /\ rec.op \in {"depart", "complete"} /\ rec.at = "driver"
  /\ driver' = [driver EXCEPT ![rec.driver] =
       IF rec.op = "depart" THEN [@ EXCEPT !.duty = "ON_TRIP"]
       ELSE [@ EXCEPT !.duty = "AVAILABLE", !.vehicle = None]]
  /\ job' = [job EXCEPT ![j].at = "riders"]
  /\ UNCHANGED <<shipment, vehicle, trip, assigned, requests, history>>

StatusOf(op) == IF op = "depart" THEN "IN_TRANSIT" ELSE "DELIVERED"

WriteRider(j, s) ==
  LET rec == job[j] IN
  /\ rec.op \in {"depart", "complete"} /\ rec.at = "riders" /\ s \in rec.rest
  /\ shipment' = [shipment EXCEPT ![s].status = StatusOf(rec.op)]
  /\ job' = [job EXCEPT ![j].rest = @ \ {s}]
  /\ handled' = handled \cup {<<rec.trip, s, StatusOf(rec.op)>>}
  /\ UNCHANGED <<vehicle, driver, trip, assigned, requests, ordered, failed, late,
                 departed, finished>>

(* The trip is written back as it was read, with the new status.           *)
Publish(j) ==
  LET rec == job[j] IN
  /\ rec.op \in {"depart", "complete"} /\ rec.at = "riders" /\ rec.rest = {}
  /\ trip' = [trip EXCEPT ![rec.trip] = rec.copy]
  /\ job' = [job EXCEPT ![j] = Idle]
  /\ departed' = IF rec.op = "depart" THEN departed \cup {rec.trip} ELSE departed
  /\ finished' = IF rec.op = "complete" THEN finished \cup {rec.trip} ELSE finished
  /\ UNCHANGED <<shipment, vehicle, driver, assigned, requests, ordered, failed, handled, late>>

-----------------------------------------------------------------------------
(* Requests that write one record, in one step. *)

(* updateTripRecord with no status, or one that binds nothing.             *)
EditTrip(t) ==
  /\ Stored(t)
  /\ \E v \in Vehicle, d \in Driver, b \in BOOLEAN :
       \E st \in {trip[t].status, "SCHEDULED", "OTHER"} :
         trip' = [trip EXCEPT ![t] = [Patched(t, v, d) EXCEPT !.status = st, !.started = b]]
  /\ UNCHANGED <<shipment, vehicle, driver, assigned, job, history>>

(* EN_ROUTE once more for a trip that has already left.                    *)
Resume(t) ==
  /\ Stored(t) /\ trip[t].started
  /\ trip' = [trip EXCEPT ![t].status = "EN_ROUTE"]
  /\ UNCHANGED <<shipment, vehicle, driver, assigned, job, history>>

Moving(t) == \E j \in Job : job[j] # Idle /\ job[j].op # "create" /\ job[j].trip = t

(* assignShipmentToTrip *)
Assign(t, s) ==
  /\ Stored(t) /\ Known(s)
  /\ shipment[s].status \notin {"CANCELLED", "DELIVERED"}
  /\ assigned' = assigned \cup {<<t, s>>}
  /\ shipment' = [shipment EXCEPT ![s] =
       [status |-> IF trip[t].status = "EN_ROUTE" THEN "IN_TRANSIT" ELSE "ASSIGNED",
        trip |-> t]]
  /\ late' = IF Moving(t) THEN late \cup {<<t, s>>} ELSE late
  /\ UNCHANGED <<vehicle, driver, trip, job, ordered, failed, handled, departed, finished>>

(* createShipmentRecord *)
CreateShipment(s) ==
  /\ ~Known(s)
  /\ shipment' = [shipment EXCEPT ![s].status = "PLANNED"]
  /\ UNCHANGED <<vehicle, driver, trip, assigned, job, history>>

(* cancelShipmentRecord *)
CancelShipment(s) ==
  /\ Known(s) /\ shipment[s].status # "DELIVERED"
  /\ shipment' = [shipment EXCEPT ![s].status = "CANCELLED"]
  /\ UNCHANGED <<vehicle, driver, trip, assigned, job, history>>

(* updateShipmentRecord, as a PATCH reaches it: a status, no binding.      *)
EditShipment(s) ==
  /\ Known(s)
  /\ \E st \in ShipmentStatus \ {"NONE"} :
       shipment' = [shipment EXCEPT ![s].status = st]
  /\ UNCHANGED <<vehicle, driver, trip, assigned, job, history>>

(* updateVehicle and archiveVehicle *)
EditVehicle(v) ==
  /\ \/ \E st \in VehicleStatus : vehicle' = [vehicle EXCEPT ![v].status = st]
     \/ vehicle' = [vehicle EXCEPT ![v] =
          [status |-> "OFFLINE", driver |-> None, archived |-> TRUE]]
  /\ UNCHANGED <<shipment, driver, trip, assigned, job, history>>

(* updateDriver and archiveDriver *)
EditDriver(d) ==
  /\ \/ \E duty \in Duty : driver' = [driver EXCEPT ![d].duty = duty]
     \/ driver' = [driver EXCEPT ![d] =
          [duty |-> "OFF_DUTY", vehicle |-> None, archived |-> TRUE]]
  /\ UNCHANGED <<shipment, vehicle, trip, assigned, job, history>>

(* ingestGpsPosition: a position of the trip finds this shipment of its    *)
(* list assigned.  (That it starts a scheduled trip first is Depart.)      *)
IngestPosition(t, s) ==
  /\ Stored(t) /\ <<t, s>> \in assigned /\ shipment[s].status = "ASSIGNED"
  /\ shipment' = [shipment EXCEPT ![s].status = "IN_TRANSIT"]
  /\ UNCHANGED <<vehicle, driver, trip, assigned, job, history>>

Move == \E j \in Job, t \in Trip : Depart(j, t) \/ Complete(j, t)

Edit ==
  \/ \E t \in Trip : EditTrip(t) \/ Resume(t)
  \/ \E t \in Trip, s \in Shipment : Assign(t, s) \/ IngestPosition(t, s)
  \/ \E s \in Shipment : CancelShipment(s) \/ EditShipment(s)
  \/ \E v \in Vehicle : EditVehicle(v)
  \/ \E d \in Driver : EditDriver(d)

-----------------------------------------------------------------------------

Create ==
  \E j \in Job, t \in Trip, v \in Vehicle, d \in Driver, riders \in SUBSET Shipment :
    CreateTrip(j, t, v, d, riders)

Continue ==
  \E j \in Job :
    \/ ContinueCreation(j) \/ TakeDriver(j)
    \/ WriteDriver(j) \/ (\E s \in Shipment : WriteRider(j, s)) \/ Publish(j)

TripNext ==
  \/ Create \/ Continue
  \/ /\ Move \/ Edit
     /\ requests < MaxRequests /\ requests' = requests + 1
  \/ \E s \in Shipment : CreateShipment(s) /\ UNCHANGED requests

TripSpec == TripInit /\ [][TripNext]_tripVars

-----------------------------------------------------------------------------
(* Properties. *)

Building(t) == \E j \in Job : job[j] # Idle /\ job[j].op = "create" /\ job[j].trip = t

(* A shipment bound to a trip is on the trip's list, and a trip that       *)
(* shipments are bound to exists, is being created, or is one whose        *)
(* creation failed half-way: no other interleaving leaves a phantom.       *)
PhantomsExplained ==
  \A s \in Shipment : shipment[s].trip # None =>
    LET t == shipment[s].trip IN
    /\ <<t, s>> \in assigned
    /\ Stored(t) \/ Building(t) \/ t \in failed

(* A trip that is published as departed, or completed, has taken every     *)
(* shipment on its list with it, but for those assigned after the          *)
(* departure or completion had read the list.                              *)
NobodyLeftBehind ==
  [][\A t \in Trip, s \in Shipment :
       /\ (t \in departed' \ departed /\ <<t, s>> \in assigned /\ <<t, s>> \notin late
             => <<t, s, "IN_TRANSIT">> \in handled)
       /\ (t \in finished' \ finished /\ <<t, s>> \in assigned /\ <<t, s>> \notin late
             => <<t, s, "DELIVERED">> \in handled)]_tripVars

(* The stores, read through the trip record, implement TripManifest: the   *)
(* several steps of a creation look like one.                              *)
Manifest == INSTANCE TripManifest WITH
  Absent <- None,
  ordered <- ordered,
  manifest <- [t \in Trip |-> IF Stored(t) THEN Riders(t) ELSE None]

ImplementsManifest == Manifest!Spec

=============================================================================
