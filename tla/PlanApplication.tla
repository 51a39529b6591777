---------------------------- MODULE PlanApplication ----------------------------
(***************************************************************************)
(* Approving, rejecting and applying the plan of an optimisation run       *)
(* (src/src/lib/services/optimization.service.ts), composed with the trip, *)
(* shipment, vehicle and driver stores it writes.                          *)
(*                                                                         *)
(* An application goes through the routes of the plan: it has a trip       *)
(* created (createTripRecord, the job of the same name in TripLifecycle),  *)
(* binds the shipments and locks the vehicle, and reports the plan applied *)
(* at the end.  Other requests, other applications among them, run between *)
(* its steps.                                                              *)
(***************************************************************************)
EXTENDS TripLifecycle, Sequences, FiniteSets

CONSTANTS
  App,   \* applications, each with the job that creates its trips
  Plan,  \* the routes: vehicle, driver (None if unknown), shipments
  Options, \* what an application may be asked to do
  MaxDecisions \* bound: approvals and rejections

(* What FleetSolver promises of a plan: no shipment is on two routes.      *)
ASSUME PlanAssumption ==
  /\ App \subseteq Job /\ MaxDecisions \in Nat
  /\ Plan \in Seq([vehicle : Vehicle, driver : Driver \cup {None}, riders : SUBSET Shipment])
  /\ Plan # <<>>
  /\ Options \subseteq [create : BOOLEAN, assign : BOOLEAN, lock : BOOLEAN]
  /\ \A i, k \in DOMAIN Plan : i # k => Plan[i].riders \cap Plan[k].riders = {}

VARIABLES
  approval,  \* the plan's approval status
  app,       \* what each application is at
  decisions,
  \* history
  invented,  \* trip ids that stand for a creation that failed
  made,      \* <<a, i, t>>: a has t for the trip of route i
  overlapped \* two applications have been under way at once

planVars == <<tripVars, approval, app, decisions, invented, made, overlapped>>

Route == DOMAIN Plan
Resting == [stage |-> "resting"]

(* quiet, since: history; was anything else under way when it began, and   *)
(* how many requests there had been; known: the shipments on record then.  *)
AppRecord ==
  {Resting} \cup
  [stage : {"route", "creating", "bind"}, at : 1..(Len(Plan) + 1), trip : Trip \cup {None},
   left : SUBSET Shipment, options : Options,
   quiet : BOOLEAN, since : 0..MaxRequests, known : SUBSET Shipment]

PlanTypeOK ==
  /\ TypeOK
  /\ approval \in {"PENDING", "APPROVED", "REJECTED", "APPLIED"}
  /\ app \in [App -> AppRecord]
  /\ decisions \in 0..MaxDecisions
  /\ invented \subseteq Trip
  /\ made \subseteq App \X Route \X Trip
  /\ overlapped \in BOOLEAN

PlanInit ==
  /\ TripInit
  /\ approval = "PENDING"
  /\ app = [a \in App |-> Resting]
  /\ decisions = 0
  /\ invented = {} /\ made = {} /\ overlapped = FALSE

Under(a) == app[a] # Resting
Here(a) == Plan[app[a].at]

-----------------------------------------------------------------------------
(* Decisions.  A rejected plan may be approved after all. *)

Approve ==
  /\ approval \in {"PENDING", "REJECTED"}
  /\ approval' = "APPROVED"

(* Plausible slip: an applied plan may be rejected.                        *)
RejectAnyway == approval' = "REJECTED"

Reject ==
  /\ approval # "APPLIED"
  /\ approval' = "REJECTED"

Decide ==
  /\ decisions < MaxDecisions /\ decisions' = decisions + 1
  /\ Approve \/ Reject
  /\ UNCHANGED <<tripVars, app, invented, made, overlapped>>

-----------------------------------------------------------------------------
(* applyOptimizationRun *)

Begin(a) ==
  /\ approval = "APPROVED"
  /\ app[a] = Resting
  /\ \E o \in Options :
       app' = [app EXCEPT ![a] =
         [stage |-> "route", at |-> 1, trip |-> None, left |-> {}, options |-> o,
          quiet |-> \A j \in Job : Free(j), since |-> requests,
          known |-> {s \in Shipment : Known(s)}]]
  /\ overlapped' = (overlapped \/ \E b \in App : Under(b))
  /\ UNCHANGED <<tripVars, approval, decisions, invented, made>>

AtRoute(a) == Under(a) /\ app[a].stage = "route" /\ app[a].at \in Route

(* An id no trip will ever have stands for the trip.                       *)
Invent(a, t) ==
  /\ ordered[t] = None
  /\ ordered' = [ordered EXCEPT ![t] = {}]
  /\ invented' = invented \cup {t}
  /\ made' = made \cup {<<a, app[a].at, t>>}
  /\ app' = [app EXCEPT ![a].stage = "bind", ![a].trip = t, ![a].left = Here(a).riders]
  /\ UNCHANGED <<records, job, requests, failed, handled, late, departed, finished,
                 approval, decisions, overlapped>>

Creatable(r) == r.driver # None /\ Fit(r.vehicle, r.driver)

StartTrip(a, t) ==
  /\ AtRoute(a) /\ app[a].options.create
  /\ \/ /\ Creatable(Here(a))
        /\ CreateTrip(a, t, Here(a).vehicle, Here(a).driver, Here(a).riders)
        /\ app' = [app EXCEPT ![a].stage = "creating", ![a].trip = t]
        /\ made' = made \cup {<<a, app[a].at, t>>}
        /\ UNCHANGED <<approval, decisions, invented, overlapped>>
     \/ ~Creatable(Here(a)) /\ Invent(a, t)

(* The creation has returned, or has failed half-way.                      *)
TripReturned(a) ==
  /\ Under(a) /\ app[a].stage = "creating" /\ Free(a) /\ Stored(app[a].trip)
  /\ app' = [app EXCEPT ![a].stage = "bind", ![a].left = Here(a).riders]
  /\ UNCHANGED <<tripVars, approval, decisions, invented, made, overlapped>>

TripFailed(a, t) ==
  /\ Under(a) /\ app[a].stage = "creating" /\ Free(a) /\ ~Stored(app[a].trip)
  /\ Invent(a, t)

NoTripWanted(a) ==
  /\ AtRoute(a) /\ ~app[a].options.create
  /\ app' = [app EXCEPT ![a].stage = "bind", ![a].trip = None, ![a].left = Here(a).riders]
  /\ UNCHANGED <<tripVars, approval, decisions, invented, made, overlapped>>

(* Plausible slip: the binding made by the creation is left alone, the     *)
(* trip of a failed one not entered.                                       *)
BindPlannedKeeping(a, s) ==
  /\ Under(a) /\ app[a].stage = "bind" /\ app[a].options.assign /\ s \in app[a].left
  /\ shipment' = IF Known(s) /\ app[a].trip \notin invented
                 THEN [shipment EXCEPT ![s] = [status |-> "ASSIGNED", trip |-> app[a].trip]]
                 ELSE shipment
  /\ app' = [app EXCEPT ![a].left = @ \ {s}]
  /\ UNCHANGED <<vehicle, driver, trip, assigned, job, requests, history,
                 approval, decisions, invented, made, overlapped>>

(* An unknown shipment is passed over.                                     *)
BindPlanned(a, s) ==
  /\ Under(a) /\ app[a].stage = "bind" /\ app[a].options.assign /\ s \in app[a].left
  /\ shipment' = IF Known(s)
                 THEN [shipment EXCEPT ![s] = [status |-> "ASSIGNED", trip |-> app[a].trip]]
                 ELSE shipment
  /\ app' = [app EXCEPT ![a].left = @ \ {s}]
  /\ UNCHANGED <<vehicle, driver, trip, assigned, job, requests, history,
                 approval, decisions, invented, made, overlapped>>

(* Plausible slip: the vehicle's status is named after the option.         *)
LockVehicleLocked(a) ==
  /\ Under(a) /\ app[a].stage = "bind" /\ (app[a].options.assign => app[a].left = {})
  /\ vehicle' = IF app[a].options.lock
                THEN [vehicle EXCEPT ![Here(a).vehicle].status = "LOCKED"]
                ELSE vehicle
  /\ app' = [app EXCEPT ![a].stage = "route", ![a].at = @ + 1, ![a].left = {}]
  /\ UNCHANGED <<shipment, driver, trip, assigned, job, requests, history,
                 approval, decisions, invented, made, overlapped>>

(* The vehicle is locked, whatever it is at, and the next route follows.   *)
LockVehicle(a) ==
  /\ Under(a) /\ app[a].stage = "bind" /\ (app[a].options.assign => app[a].left = {})
  /\ vehicle' = IF app[a].options.lock
                THEN [vehicle EXCEPT ![Here(a).vehicle].status = "ASSIGNED",
                                     ![Here(a).vehicle].driver = Here(a).driver]
                ELSE vehicle
  /\ app' = [app EXCEPT ![a].stage = "route", ![a].at = @ + 1, ![a].left = {}]
  /\ UNCHANGED <<shipment, driver, trip, assigned, job, requests, history,
                 approval, decisions, invented, made, overlapped>>

(* The plan is applied, whatever was decided meanwhile.                    *)
End(a) ==
  /\ Under(a) /\ app[a].stage = "route" /\ app[a].at = Len(Plan) + 1
  /\ approval' = "APPLIED"
  /\ app' = [app EXCEPT ![a] = Resting]
  /\ UNCHANGED <<tripVars, decisions, invented, made, overlapped>>

Application ==
  \E a \in App :
    \/ Begin(a) \/ TripReturned(a) \/ NoTripWanted(a) \/ LockVehicle(a) \/ End(a)
    \/ \E t \in Trip : StartTrip(a, t) \/ TripFailed(a, t)
    \/ \E s \in Shipment : BindPlanned(a, s)

-----------------------------------------------------------------------------

(* The requests that take from an application what it counts on; those     *)
(* that move trips are left to TripLifecycle.                              *)
Others ==
  /\ \/ \E j \in Job : ContinueCreation(j) \/ TakeDriver(j)
     \/ /\ \/ \E s \in Shipment : CancelShipment(s) \/ (\E t \in Trip : Assign(t, s))
           \/ \E v \in Vehicle : EditVehicle(v)
           \/ \E d \in Driver : EditDriver(d)
        /\ requests < MaxRequests /\ requests' = requests + 1
     \/ \E s \in Shipment : CreateShipment(s) /\ UNCHANGED requests
  /\ UNCHANGED <<approval, app, decisions, invented, made, overlapped>>

PlanNext == Decide \/ Application \/ Others

PlanSpec == PlanInit /\ [][PlanNext]_planVars

-----------------------------------------------------------------------------
(* Properties. *)

(* A shipment is bound to a trip that exists, is being created, or stands  *)
(* for a creation that failed: neither an application nor what runs beside *)
(* it leaves any other phantom.                                            *)
PlanPhantoms ==
  \A s \in Shipment : shipment[s].trip # None =>
    LET t == shipment[s].trip IN
    /\ Stored(t) \/ Building(t) \/ t \in failed \cup invented
    /\ t \in invented \/ <<t, s>> \in assigned

(* As long as applications do not overlap, a route is given one trip, for  *)
(* all the approvals and rejections in between.                            *)
RouteAppliedOnce ==
  ~overlapped =>
    \A i \in Route :
      Cardinality({t \in Trip \ invented : \E a \in App : <<a, i, t>> \in made}) <= 1

(* An application nothing interfered with leaves every shipment of the     *)
(* plan that was on record assigned to the trip it has for the route, and  *)
(* every vehicle taken, also where the creation of the trip failed.        *)
PlanCarriedOut ==
  \A a \in App :
    /\ Under(a) /\ app[a].at = Len(Plan) + 1
    /\ app[a].options = [create |-> TRUE, assign |-> TRUE, lock |-> TRUE]
    /\ app[a].quiet /\ app[a].since = requests /\ ~overlapped
    => \A i \in Route :
         /\ vehicle[Plan[i].vehicle].status = "ASSIGNED"
         /\ \A s \in Plan[i].riders \cap app[a].known :
              /\ shipment[s].status = "ASSIGNED"
              /\ <<a, i, shipment[s].trip>> \in made

(* Claim (docs/optimization-engine-architecture.md:139, "APPLIED: Creates  *)
(* active trips"): the shipments of an applied plan are on trips that      *)
(* exist.                                                                  *)
AppliedPlanHasTrips ==
  approval = "APPLIED" /\ requests = 0 =>
    \A i \in Route : \A s \in Plan[i].riders :
      shipment[s].trip # None => Stored(shipment[s].trip)
=============================================================================
