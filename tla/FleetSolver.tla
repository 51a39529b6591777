------------------------------ MODULE FleetSolver ------------------------------
(***************************************************************************)
(* The greedy assignment of shipments to vehicles and drivers              *)
(* (runOptimization, src/src/lib/services/optimization.service.ts).        *)
(*                                                                         *)
(* The program is a loop over the vehicles with a loop over the shipments  *)
(* inside; a step of the specification is one turn of a loop, and the      *)
(* input is any that Init admits.  Distances, times and scores, which      *)
(* decide nothing, are left out.                                           *)
(***************************************************************************)
EXTENDS Integers, FiniteSets

CONSTANTS
  Shipments, Vehicles, Drivers,  \* how many of each the request names
  ShipmentKind, VehicleKind, DriverKind, \* what they may be like
  Steep,      \* grade in percent above which drivers need experience (12)
  Years,      \* the years of experience they need (3)
  None

ASSUME SolverAssumption ==
  /\ Shipments \in Nat \ {0} /\ Vehicles \in Nat /\ Drivers \in Nat
  /\ Steep \in Nat /\ Years \in Nat
  /\ \A k \in ShipmentKind :
       k \in [weight : Nat, volume : Nat, priority : 1..4, cold : BOOLEAN,
              grade : Nat, passable : BOOLEAN]
  /\ \A k \in VehicleKind :
       k \in [payload : Nat, room : Nat, cold : BOOLEAN, maxGrade : Nat,
              available : BOOLEAN, driver : 1..Drivers \cup {None}]
  /\ \A k \in DriverKind : k \in [years : Nat, available : BOOLEAN]
  /\ None \notin Int

Shipment == 1..Shipments
Vehicle == 1..Vehicles
Driver == 1..Drivers

VARIABLES
  ship, veh, drv, partial,  \* the request
  v,         \* the vehicle whose turn it is
  loading,   \* its shipments are being chosen
  seen,      \* shipments it has been offered
  load, room,  \* weight and volume taken so far
  driver,    \* its driver so far
  turn,      \* drivers handed out in rotation so far
  route,     \* the shipments of each vehicle
  crew,      \* the driver of each vehicle that carries any
  status

input == <<ship, veh, drv, partial>>
vars == <<input, v, loading, seen, load, room, driver, turn, route, crew, status>>

TypeOK ==
  /\ ship \in [Shipment -> ShipmentKind]
  /\ veh \in [Vehicle -> VehicleKind]
  /\ drv \in [Driver -> DriverKind]
  /\ partial \in BOOLEAN
  /\ v \in 1..(Vehicles + 1)
  /\ loading \in BOOLEAN /\ (loading => v \in Vehicle)
  /\ seen \in SUBSET Shipment
  /\ load \in Nat /\ room \in Nat
  /\ driver \in Driver \cup {None}
  /\ turn \in Nat
  /\ route \in [Vehicle -> SUBSET Shipment]
  /\ crew \in [Vehicle -> Driver \cup {None}]
  /\ status \in {"RUNNING", "OPTIMAL", "FEASIBLE", "INFEASIBLE"}

Init ==
  /\ ship \in [Shipment -> ShipmentKind]
  /\ veh \in [Vehicle -> VehicleKind]
  /\ drv \in [Driver -> DriverKind]
  /\ partial \in BOOLEAN
  /\ v = 1 /\ loading = FALSE /\ seen = {}
  /\ load = 0 /\ room = 0 /\ driver = None /\ turn = 0
  /\ route = [k \in Vehicle |-> {}]
  /\ crew = [k \in Vehicle |-> None]
  /\ status = "RUNNING"

-----------------------------------------------------------------------------

(* Plausible slip: only the vehicle's own list is looked at.               *)
AssignedHere == IF v \in Vehicle THEN route[v] ELSE {}

Assigned == {s \in Shipment : \E k \in Vehicle : s \in route[k]}

(* The drivers on duty, in the order the request names them.               *)
OnDuty == {d \in Driver : drv[d].available}
Rank(d) == Cardinality({e \in OnDuty : e < d})

(* Plausible slip: the sort is ascending.                                  *)
BeforeAscending(r, s) ==
  \/ ship[r].priority < ship[s].priority
  \/ ship[r].priority = ship[s].priority /\ r < s

(* The stable sort: higher priority first, then the order of the request.  *)
Before(r, s) ==
  \/ ship[r].priority > ship[s].priority
  \/ ship[r].priority = ship[s].priority /\ r < s

Offered(s) ==
  /\ s \in Shipment \ seen
  /\ \A r \in Shipment \ seen : ~Before(r, s)

(* The total demand exceeds the fleet: weighed one by one.                 *)
Total(f, n) ==
  LET sum[i \in 0..n] == IF i = 0 THEN 0 ELSE sum[i - 1] + f[i] IN sum[n]

TooMuch ==
  Total([s \in Shipment |-> ship[s].weight], Shipments)
    > Total([k \in Vehicle |-> veh[k].payload], Vehicles)

-----------------------------------------------------------------------------

(* No fleet, or more freight than it carries where all must be carried.    *)
Refuse ==
  /\ status = "RUNNING" /\ v = 1 /\ ~loading
  /\ Vehicles = 0 \/ (TooMuch /\ ~partial)
  /\ status' = "INFEASIBLE"
  /\ UNCHANGED <<input, v, loading, seen, load, room, driver, turn, route, crew>>

Accepted == Vehicles > 0 /\ (TooMuch => partial)

(* The vehicle's own driver if on duty, or the next in rotation.           *)
OpenVehicle ==
  /\ status = "RUNNING" /\ Accepted
  /\ v \in Vehicle /\ ~loading /\ veh[v].available /\ Assigned # Shipment
  /\ IF veh[v].driver \in OnDuty
     THEN driver' = veh[v].driver /\ turn' = turn
     ELSE IF OnDuty = {}
     THEN driver' = None /\ turn' = turn
     ELSE /\ driver' \in {d \in OnDuty : Rank(d) = turn % Cardinality(OnDuty)}
          /\ turn' = turn + 1
  /\ loading' = TRUE
  /\ UNCHANGED <<input, v, seen, load, room, route, crew, status>>

SkipVehicle ==
  /\ status = "RUNNING" /\ Accepted
  /\ v \in Vehicle /\ ~loading /\ ~veh[v].available
  /\ v' = v + 1
  /\ UNCHANGED <<input, loading, seen, load, room, driver, turn, route, crew, status>>

-----------------------------------------------------------------------------
(* One shipment offered to the vehicle. *)

(* Plausible slip: the shipment alone is compared with the vehicle.        *)
FitsAlone(s) == ship[s].weight <= veh[v].payload /\ ship[s].volume <= veh[v].room

Fits(s) ==
  /\ load + ship[s].weight <= veh[v].payload
  /\ room + ship[s].volume <= veh[v].room

Suits(s) ==
  /\ ship[s].cold => veh[v].cold
  /\ ship[s].grade <= veh[v].maxGrade

Able(d) == d # None => drv[d].years >= Years
(* Plausible slip: only the steepest sectors count.                        *)
NeedsSteepest(s) == ship[s].grade > 2 * Steep

Needs(s) == ship[s].grade > Steep

(* The driver for s: the present one, or the first able one on duty.       *)
Skilled == {d \in OnDuty : Able(d)}
Chosen(s) ==
  IF Needs(s) /\ ~Able(driver) /\ Skilled # {}
  THEN {d \in Skilled : \A e \in Skilled : d <= e}
  ELSE {driver}

Take(s) ==
  /\ load' = load + ship[s].weight /\ room' = room + ship[s].volume
  /\ route' = [route EXCEPT ![v] = @ \cup {s}]

(* A change of driver stays even if the corridor then proves closed.       *)
Consider(s) ==
  /\ status = "RUNNING" /\ loading /\ Offered(s)
  /\ seen' = seen \cup {s}
  /\ \E d \in Chosen(s) :
       IF s \notin Assigned /\ Fits(s) /\ Suits(s) /\ (Needs(s) => Able(d))
       THEN /\ driver' = d
            /\ IF ship[s].passable THEN Take(s) ELSE UNCHANGED <<load, room, route>>
       ELSE UNCHANGED <<driver, load, room, route>>
  /\ UNCHANGED <<input, v, loading, turn, crew, status>>

CloseVehicle ==
  /\ status = "RUNNING" /\ loading /\ seen = Shipment
  /\ crew' = IF route[v] # {} THEN [crew EXCEPT ![v] = driver] ELSE crew
  /\ v' = v + 1 /\ loading' = FALSE
  /\ seen' = {} /\ load' = 0 /\ room' = 0 /\ driver' = None
  /\ UNCHANGED <<input, turn, route, status>>

Finish ==
  /\ status = "RUNNING" /\ Accepted
  /\ ~loading
  /\ IF v \in Vehicle THEN veh[v].available /\ Assigned = Shipment ELSE TRUE
  /\ status' = IF Assigned = {} THEN "INFEASIBLE"
               ELSE IF Assigned # Shipment THEN "FEASIBLE" ELSE "OPTIMAL"
  /\ UNCHANGED <<input, v, loading, seen, load, room, driver, turn, route, crew>>

Next ==
  \/ Refuse \/ OpenVehicle \/ SkipVehicle \/ CloseVehicle \/ Finish
  \/ \E s \in Shipment : Consider(s)

Spec == Init /\ [][Next]_vars

-----------------------------------------------------------------------------
(* Properties. *)

(* What the shipments of T weigh together, and their volume.               *)
Weight(T) == Total([s \in Shipment |-> IF s \in T THEN ship[s].weight ELSE 0], Shipments)
Volume(T) == Total([s \in Shipment |-> IF s \in T THEN ship[s].volume ELSE 0], Shipments)

(* No vehicle is given more than it carries, counted over its whole list,  *)
(* nor cold freight without cooling, a grade beyond its limit or a closed  *)
(* corridor (docs/optimization-engine-architecture.md, 3.1).               *)
LoadsRespected ==
  \A k \in Vehicle :
    /\ Weight(route[k]) <= veh[k].payload /\ Volume(route[k]) <= veh[k].room
    /\ \A s \in route[k] :
         /\ ship[s].cold => veh[k].cold
         /\ ship[s].grade <= veh[k].maxGrade
         /\ ship[s].passable

(* However drivers were exchanged while the vehicle was loaded, the one    *)
(* that leaves with it is on duty and fit for every shipment on it; it     *)
(* leaves without only if nobody is on duty.                               *)
MountainDrivers ==
  \A k \in Vehicle : route[k] # {} /\ ~(loading /\ k = v) =>
    \/ crew[k] = None /\ OnDuty = {}
    \/ /\ crew[k] \in OnDuty
       /\ \A s \in route[k] : ship[s].grade > Steep => drv[crew[k]].years >= Years

(* No shipment is on two vehicles.                                         *)
ServedOnce == \A k, l \in Vehicle : k # l => route[k] \cap route[l] = {}

(* A shipment is left over for a reason that holds against each vehicle: a *)
(* constraint of its own, no able driver, or no place next to freight that *)
(* is at least as urgent.  Less urgent freight never keeps it out          *)
(* (docs/optimization-engine-architecture.md:173).                         *)
LeftForAReason ==
  status \in {"FEASIBLE", "OPTIMAL"} =>
    \A s \in Shipment \ Assigned, k \in Vehicle : veh[k].available =>
      LET urgent == {r \in route[k] : ship[r].priority >= ship[s].priority} IN
      \/ ~ship[s].passable
      \/ ship[s].cold /\ ~veh[k].cold
      \/ ship[s].grade > veh[k].maxGrade
      \/ ship[s].grade > Steep /\ \A d \in OnDuty : drv[d].years < Years
      \/ Weight(urgent) + ship[s].weight > veh[k].payload
      \/ Volume(urgent) + ship[s].volume > veh[k].room

=============================================================================
