--------------------------- MODULE FleetSolverProofs ---------------------------
(***************************************************************************)
(* Proofs about FleetSolver, for requests of any size and any kinds of     *)
(* shipments, vehicles and drivers.                                        *)
(***************************************************************************)
EXTENDS FleetSolver, TLAPS, WellFoundedInduction

LEMMA Sizes == Shipments \in Nat \ {0} /\ Vehicles \in Nat /\ Drivers \in Nat
BY SolverAssumption

LEMMA InitTyped == Init => TypeOK
<1> SUFFICES ASSUME Init PROVE TypeOK
  OBVIOUS
<1>1. v \in 1..(Vehicles + 1) /\ load \in Nat /\ room \in Nat /\ turn \in Nat
  BY Sizes DEF Init
<1>2. /\ loading \in BOOLEAN /\ (loading => v \in Vehicle)
      /\ driver \in Driver \cup {None} /\ status \in {"RUNNING", "OPTIMAL", "FEASIBLE", "INFEASIBLE"}
  BY DEF Init
<1>3. route \in [Vehicle -> SUBSET Shipment] /\ crew \in [Vehicle -> Driver \cup {None}]
  BY DEF Init
<1>4. seen \in SUBSET Shipment
  BY DEF Init
<1> QED BY <1>1, <1>2, <1>3, <1>4 DEF Init, TypeOK

LEMMA ShipmentFields ==
  ASSUME TypeOK, NEW s \in Shipment
  PROVE  /\ ship[s].weight \in Nat /\ ship[s].volume \in Nat /\ ship[s].grade \in Nat
         /\ ship[s].cold \in BOOLEAN /\ ship[s].passable \in BOOLEAN
<1>1. ship[s] \in ShipmentKind
  BY DEF TypeOK
<1>2. ship[s] \in [weight : Nat, volume : Nat, priority : 1..4, cold : BOOLEAN,
                   grade : Nat, passable : BOOLEAN]
  BY <1>1, SolverAssumption
<1> QED BY <1>2

LEMMA DutyTyped ==
  ASSUME TypeOK
  PROVE  OnDuty \subseteq Driver /\ Skilled \subseteq OnDuty /\ None \notin Driver
BY SolverAssumption DEF OnDuty, Skilled, Driver

LEMMA ChosenTyped ==
  ASSUME TypeOK, NEW s \in Shipment, NEW d \in Chosen(s)
  PROVE  \/ d = driver
         \/ Needs(s) /\ d \in OnDuty /\ Able(d)
BY DEF Chosen, Skilled

(* One turn of the inner loop. *)
LEMMA ConsiderStep ==
  ASSUME TypeOK, NEW s \in Shipment, Consider(s)
  PROVE  \E d \in Driver \cup {None} :
           /\ driver' = d
           /\ d = driver \/ (d \in OnDuty /\ Able(d))
           /\ \/ UNCHANGED <<load, room, route>>
              \/ Take(s) /\ s \notin Assigned /\ Fits(s) /\ Suits(s) /\ (Needs(s) => Able(d))
                 /\ ship[s].passable
<1>1. PICK d \in Chosen(s) :
        IF s \notin Assigned /\ Fits(s) /\ Suits(s) /\ (Needs(s) => Able(d))
        THEN /\ driver' = d
             /\ IF ship[s].passable THEN Take(s) ELSE UNCHANGED <<load, room, route>>
        ELSE UNCHANGED <<driver, load, room, route>>
  BY DEF Consider
<1>2. d \in Driver \cup {None} /\ (d = driver \/ (d \in OnDuty /\ Able(d)))
  BY ChosenTyped, DutyTyped DEF TypeOK
<1>3. driver \in Driver \cup {None}
  BY DEF TypeOK
<1>4. CASE s \notin Assigned /\ Fits(s) /\ Suits(s) /\ (Needs(s) => Able(d))
  BY <1>1, <1>2, <1>4
<1>5. CASE ~(s \notin Assigned /\ Fits(s) /\ Suits(s) /\ (Needs(s) => Able(d)))
  BY <1>1, <1>3, <1>5
<1> QED BY <1>4, <1>5

LEMMA StepTyped == TypeOK /\ [Next]_vars => TypeOK'
<1> SUFFICES ASSUME TypeOK, [Next]_vars PROVE TypeOK'
  OBVIOUS
<1>1. CASE Refuse
  BY <1>1 DEF Refuse, TypeOK, input
<1>2. CASE OpenVehicle
  <2>1. driver' \in Driver \cup {None} /\ turn' \in Nat
    BY <1>2, DutyTyped DEF OpenVehicle, TypeOK
  <2> QED BY <1>2, <2>1 DEF OpenVehicle, TypeOK, input
<1>3. CASE SkipVehicle
  BY <1>3, Sizes DEF SkipVehicle, TypeOK, input, Vehicle
<1>4. CASE CloseVehicle
  <2>1. v' \in 1..(Vehicles + 1) /\ load' \in Nat /\ room' \in Nat
    BY <1>4, Sizes DEF CloseVehicle, TypeOK, Vehicle
  <2>2. crew' \in [Vehicle -> Driver \cup {None}]
    BY <1>4 DEF CloseVehicle, TypeOK
  <2> QED BY <1>4, <2>1, <2>2 DEF CloseVehicle, TypeOK, input
<1>5. CASE Finish
  BY <1>5 DEF Finish, TypeOK, input
<1>6. ASSUME NEW s \in Shipment, Consider(s)
      PROVE  TypeOK'
  <2>1. driver' \in Driver \cup {None}
    BY <1>6, ConsiderStep
  <2>2. loading /\ v \in Vehicle /\ UNCHANGED <<input, v, loading, turn, crew, status>>
        /\ seen' \in SUBSET Shipment
    BY <1>6 DEF Consider, TypeOK
  <2>3. CASE UNCHANGED <<load, room, route>>
    BY <2>1, <2>2, <2>3 DEF TypeOK, input
  <2>4. CASE Take(s)
    <3>1. load' \in Nat /\ room' \in Nat
      BY <2>4, ShipmentFields DEF Take, TypeOK
    <3>2. route' \in [Vehicle -> SUBSET Shipment]
      BY <2>2, <2>4, <1>6 DEF Take, TypeOK
    <3> QED BY <2>1, <2>2, <3>1, <3>2 DEF TypeOK, input
  <2> QED BY <1>6, <2>3, <2>4, ConsiderStep
<1>7. CASE UNCHANGED vars
  BY <1>7 DEF vars, input, TypeOK
<1> QED BY <1>1, <1>2, <1>3, <1>4, <1>5, <1>6, <1>7 DEF Next

(* The solver's state keeps its types: in particular the loop over the     *)
(* vehicles ends after the last one and never loads a vehicle that is not  *)
(* there (runOptimization).                                                *)
THEOREM SolverTyped == Spec => []TypeOK
BY InitTyped, StepTyped, PTL DEF Spec

-----------------------------------------------------------------------------
(* No shipment is assigned twice. *)

(* What a step does to the routes: nothing, or one unassigned shipment is  *)
(* added to the vehicle that is being loaded.                              *)
LEMMA RouteStep ==
  ASSUME TypeOK, [Next]_vars
  PROVE  \/ route' = route
         \/ /\ v \in Vehicle /\ loading /\ UNCHANGED <<v, loading, crew, ship, drv>>
            /\ \E s \in Shipment : s \notin Assigned /\ route' = [route EXCEPT ![v] = @ \cup {s}]
                                   /\ (Needs(s) => Able(driver)')
<1>1. ASSUME NEW s \in Shipment, Consider(s)
      PROVE  \/ route' = route
             \/ /\ v \in Vehicle /\ loading /\ UNCHANGED <<v, loading, crew, ship, drv>>
                /\ s \notin Assigned /\ route' = [route EXCEPT ![v] = @ \cup {s}]
                /\ (Needs(s) => Able(driver)')
  <2>1. loading /\ v \in Vehicle /\ UNCHANGED <<v, loading, crew, ship, drv>>
    BY <1>1 DEF Consider, TypeOK, input
  <2>2. PICK d \in Driver \cup {None} :
           /\ driver' = d
           /\ \/ UNCHANGED <<load, room, route>>
              \/ Take(s) /\ s \notin Assigned /\ (Needs(s) => Able(d))
    BY <1>1, ConsiderStep
  <2>3. Able(d) => Able(driver)'
    BY <2>1, <2>2 DEF Able
  <2> QED BY <2>1, <2>2, <2>3 DEF Take
<1>2. \/ route' = route
      \/ \E s \in Shipment : Consider(s)
  BY DEF Next, Refuse, OpenVehicle, SkipVehicle, CloseVehicle, Finish, vars
<1> QED BY <1>1, <1>2

(* The set the loops share keeps every shipment on one vehicle at most     *)
(* (runOptimization, assignedShipmentIds).                                 *)
THEOREM EveryShipmentOnce == Spec => []ServedOnce
<1>1. Init => ServedOnce
  BY DEF Init, ServedOnce
<1>2. TypeOK /\ ServedOnce /\ [Next]_vars => ServedOnce'
  BY RouteStep DEF ServedOnce, Assigned, TypeOK
<1> QED BY <1>1, <1>2, InitTyped, StepTyped, PTL DEF Spec

-----------------------------------------------------------------------------
(* Drivers in the mountains. *)

FitFor(d, T) ==
  \/ d = None /\ OnDuty = {}
  \/ d \in OnDuty /\ \A s \in T : Needs(s) => Able(d)

CrewInv ==
  /\ TypeOK
  /\ loading => FitFor(driver, route[v])
  /\ \A k \in Vehicle : k > v \/ (k = v /\ ~loading) => route[k] = {}
  /\ \A k \in Vehicle : k < v => route[k] = {} \/ FitFor(crew[k], route[k])

LEMMA CrewConsider ==
  ASSUME CrewInv, NEW s \in Shipment, Consider(s)
  PROVE  CrewInv'
<1> TypeOK /\ [Next]_vars
  BY DEF CrewInv, Next
<1>1. loading /\ v \in Vehicle /\ UNCHANGED <<v, loading, crew, ship, drv>>
  BY DEF Consider, TypeOK, input
<1>2. TypeOK'
  BY StepTyped
<1>3. OnDuty' = OnDuty /\ None \notin OnDuty /\ \A r : Needs(r)' = Needs(r)
  BY <1>1, DutyTyped DEF OnDuty, Needs
<1>4. PICK d \in Driver \cup {None} :
        /\ driver' = d
        /\ d = driver \/ (d \in OnDuty /\ Able(d))
        /\ \/ route' = route
           \/ route' = [route EXCEPT ![v] = @ \cup {s}] /\ (Needs(s) => Able(d))
  BY ConsiderStep DEF Take
<1>5. \A e \in Driver \cup {None} : Able(e)' = Able(e)
  BY <1>1 DEF Able
<1>6. FitFor(d, route'[v])
  <2>1. FitFor(driver, route[v])
    BY <1>1 DEF CrewInv
  <2>2. \A r \in route'[v] : r \in route[v] \/ (r = s /\ (Needs(s) => Able(d)))
    BY <1>1, <1>4 DEF TypeOK
  <2>3. CASE d = driver
    BY <2>1, <2>2, <2>3 DEF FitFor
  <2>4. CASE d \in OnDuty /\ Able(d)
    BY <2>4 DEF FitFor
  <2> QED BY <1>4, <2>3, <2>4
<1>7. FitFor(driver, route[v])'
  BY <1>1, <1>3, <1>4, <1>5, <1>6 DEF FitFor
<1>8. \A k \in Vehicle : k # v => route'[k] = route[k]
  BY <1>4 DEF TypeOK
<1>9. ASSUME NEW k \in Vehicle, k < v
      PROVE  route'[k] = {} \/ FitFor(crew[k], route[k])'
  <2>1. k # v /\ crew[k] \in Driver \cup {None}
    BY <1>1, <1>9 DEF Vehicle, TypeOK
  <2>2. route[k] = {} \/ FitFor(crew[k], route[k])
    BY <1>9 DEF CrewInv
  <2> QED BY <1>1, <1>3, <1>5, <1>8, <2>1, <2>2 DEF FitFor
<1>10. ASSUME NEW k \in Vehicle, k > v PROVE route'[k] = {}
  BY <1>1, <1>8, <1>10 DEF CrewInv, Vehicle
<1> QED BY <1>1, <1>2, <1>7, <1>9, <1>10 DEF CrewInv

LEMMA CrewStep == CrewInv /\ [Next]_vars => CrewInv'
<1> SUFFICES ASSUME CrewInv, [Next]_vars PROVE CrewInv'
  OBVIOUS
<1> TypeOK
  BY DEF CrewInv
<1>1. TypeOK'
  BY StepTyped
<1>2. CASE \E s \in Shipment : Consider(s)
  BY <1>2, CrewConsider
<1>3. CASE OpenVehicle
  <2>1. /\ v \in Vehicle /\ ~loading /\ loading' /\ UNCHANGED <<ship, drv, v, route, crew>>
        /\ route[v] = {}
    BY <1>3 DEF OpenVehicle, input, CrewInv
  <2>2. (driver' = None /\ OnDuty = {}) \/ driver' \in OnDuty
    BY <1>3 DEF OpenVehicle
  <2>3. FitFor(driver, route[v])'
    BY <2>1, <2>2 DEF FitFor, OnDuty
  <2>4. \A k \in Vehicle : FitFor(crew[k], route[k])' = FitFor(crew[k], route[k])
    BY <2>1 DEF FitFor, OnDuty, Needs, Able
  <2> QED BY <1>1, <2>1, <2>3, <2>4 DEF CrewInv
<1>4. CASE SkipVehicle
  <2>1. /\ v \in Vehicle /\ ~loading /\ ~loading' /\ v' = v + 1
        /\ UNCHANGED <<ship, drv, route, crew>> /\ route[v] = {}
    BY <1>4 DEF SkipVehicle, input, CrewInv
  <2>2. \A k \in Vehicle : (k < v + 1 => k < v \/ k = v) /\ (k > v + 1 \/ k = v + 1 => k > v)
    BY <2>1 DEF Vehicle
  <2>3. \A k \in Vehicle : FitFor(crew[k], route[k])' = FitFor(crew[k], route[k])
    BY <2>1 DEF FitFor, OnDuty, Needs, Able
  <2> QED BY <1>1, <2>1, <2>2, <2>3 DEF CrewInv
<1>5. CASE CloseVehicle
  <2>1. /\ v \in Vehicle /\ loading /\ ~loading' /\ v' = v + 1
        /\ UNCHANGED <<ship, drv, route>>
        /\ crew' = IF route[v] # {} THEN [crew EXCEPT ![v] = driver] ELSE crew
    BY <1>5 DEF CloseVehicle, input, TypeOK
  <2>2. \A k \in Vehicle : (k < v + 1 => k < v \/ k = v) /\ (k > v + 1 \/ k = v + 1 => k > v)
                           /\ (k < v => k # v)
    BY <2>1 DEF Vehicle
  <2>3. \A e, k : FitFor(e, route[k]) => \A c : c = e => FitFor(c, route[k])
    OBVIOUS
  <2>4. \A k \in Vehicle : k # v => crew'[k] = crew[k]
    BY <2>1 DEF TypeOK
  <2>5. route[v] # {} => crew'[v] = driver
    BY <2>1 DEF TypeOK
  <2>6. FitFor(driver, route[v])
    BY <2>1 DEF CrewInv
  <2>7. \A k \in Vehicle : k < v + 1 => route[k] = {} \/ FitFor(crew'[k], route[k])
    BY <2>2, <2>4, <2>5, <2>6 DEF CrewInv
  <2>8. \A k \in Vehicle : FitFor(crew'[k], route[k]) => FitFor(crew[k], route[k])'
    BY <2>1 DEF FitFor, OnDuty, Needs, Able
  <2> QED BY <1>1, <2>1, <2>2, <2>7, <2>8 DEF CrewInv
<1>6. CASE UNCHANGED <<ship, drv, v, loading, driver, route, crew>>
  BY <1>1, <1>6 DEF CrewInv, FitFor, OnDuty, Needs, Able
<1>7. Refuse \/ Finish \/ UNCHANGED vars => UNCHANGED <<ship, drv, v, loading, driver, route, crew>>
  BY DEF Refuse, Finish, vars, input
<1> QED BY <1>2, <1>3, <1>4, <1>5, <1>6, <1>7 DEF Next

(* Whatever exchanges of drivers the loops make, a vehicle that carries    *)
(* freight up a steep sector has a driver able to take it (runOptimization,*)
(* the driver checks).                                                     *)
THEOREM DriversFit == Spec => []MountainDrivers
<1>1. Init => CrewInv
  BY InitTyped DEF Init, CrewInv
<1>2. CrewInv => MountainDrivers
  <2> SUFFICES ASSUME CrewInv, NEW k \in Vehicle, route[k] # {}, ~(loading /\ k = v)
               PROVE  \/ crew[k] = None /\ OnDuty = {}
                      \/ /\ crew[k] \in OnDuty
                         /\ \A s \in route[k] : ship[s].grade > Steep => drv[crew[k]].years >= Years
    BY DEF MountainDrivers
  <2>1. k < v
    BY DEF CrewInv, TypeOK, Vehicle
  <2>2. FitFor(crew[k], route[k]) /\ TypeOK
    BY <2>1 DEF CrewInv
  <2>3. None \notin OnDuty
    BY <2>2, DutyTyped
  <2> QED BY <2>2, <2>3 DEF FitFor, Needs, Able
<1> QED BY <1>1, <1>2, CrewStep, PTL DEF Spec
-----------------------------------------------------------------------------
(* Sums.  Total sums a function up from 1, by recursion; what it returns   *)
(* is found by climbing from one number to the next.                       *)

(* Induction over the naturals, for a set. *)
LEMMA Climb ==
  ASSUME NEW S, 0 \in S, \A i \in Nat : i \in S => i + 1 \in S
  PROVE  Nat \subseteq S
<1> DEFINE Out == Nat \ S
<1>1. SUFFICES ASSUME Out # {} PROVE FALSE
  OBVIOUS
<1>2. PICK m \in Out : \A n \in Out : ~(<<n, m>> \in OpToRel(<, Nat))
  BY <1>1, NatLessThanWellFounded, WFMin
<1>3. m \in Nat /\ m # 0 /\ m \notin S
  BY <1>2
<1>4. m - 1 \in Nat /\ m - 1 < m /\ (m - 1) + 1 = m
  BY <1>3
<1>5. m - 1 \in Out
  BY <1>3, <1>4
<1>6. <<m - 1, m>> \in OpToRel(<, Nat)
  BY <1>3, <1>4 DEF OpToRel
<1> QED BY <1>2, <1>5, <1>6

(* g is the function of the partial sums of f. *)
Sums(g, f, n) ==
  g = [i \in 0..n |-> IF i = 0 THEN 0 ELSE g[i - 1] + f[i]]

LEMMA SumsStep ==
  ASSUME NEW n \in Nat, NEW f, NEW g, Sums(g, f, n)
  PROVE  g[0] = 0 /\ \A m \in 1..n : g[m] = g[m - 1] + f[m]
BY DEF Sums

LEMMA SumsExist ==
  ASSUME NEW n \in Nat, NEW f \in [1..n -> Nat]
  PROVE  \E g \in [0..n -> Nat] : Sums(g, f, n)
<1> DEFINE P == {m \in Nat : m <= n => \E g \in [0..m -> Nat] : Sums(g, f, m)}
<1>1. 0 \in P
  <2> DEFINE z == [i \in 0..0 |-> 0]
  <2>1. z \in [0..0 -> Nat] /\ Sums(z, f, 0)
    BY DEF Sums
  <2> QED BY <2>1
<1>2. ASSUME NEW m \in Nat, m \in P PROVE m + 1 \in P
  <2> SUFFICES ASSUME m + 1 <= n PROVE \E g \in [0..(m + 1) -> Nat] : Sums(g, f, m + 1)
    OBVIOUS
  <2>1. PICK g \in [0..m -> Nat] : Sums(g, f, m)
    BY <1>2
  <2> DEFINE h == [i \in 0..(m + 1) |-> IF i <= m THEN g[i] ELSE g[m] + f[m + 1]]
  <2>2. f[m + 1] \in Nat /\ g[m] \in Nat
    BY <2>1
  <2>3. h \in [0..(m + 1) -> Nat]
    BY <2>1, <2>2
  <2>4. ASSUME NEW i \in 0..(m + 1)
        PROVE  h[i] = IF i = 0 THEN 0 ELSE h[i - 1] + f[i]
    <3>1. CASE i = 0
      BY <2>1, <3>1 DEF Sums
    <3>2. CASE i \in 1..m
      <4>1. h[i] = g[i] /\ h[i - 1] = g[i - 1]
        BY <3>2
      <4>2. g[i] = g[i - 1] + f[i]
        BY <2>1, <3>2 DEF Sums
      <4> QED BY <3>2, <4>1, <4>2
    <3>3. CASE i = m + 1
      <4>1. h[i] = g[m] + f[m + 1] /\ h[i - 1] = g[m]
        BY <3>3
      <4> QED BY <3>3, <4>1
    <3> QED BY <3>1, <3>2, <3>3
  <2>5. Sums(h, f, m + 1)
    BY <2>3, <2>4 DEF Sums
  <2> QED BY <2>3, <2>5
<1> HIDE DEF P
<1>3. Nat \subseteq P
  BY <1>1, <1>2, Climb
<1> QED BY <1>3 DEF P

LEMMA SumsTyped ==
  ASSUME NEW n \in Nat, NEW f \in [1..n -> Nat], NEW g, Sums(g, f, n)
  PROVE  g \in [0..n -> Nat]
<1> DEFINE P == {m \in Nat : m <= n => g[m] \in Nat}
<1>1. 0 \in P
  BY DEF Sums
<1>2. ASSUME NEW m \in Nat, m \in P PROVE m + 1 \in P
  <2>1. m + 1 <= n => g[m + 1] = g[m] + f[m + 1]
    BY DEF Sums
  <2>2. m + 1 <= n => f[m + 1] \in Nat
    OBVIOUS
  <2> QED BY <1>2, <2>1, <2>2
<1> HIDE DEF P
<1>3. Nat \subseteq P
  BY <1>1, <1>2, Climb
<1>4. \A i \in 0..n : g[i] \in Nat
  BY <1>3 DEF P
<1>5. DOMAIN g = 0..n /\ g = [i \in 0..n |-> g[i]]
  BY DEF Sums
<1> QED BY <1>4, <1>5

(* What Total returns. *)
LEMMA TotalIsSum ==
  ASSUME NEW n \in Nat, NEW f \in [1..n -> Nat]
  PROVE  \E g \in [0..n -> Nat] : Sums(g, f, n) /\ Total(f, n) = g[n]
<1>1. PICK h \in [0..n -> Nat] : Sums(h, f, n)
  BY SumsExist
<1> DEFINE g == CHOOSE g : Sums(g, f, n)
<1>2. Sums(g, f, n)
  BY <1>1
<1>3. Total(f, n) = g[n]
  BY DEF Total, Sums
<1>4. g \in [0..n -> Nat]
  BY <1>2, SumsTyped
<1> QED BY <1>2, <1>3, <1>4

(* One summand grows by w, and so does the sum. *)
LEMMA TotalOneMore ==
  ASSUME NEW n \in Nat, NEW f \in [1..n -> Nat], NEW h \in [1..n -> Nat],
         NEW s \in 1..n, NEW w \in Nat,
         h[s] = f[s] + w, \A i \in 1..n : i # s => h[i] = f[i]
  PROVE  Total(h, n) = Total(f, n) + w
<1>1. PICK g \in [0..n -> Nat] : Sums(g, f, n) /\ Total(f, n) = g[n]
  BY TotalIsSum
<1>2. PICK k \in [0..n -> Nat] : Sums(k, h, n) /\ Total(h, n) = k[n]
  BY TotalIsSum
<1>3. /\ g[0] = 0 /\ \A m \in 1..n : g[m] = g[m - 1] + f[m]
      /\ k[0] = 0 /\ \A m \in 1..n : k[m] = k[m - 1] + h[m]
  BY <1>1, <1>2, SumsStep
<1> DEFINE Past(m) == (m < s => k[m] = g[m]) /\ (m >= s => k[m] = g[m] + w)
<1>4. ASSUME NEW m \in 1..n, Past(m - 1)
      PROVE  Past(m)
  <2>1. m - 1 \in 0..n /\ g[m - 1] \in Nat /\ f[m] \in Nat
    OBVIOUS
  <2>2. g[m] = g[m - 1] + f[m] /\ k[m] = k[m - 1] + h[m]
    BY <1>3
  <2>3. CASE m < s
    <3>1. k[m - 1] = g[m - 1] /\ h[m] = f[m]
      BY <1>4, <2>3
    <3> QED BY <2>2, <2>3, <3>1
  <2>4. CASE m = s
    <3>1. k[m - 1] = g[m - 1] /\ h[m] = f[m] + w
      BY <1>4, <2>4
    <3> QED BY <2>1, <2>2, <2>4, <3>1
  <2>5. CASE m > s
    <3>1. k[m - 1] = g[m - 1] + w /\ h[m] = f[m]
      BY <1>4, <2>5
    <3> QED BY <2>1, <2>2, <2>5, <3>1
  <2> QED BY <2>3, <2>4, <2>5
<1>5. Past(0)
  BY <1>3
<1> HIDE DEF Past
<1> DEFINE P == {m \in Nat : m <= n => Past(m)}
<1>6. 0 \in P
  BY <1>5
<1>7. ASSUME NEW m \in Nat, m \in P PROVE m + 1 \in P
  <2>1. m + 1 \in Nat /\ (m + 1) - 1 = m /\ (m + 1 <= n => m + 1 \in 1..n /\ Past(m))
    BY <1>7
  <2> QED BY <1>4, <2>1
<1> HIDE DEF P
<1>8. n \in P
  BY <1>6, <1>7, Climb
<1> QED BY <1>1, <1>2, <1>8 DEF P, Past

(* No summand is less, and neither is the sum. *)
LEMMA TotalNoLess ==
  ASSUME NEW n \in Nat, NEW f \in [1..n -> Nat], NEW h \in [1..n -> Nat],
         \A i \in 1..n : f[i] <= h[i]
  PROVE  Total(f, n) <= Total(h, n)
<1>1. PICK g \in [0..n -> Nat] : Sums(g, f, n) /\ Total(f, n) = g[n]
  BY TotalIsSum
<1>2. PICK k \in [0..n -> Nat] : Sums(k, h, n) /\ Total(h, n) = k[n]
  BY TotalIsSum
<1>3. /\ g[0] = 0 /\ \A m \in 1..n : g[m] = g[m - 1] + f[m]
      /\ k[0] = 0 /\ \A m \in 1..n : k[m] = k[m - 1] + h[m]
  BY <1>1, <1>2, SumsStep
<1>4. ASSUME NEW m \in 1..n, g[m - 1] <= k[m - 1]
      PROVE  g[m] <= k[m]
  <2>1. g[m - 1] \in Nat /\ k[m - 1] \in Nat /\ f[m] \in Nat /\ h[m] \in Nat
    OBVIOUS
  <2> QED BY <1>3, <1>4, <2>1
<1> DEFINE P == {m \in Nat : m <= n => g[m] <= k[m]}
<1>5. 0 \in P
  BY <1>3
<1>6. ASSUME NEW m \in Nat, m \in P PROVE m + 1 \in P
  <2>1. m + 1 \in Nat /\ (m + 1) - 1 = m
        /\ (m + 1 <= n => m + 1 \in 1..n /\ g[m] <= k[m])
    BY <1>6
  <2> QED BY <1>4, <2>1
<1> HIDE DEF P
<1>7. n \in P
  BY <1>5, <1>6, Climb
<1> QED BY <1>1, <1>2, <1>7 DEF P

LEMMA TotalOfNothing ==
  ASSUME NEW n \in Nat, NEW f \in [1..n -> {0}]
  PROVE  Total(f, n) = 0
<1> f \in [1..n -> Nat]
  OBVIOUS
<1>1. PICK g \in [0..n -> Nat] : Sums(g, f, n) /\ Total(f, n) = g[n]
  BY TotalIsSum
<1>2. g[0] = 0 /\ \A m \in 1..n : g[m] = g[m - 1] + f[m]
  BY <1>1, SumsStep
<1>3. ASSUME NEW m \in 1..n, g[m - 1] = 0
      PROVE  g[m] = 0
  BY <1>2, <1>3
<1> DEFINE P == {m \in Nat : m <= n => g[m] = 0}
<1>4. 0 \in P
  BY <1>2
<1>5. ASSUME NEW m \in Nat, m \in P PROVE m + 1 \in P
  <2>1. m + 1 \in Nat /\ (m + 1) - 1 = m
        /\ (m + 1 <= n => m + 1 \in 1..n /\ g[m] = 0)
    BY <1>5
  <2> QED BY <1>3, <2>1
<1> HIDE DEF P
<1>6. n \in P
  BY <1>4, <1>5, Climb
<1> QED BY <1>1, <1>6 DEF P

(* Weights and volumes of sets of shipments. *)
LEMMA Weighed ==
  ASSUME TypeOK, NEW T
  PROVE  /\ [s \in Shipment |-> IF s \in T THEN ship[s].weight ELSE 0] \in [1..Shipments -> Nat]
         /\ [s \in Shipment |-> IF s \in T THEN ship[s].volume ELSE 0] \in [1..Shipments -> Nat]
BY ShipmentFields DEF Shipment

LEMMA WeightTyped ==
  ASSUME TypeOK, NEW T
  PROVE  Weight(T) \in Nat /\ Volume(T) \in Nat
<1>1. \A f \in [1..Shipments -> Nat] : Total(f, Shipments) \in Nat
  BY Sizes, TotalIsSum
<1> QED BY <1>1, Weighed DEF Weight, Volume

LEMMA WeightOfNothing ==
  ASSUME TypeOK
  PROVE  Weight({}) = 0 /\ Volume({}) = 0
<1>1. \A f \in [1..Shipments -> {0}] : Total(f, Shipments) = 0
  BY Sizes, TotalOfNothing
<1> QED BY <1>1 DEF Weight, Volume, Shipment

LEMMA WeightOneMore ==
  ASSUME TypeOK, NEW T, NEW s \in Shipment, s \notin T
  PROVE  /\ Weight(T \cup {s}) = Weight(T) + ship[s].weight
         /\ Volume(T \cup {s}) = Volume(T) + ship[s].volume
<1>1. ASSUME NEW f \in [1..Shipments -> Nat], NEW h \in [1..Shipments -> Nat], NEW w \in Nat,
             h[s] = f[s] + w, \A i \in 1..Shipments : i # s => h[i] = f[i]
      PROVE  Total(h, Shipments) = Total(f, Shipments) + w
  <2>1. s \in 1..Shipments /\ Shipments \in Nat
    BY Sizes DEF Shipment
  <2> QED BY <1>1, <2>1, TotalOneMore
<1> DEFINE W(U) == [r \in Shipment |-> IF r \in U THEN ship[r].weight ELSE 0]
           V(U) == [r \in Shipment |-> IF r \in U THEN ship[r].volume ELSE 0]
<1>2. \A U : W(U) \in [1..Shipments -> Nat] /\ V(U) \in [1..Shipments -> Nat]
  BY Weighed
<1>3. ship[s].weight \in Nat /\ ship[s].volume \in Nat
  BY ShipmentFields
<1>4. /\ W(T \cup {s})[s] = W(T)[s] + ship[s].weight
      /\ V(T \cup {s})[s] = V(T)[s] + ship[s].volume
      /\ \A i \in 1..Shipments : i # s =>
           W(T \cup {s})[i] = W(T)[i] /\ V(T \cup {s})[i] = V(T)[i]
  BY <1>3 DEF Shipment
<1>5. Weight(T \cup {s}) = Total(W(T \cup {s}), Shipments) /\ Weight(T) = Total(W(T), Shipments)
  BY DEF Weight
<1>6. Volume(T \cup {s}) = Total(V(T \cup {s}), Shipments) /\ Volume(T) = Total(V(T), Shipments)
  BY DEF Volume
<1> HIDE DEF W, V
<1>7. Total(W(T \cup {s}), Shipments) = Total(W(T), Shipments) + ship[s].weight
  BY <1>1, <1>2, <1>3, <1>4
<1>8. Total(V(T \cup {s}), Shipments) = Total(V(T), Shipments) + ship[s].volume
  BY <1>1, <1>2, <1>3, <1>4
<1> QED BY <1>5, <1>6, <1>7, <1>8

LEMMA WeightNoLess ==
  ASSUME TypeOK, NEW T, NEW U, T \subseteq U
  PROVE  Weight(T) <= Weight(U) /\ Volume(T) <= Volume(U)
<1>1. \A f, h \in [1..Shipments -> Nat] :
        (\A i \in 1..Shipments : f[i] <= h[i]) => Total(f, Shipments) <= Total(h, Shipments)
  BY Sizes, TotalNoLess
<1> DEFINE W(X) == [r \in Shipment |-> IF r \in X THEN ship[r].weight ELSE 0]
           V(X) == [r \in Shipment |-> IF r \in X THEN ship[r].volume ELSE 0]
<1>2. W(T) \in [1..Shipments -> Nat] /\ V(T) \in [1..Shipments -> Nat]
      /\ W(U) \in [1..Shipments -> Nat] /\ V(U) \in [1..Shipments -> Nat]
  BY Weighed
<1>3. \A i \in 1..Shipments : W(T)[i] <= W(U)[i] /\ V(T)[i] <= V(U)[i]
  BY ShipmentFields DEF Shipment
<1>4. /\ Weight(T) = Total(W(T), Shipments) /\ Weight(U) = Total(W(U), Shipments)
      /\ Volume(T) = Total(V(T), Shipments) /\ Volume(U) = Total(V(U), Shipments)
  BY DEF Weight, Volume
<1> HIDE DEF W, V
<1> QED BY <1>1, <1>2, <1>3, <1>4

LEMMA ShipmentPriority ==
  ASSUME TypeOK, NEW s \in Shipment
  PROVE  ship[s].priority \in Nat
<1>1. ship[s] \in ShipmentKind
  BY DEF TypeOK
<1> QED BY <1>1, SolverAssumption

LEMMA VehicleFields ==
  ASSUME TypeOK, NEW k \in Vehicle
  PROVE  veh[k].payload \in Nat /\ veh[k].room \in Nat /\ veh[k].maxGrade \in Nat
<1>1. veh[k] \in VehicleKind
  BY DEF TypeOK
<1> QED BY <1>1, SolverAssumption

LEMMA DriverFields ==
  ASSUME TypeOK, NEW d \in Driver
  PROVE  drv[d].years \in Nat /\ Years \in Nat
<1>1. drv[d] \in DriverKind
  BY DEF TypeOK
<1> QED BY <1>1, SolverAssumption

-----------------------------------------------------------------------------
(* Capacities.  The running totals are the sums over the list so far.      *)

Bears(k) ==
  /\ Weight(route[k]) <= veh[k].payload /\ Volume(route[k]) <= veh[k].room
  /\ \A s \in route[k] :
       (ship[s].cold => veh[k].cold) /\ ship[s].grade <= veh[k].maxGrade /\ ship[s].passable

LoadInv ==
  /\ loading => load = Weight(route[v]) /\ room = Volume(route[v])
  /\ ~loading => load = 0 /\ room = 0
  /\ \A k \in Vehicle : Bears(k)

LEMMA BearsKept ==
  ASSUME NEW k, UNCHANGED <<ship, veh>>, route'[k] = route[k]
  PROVE  /\ Bears(k)' = Bears(k)
         /\ Weight(route[k])' = Weight(route[k]) /\ Volume(route[k])' = Volume(route[k])
BY DEF Bears, Weight, Volume

LEMMA LoadConsider ==
  ASSUME CrewInv, LoadInv, NEW s \in Shipment, Consider(s)
  PROVE  LoadInv'
<1> TypeOK
  BY DEF CrewInv
<1>1. loading /\ v \in Vehicle /\ UNCHANGED <<v, loading, ship, veh>>
  BY DEF Consider, TypeOK, input
<1>2. CASE UNCHANGED <<load, room, route>>
  BY <1>1, <1>2, BearsKept DEF LoadInv
<1>3. CASE Take(s) /\ s \notin Assigned /\ Fits(s) /\ Suits(s) /\ ship[s].passable
  <2>1. route' = [route EXCEPT ![v] = @ \cup {s}] /\ route'[v] = route[v] \cup {s}
    BY <1>1, <1>3 DEF Take, TypeOK
  <2>2. s \notin route[v]
    BY <1>1, <1>3 DEF Assigned
  <2>3. /\ Weight(route'[v]) = Weight(route[v]) + ship[s].weight
        /\ Volume(route'[v]) = Volume(route[v]) + ship[s].volume
    BY <2>1, <2>2, WeightOneMore
  <2>4. /\ Weight(route[v])' = Weight(route'[v]) /\ Volume(route[v])' = Volume(route'[v])
    BY <1>1 DEF Weight, Volume
  <2>5. load' = Weight(route[v])' /\ room' = Volume(route[v])'
    BY <1>1, <1>3, <2>3, <2>4 DEF LoadInv, Take
  <2>6. Bears(v)'
    <3>1. load' <= veh[v].payload /\ room' <= veh[v].room
      BY <1>3 DEF Take, Fits
    <3>2. \A r \in route'[v] :
            (ship[r].cold => veh[v].cold) /\ ship[r].grade <= veh[v].maxGrade /\ ship[r].passable
      BY <1>1, <1>3, <2>1 DEF Suits, LoadInv, Bears
    <3> QED BY <1>1, <2>5, <3>1, <3>2 DEF Bears
  <2>7. \A k \in Vehicle : k # v => Bears(k)'
    <3>1. \A k \in Vehicle : k # v => route'[k] = route[k]
      BY <2>1 DEF TypeOK
    <3> QED BY <1>1, <3>1, BearsKept DEF LoadInv
  <2> QED BY <1>1, <2>5, <2>6, <2>7 DEF LoadInv
<1> QED BY <1>2, <1>3, ConsiderStep

LEMMA LoadStep == CrewInv /\ LoadInv /\ [Next]_vars => LoadInv'
<1> SUFFICES ASSUME CrewInv, LoadInv, [Next]_vars PROVE LoadInv'
  OBVIOUS
<1> TypeOK
  BY DEF CrewInv
<1>1. CASE \E s \in Shipment : Consider(s)
  BY <1>1, LoadConsider
<1>2. CASE OpenVehicle
  <2>1. /\ v \in Vehicle /\ ~loading /\ loading' /\ UNCHANGED <<ship, veh, v, route, load, room>>
    BY <1>2 DEF OpenVehicle, input
  <2>2. route[v] = {}
    BY <2>1 DEF CrewInv
  <2>3. Weight(route[v])' = 0 /\ Volume(route[v])' = 0
    BY <2>1, <2>2, BearsKept, WeightOfNothing
  <2> QED BY <2>1, <2>3, BearsKept DEF LoadInv
<1>3. CASE SkipVehicle
  <2>1. ~loading /\ ~loading' /\ UNCHANGED <<ship, veh, route, load, room>>
    BY <1>3 DEF SkipVehicle, input
  <2> QED BY <2>1, BearsKept DEF LoadInv
<1>4. CASE CloseVehicle
  <2>1. ~loading' /\ load' = 0 /\ room' = 0 /\ UNCHANGED <<ship, veh, route>>
    BY <1>4 DEF CloseVehicle, input
  <2> QED BY <2>1, BearsKept DEF LoadInv
<1>5. CASE UNCHANGED <<ship, veh, v, loading, route, load, room>>
  BY <1>5, BearsKept DEF LoadInv
<1>6. Refuse \/ Finish \/ UNCHANGED vars => UNCHANGED <<ship, veh, v, loading, route, load, room>>
  BY DEF Refuse, Finish, vars, input
<1> QED BY <1>1, <1>2, <1>3, <1>4, <1>5, <1>6 DEF Next

LEMMA InitLoad == Init => LoadInv
<1> SUFFICES ASSUME Init PROVE LoadInv
  OBVIOUS
<1>1. TypeOK /\ \A k \in Vehicle : route[k] = {}
  BY InitTyped DEF Init
<1>2. \A k \in Vehicle : veh[k].payload \in Nat /\ veh[k].room \in Nat
  BY <1>1, VehicleFields
<1>3. ASSUME NEW k \in Vehicle PROVE Bears(k)
  <2>1. route[k] = {}
    BY <1>1
  <2>2. Weight(route[k]) = 0 /\ Volume(route[k]) = 0
    BY <1>1, <2>1, WeightOfNothing
  <2>3. veh[k].payload \in Nat /\ veh[k].room \in Nat
    BY <1>2
  <2> QED BY <2>1, <2>2, <2>3 DEF Bears
<1> QED BY <1>3 DEF Init, LoadInv

LEMMA CrewSound == Spec => []CrewInv
<1>1. Init => CrewInv
  BY InitTyped DEF Init, CrewInv
<1> QED BY <1>1, CrewStep, PTL DEF Spec

(* Over its whole list, no vehicle carries more weight or volume than it   *)
(* can, nor anything it may not carry (runOptimization, the capacity,      *)
(* cold-chain, grade and corridor checks).                                 *)
THEOREM NothingOverloaded == Spec => []LoadsRespected
<1>1. LoadInv => LoadsRespected
  BY DEF LoadInv, LoadsRespected, Bears
<1> QED BY <1>1, InitLoad, CrewSound, LoadStep, PTL DEF Spec

-----------------------------------------------------------------------------
(* Why a shipment is left over. *)

Urgent(s, k) == {r \in route[k] : ship[r].priority >= ship[s].priority}

Against(s, k) ==
  \/ ~ship[s].passable
  \/ ship[s].cold /\ ~veh[k].cold
  \/ ship[s].grade > veh[k].maxGrade
  \/ ship[s].grade > Steep /\ \A d \in OnDuty : drv[d].years < Years
  \/ Weight(Urgent(s, k)) + ship[s].weight > veh[k].payload
  \/ Volume(Urgent(s, k)) + ship[s].volume > veh[k].room

(* Shipments are offered most urgent first. *)
UrgentFirst ==
  /\ ~loading => seen = {}
  /\ \A r \in seen, s \in Shipment \ seen : ship[r].priority >= ship[s].priority

ReasonInv ==
  /\ UrgentFirst
  /\ loading =>
       /\ status = "RUNNING" /\ route[v] \subseteq seen
       /\ \A s \in seen \ Assigned : Against(s, v)
  /\ \A k \in Vehicle, s \in Shipment \ Assigned : k < v /\ veh[k].available => Against(s, k)
  /\ status \in {"FEASIBLE", "OPTIMAL"} => v \notin Vehicle \/ Assigned = Shipment

(* A reason stands when the vehicle takes more. *)
LEMMA ReasonStands ==
  ASSUME TypeOK, NEW s \in Shipment, NEW k \in Vehicle, Against(s, k),
         UNCHANGED <<ship, veh, drv>>, route[k] \subseteq route'[k]
  PROVE  Against(s, k)'
<1>1. Urgent(s, k) \subseteq Urgent(s, k)'
  BY DEF Urgent
<1>2. /\ Weight(Urgent(s, k)) <= Weight(Urgent(s, k)')
      /\ Volume(Urgent(s, k)) <= Volume(Urgent(s, k)')
  BY <1>1, WeightNoLess
<1>3. /\ Weight(Urgent(s, k))' = Weight(Urgent(s, k)')
      /\ Volume(Urgent(s, k))' = Volume(Urgent(s, k)')
  BY DEF Weight, Volume
<1>4. /\ Weight(Urgent(s, k)) \in Nat /\ Weight(Urgent(s, k)') \in Nat
      /\ Volume(Urgent(s, k)) \in Nat /\ Volume(Urgent(s, k)') \in Nat
      /\ ship[s].weight \in Nat /\ ship[s].volume \in Nat
      /\ veh[k].payload \in Nat /\ veh[k].room \in Nat
  BY WeightTyped, ShipmentFields, VehicleFields
<1>5. \A w, w2, x, p \in Nat : w <= w2 /\ w + x > p => w2 + x > p
  OBVIOUS
<1>6. Weight(Urgent(s, k)) + ship[s].weight > veh[k].payload
        => Weight(Urgent(s, k))' + ship[s].weight > veh[k].payload
  BY <1>2, <1>3, <1>4, <1>5
<1>7. Volume(Urgent(s, k)) + ship[s].volume > veh[k].room
        => Volume(Urgent(s, k))' + ship[s].volume > veh[k].room
  BY <1>2, <1>3, <1>4, <1>5
<1>8. OnDuty' = OnDuty
  BY DEF OnDuty
<1> QED BY <1>6, <1>7, <1>8 DEF Against

LEMMA AssignedGrows ==
  ASSUME TypeOK, [Next]_vars
  PROVE  Assigned \subseteq Assigned' /\ \A k \in Vehicle : route[k] \subseteq route'[k]
<1>1. \A k \in Vehicle : route[k] \subseteq route'[k]
  BY RouteStep DEF TypeOK
<1> QED BY <1>1 DEF Assigned

(* The shipment just offered is taken, or there is a reason. *)
LEMMA TakenOrReason ==
  ASSUME CrewInv, LoadInv, ReasonInv, NEW s \in Shipment, Consider(s)
  PROVE  s \in Assigned' \/ Against(s, v)
<1> SUFFICES ASSUME s \notin Assigned' PROVE Against(s, v)
  OBVIOUS
<1> TypeOK /\ [Next]_vars
  BY DEF CrewInv, Next
<1>1. loading /\ v \in Vehicle /\ s \notin seen /\ Offered(s)
  BY DEF Consider, Offered, TypeOK
<1>2. s \notin Assigned
  BY AssignedGrows
<1>3. PICK d \in Chosen(s) :
        Fits(s) /\ Suits(s) /\ (Needs(s) => Able(d))
          => IF ship[s].passable THEN Take(s) ELSE UNCHANGED <<load, room, route>>
  BY <1>2 DEF Consider
<1>4. ~Take(s)
  <2>1. Take(s) => s \in route'[v]
    BY <1>1 DEF Take, TypeOK
  <2> QED BY <1>1, <2>1 DEF Assigned
<1>5. CASE ~Fits(s)
  <2>1. route[v] \subseteq seen /\ seen \subseteq Shipment
    BY <1>1 DEF ReasonInv, TypeOK
  <2>2. Urgent(s, v) = route[v]
    BY <1>1, <2>1 DEF Urgent, ReasonInv, UrgentFirst
  <2>3. load = Weight(Urgent(s, v)) /\ room = Volume(Urgent(s, v))
    BY <1>1, <2>2 DEF LoadInv
  <2>4. /\ Weight(Urgent(s, v)) \in Nat /\ Volume(Urgent(s, v)) \in Nat
        /\ ship[s].weight \in Nat /\ ship[s].volume \in Nat
        /\ veh[v].payload \in Nat /\ veh[v].room \in Nat
    BY <1>1, WeightTyped, ShipmentFields, VehicleFields
  <2> QED BY <1>5, <2>3, <2>4 DEF Fits, Against
<1>6. CASE ~Suits(s)
  <2>1. ship[s].grade \in Nat /\ veh[v].maxGrade \in Nat
    BY <1>1, ShipmentFields, VehicleFields
  <2> QED BY <1>6, <2>1 DEF Suits, Against
<1>7. CASE Needs(s) /\ ~Able(d)
  <2>1. Skilled = {}
    BY <1>7 DEF Chosen, Skilled
  <2>2. \A e \in OnDuty : drv[e].years < Years
    <3>1. \A e \in OnDuty : drv[e].years \in Nat /\ Years \in Nat
      BY DriverFields DEF OnDuty
    <3> QED BY <2>1, <3>1 DEF Skilled, Able
  <2> QED BY <1>7, <2>2 DEF Needs, Against
<1>8. CASE ~ship[s].passable
  BY <1>8 DEF Against
<1> QED BY <1>3, <1>4, <1>5, <1>6, <1>7, <1>8

LEMMA UrgentConsider ==
  ASSUME TypeOK, UrgentFirst, NEW s \in Shipment, Consider(s)
  PROVE  UrgentFirst'
<1>1. loading' /\ ship' = ship /\ seen' = seen \cup {s} /\ Offered(s)
  BY DEF Consider, input
<1>2. ASSUME NEW r \in Shipment \ seen PROVE ship[s].priority >= ship[r].priority
  <2>1. ~Before(r, s)
    BY <1>1, <1>2 DEF Offered
  <2>2. ship[s].priority \in Nat /\ ship[r].priority \in Nat
    BY ShipmentPriority
  <2> QED BY <2>1, <2>2 DEF Before
<1> QED BY <1>1, <1>2 DEF UrgentFirst

LEMMA ReasonConsider ==
  ASSUME CrewInv, LoadInv, ReasonInv, NEW s \in Shipment, Consider(s)
  PROVE  ReasonInv'
<1> TypeOK /\ [Next]_vars
  BY DEF CrewInv, Next
<1>1. /\ loading /\ loading' /\ v \in Vehicle /\ seen' = seen \cup {s}
      /\ UNCHANGED <<v, ship, veh, drv, status>>
  BY DEF Consider, TypeOK, input
<1>2. UrgentFirst'
  BY UrgentConsider DEF ReasonInv
<1>3. \A k \in Vehicle : route[k] \subseteq route'[k]
  BY AssignedGrows
<1>4. route'[v] \subseteq seen'
  <2>1. route' = route \/ route' = [route EXCEPT ![v] = @ \cup {s}]
    BY ConsiderStep DEF Take
  <2> QED BY <1>1, <2>1 DEF ReasonInv, TypeOK
<1>5. ASSUME NEW r \in seen' \ Assigned' PROVE Against(r, v)'
  <2>1. r \in Shipment /\ r \notin Assigned
    BY <1>1, <1>5, AssignedGrows DEF TypeOK
  <2>2. Against(r, v)
    <3>1. CASE r = s
      BY <1>5, <3>1, TakenOrReason
    <3>2. CASE r \in seen
      BY <1>1, <2>1, <3>2 DEF ReasonInv
    <3> QED BY <1>1, <1>5, <3>1, <3>2
  <2> QED BY <1>1, <1>3, <2>1, <2>2, ReasonStands
<1>6. ASSUME NEW k \in Vehicle, NEW r \in Shipment \ Assigned', k < v, veh[k].available
      PROVE  Against(r, k)'
  <2>1. r \notin Assigned
    BY AssignedGrows
  <2>2. Against(r, k)
    BY <1>6, <2>1 DEF ReasonInv
  <2> QED BY <1>1, <1>3, <2>2, ReasonStands
<1>7. status' = "RUNNING"
  BY <1>1 DEF ReasonInv
<1> QED BY <1>1, <1>2, <1>4, <1>5, <1>6, <1>7 DEF ReasonInv

(* Where the routes and the request stay, so do the reasons. *)
LEMMA ReasonKept ==
  ASSUME UNCHANGED <<ship, veh, drv, route>>
  PROVE  /\ \A s, k : Against(s, k)' = Against(s, k)
         /\ Assigned' = Assigned
BY DEF Against, Urgent, Weight, Volume, OnDuty, Assigned

LEMMA ReasonStep == CrewInv /\ LoadInv /\ ReasonInv /\ [Next]_vars => ReasonInv'
<1> SUFFICES ASSUME CrewInv, LoadInv, ReasonInv, [Next]_vars PROVE ReasonInv'
  OBVIOUS
<1> TypeOK
  BY DEF CrewInv
<1>1. CASE \E s \in Shipment : Consider(s)
  BY <1>1, ReasonConsider
<1>2. CASE OpenVehicle
  <2>1. /\ v \in Vehicle /\ ~loading /\ loading' /\ status = "RUNNING"
        /\ UNCHANGED <<ship, veh, drv, v, seen, route, status>>
    BY <1>2 DEF OpenVehicle, input
  <2>2. seen = {} /\ route[v] = {}
    BY <2>1 DEF ReasonInv, UrgentFirst, CrewInv
  <2>3. UrgentFirst'
    BY <2>1, <2>2 DEF UrgentFirst
  <2>4. Assigned' = Assigned /\ \A s, k : Against(s, k)' = Against(s, k)
    BY <2>1, ReasonKept
  <2> QED BY <2>1, <2>2, <2>3, <2>4 DEF ReasonInv
<1>3. CASE SkipVehicle
  <2>1. /\ v \in Vehicle /\ ~loading /\ ~loading' /\ status = "RUNNING" /\ ~veh[v].available
        /\ v' = v + 1 /\ UNCHANGED <<ship, veh, drv, seen, route, status>>
    BY <1>3 DEF SkipVehicle, input
  <2>2. UrgentFirst'
    BY <2>1 DEF ReasonInv, UrgentFirst
  <2>3. Assigned' = Assigned /\ \A s, k : Against(s, k)' = Against(s, k)
    BY <2>1, ReasonKept
  <2>4. \A k \in Vehicle : k < v + 1 => k < v \/ k = v
    BY <2>1 DEF Vehicle
  <2> QED BY <2>1, <2>2, <2>3, <2>4 DEF ReasonInv
<1>4. CASE CloseVehicle
  <2>1. /\ v \in Vehicle /\ loading /\ ~loading' /\ status = "RUNNING" /\ seen = Shipment
        /\ v' = v + 1 /\ seen' = {} /\ UNCHANGED <<ship, veh, drv, route, status>>
    BY <1>4 DEF CloseVehicle, input, TypeOK
  <2>2. UrgentFirst'
    BY <2>1 DEF UrgentFirst
  <2>3. Assigned' = Assigned /\ \A s, k : Against(s, k)' = Against(s, k)
    BY <2>1, ReasonKept
  <2>4. \A k \in Vehicle : k < v + 1 => k < v \/ k = v
    BY <2>1 DEF Vehicle
  <2> QED BY <2>1, <2>2, <2>3, <2>4 DEF ReasonInv
<1>5. CASE Finish
  <2>1. /\ ~loading /\ ~loading' /\ UNCHANGED <<ship, veh, drv, v, seen, route>>
        /\ v \in Vehicle => Assigned = Shipment
    BY <1>5 DEF Finish, input
  <2>2. UrgentFirst'
    BY <2>1 DEF ReasonInv, UrgentFirst
  <2>3. Assigned' = Assigned /\ \A s, k : Against(s, k)' = Against(s, k)
    BY <2>1, ReasonKept
  <2> QED BY <2>1, <2>2, <2>3 DEF ReasonInv
<1>6. CASE Refuse
  <2>1. /\ ~loading /\ ~loading' /\ UNCHANGED <<ship, veh, drv, v, seen, route>>
        /\ status' = "INFEASIBLE"
    BY <1>6 DEF Refuse, input
  <2>2. UrgentFirst'
    BY <2>1 DEF ReasonInv, UrgentFirst
  <2>3. Assigned' = Assigned /\ \A s, k : Against(s, k)' = Against(s, k)
    BY <2>1, ReasonKept
  <2> QED BY <2>1, <2>2, <2>3 DEF ReasonInv
<1>7. CASE UNCHANGED vars
  <2>1. UNCHANGED <<ship, veh, drv, v, loading, seen, route, status>>
    BY <1>7 DEF vars, input
  <2>2. UrgentFirst'
    BY <2>1 DEF ReasonInv, UrgentFirst
  <2>3. Assigned' = Assigned /\ \A s, k : Against(s, k)' = Against(s, k)
    BY <2>1, ReasonKept
  <2> QED BY <2>1, <2>2, <2>3 DEF ReasonInv
<1> QED BY <1>1, <1>2, <1>3, <1>4, <1>5, <1>6, <1>7 DEF Next

(* Against every available vehicle there is a reason why a shipment left   *)
(* over is not on it, and freight that is less urgent is none              *)
(* (runOptimization, the sort by priority and the loop over the vehicles). *)
THEOREM LeftoversExplained == Spec => []LeftForAReason
<1>1. Init => ReasonInv
  BY DEF Init, ReasonInv, UrgentFirst, Vehicle
<1>2. TypeOK /\ ReasonInv => LeftForAReason
  <2> SUFFICES ASSUME TypeOK, ReasonInv, status \in {"FEASIBLE", "OPTIMAL"},
                      NEW s \in Shipment \ Assigned, NEW k \in Vehicle, veh[k].available
               PROVE  Against(s, k)
    BY DEF LeftForAReason, Against, Urgent
  <2>1. v \notin Vehicle
    BY DEF ReasonInv
  <2>2. k < v
    BY <2>1, Sizes DEF TypeOK, Vehicle
  <2> QED BY <2>2 DEF ReasonInv
<1>3. CrewInv => TypeOK
  BY DEF CrewInv
<1> QED BY <1>1, <1>2, <1>3, InitLoad, CrewSound, LoadStep, ReasonStep, PTL DEF Spec
=============================================================================
