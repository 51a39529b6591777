------------------------------ MODULE MCFleetSolver ------------------------------
(* Instances of FleetSolver for TLC. *)
EXTENDS FleetSolver

Freight(w, vol, p, c, g, open) ==
  [weight |-> w, volume |-> vol, priority |-> p, cold |-> c, grade |-> g, passable |-> open]
Truck(p, r, c, g, a, d) ==
  [payload |-> p, room |-> r, cold |-> c, maxGrade |-> g, available |-> a, driver |-> d]

Freights ==
  {Freight(3, 1, 1, FALSE, 10, TRUE), Freight(1, 1, 4, TRUE, 10, TRUE),
   Freight(1, 2, 3, FALSE, 14, TRUE), Freight(2, 1, 4, FALSE, 14, TRUE),
   Freight(1, 1, 1, FALSE, 14, FALSE)}
Trucks ==
  {Truck(3, 2, TRUE, 15, TRUE, None), Truck(2, 3, FALSE, 15, TRUE, 1),
   Truck(3, 3, FALSE, 12, TRUE, None), Truck(3, 3, TRUE, 15, FALSE, 2)}
People ==
  {[years |-> 5, available |-> TRUE], [years |-> 2, available |-> TRUE],
   [years |-> 5, available |-> FALSE]}
=============================================================================
