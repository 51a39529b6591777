--------------------------- MODULE MCPlanApplication ---------------------------
(* Instances of PlanApplication for TLC. *)
EXTENDS PlanApplication, TLC

CONSTANTS s1, s2, v1, v2, d1, t1, t2, t3, t4, a1, a2

(* The second route has no driver: drv-unassigned. *)
TwoRoutes ==
  <<[vehicle |-> v1, driver |-> d1, riders |-> {s1}],
    [vehicle |-> v2, driver |-> None, riders |-> {s2}]>>

Asked ==
  {[create |-> TRUE, assign |-> TRUE, lock |-> TRUE],
   [create |-> FALSE, assign |-> TRUE, lock |-> FALSE]}

Alike == Permutations(Trip) \cup Permutations(App)
=============================================================================
