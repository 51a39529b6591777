SPECIFICATION PlanSpec
CONSTANTS
  s1 = s1  s2 = s2  v1 = v1  v2 = v2  d1 = d1  t1 = t1  t2 = t2  t3 = t3  t4 = t4
  a1 = a1  a2 = a2
  Shipment = {s1, s2}  Vehicle = {v1, v2}  Driver = {d1}  Trip = {t1, t2, t3, t4}
  Job = {a1, a2}  App = {a1, a2}  Plan <- TwoRoutes  Options <- Asked
  MaxRequests = 1  MaxDecisions = 3  None = None
INVARIANTS PlanTypeOK PlanPhantoms RouteAppliedOnce PlanCarriedOut
SYMMETRY Alike
CHECK_DEADLOCK FALSE
