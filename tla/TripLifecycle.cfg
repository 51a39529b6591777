SPECIFICATION TripSpec
CONSTANTS
  s1 = s1  s2 = s2  v1 = v1  d1 = d1  t1 = t1  t2 = t2  j1 = j1  j2 = j2
  Shipment = {s1, s2}  Vehicle = {v1}  Driver = {d1}  Trip = {t1, t2}  Job = {j1, j2}
  MaxRequests = 3  None = None
INVARIANTS PhantomsExplained
PROPERTIES NobodyLeftBehind ImplementsManifest
SYMMETRY Alike
CHECK_DEADLOCK FALSE
