SPECIFICATION Spec
CONSTANTS
  p1 = p1  p2 = p2  c1 = c1  g1 = g1  g2 = g2  h1 = h1  sos = sos
  s1 = s1  k1 = k1  t1 = t1  r1 = r1  r2 = r2
  Pod = {p1}  Checkpoint = {}  Reading = {g1}  Report = {}
  Key = {}  KeyOf <- NoKey
  Signed = {p1}  Unknown = {}
  Shipment = {s1}  Target <- FirstTarget
  Stop = {}  StopOf <- NoStop
  Trip = {}  TripOf <- NoTrip
  Carried = {s1}
  Slot = {r1}  Idle = Idle  NoProof = NoProof  Office = Office
  MaxQueuedItems = 2  MaxBatch = 2  MaxRetryAttempts = 2
  MaxCounted = 1
PROPERTY CancelledStays
CHECK_DEADLOCK FALSE
