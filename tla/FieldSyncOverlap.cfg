SPECIFICATION Spec
CONSTANTS
  p1 = p1  p2 = p2  c1 = c1  g1 = g1  g2 = g2  h1 = h1  sos = sos
  s1 = s1  k1 = k1  t1 = t1  r1 = r1  r2 = r2
  Pod = {p1, p2}  Checkpoint = {}  Reading = {}  Report = {}
  Key = {}  KeyOf <- NoKey
  Signed = {p2}  Unknown = {}
  Shipment = {s1}  Target <- OneTarget
  Stop = {}  StopOf <- NoStop
  Trip = {}  TripOf <- NoTrip
  Carried = {}
  Slot = {r1, r2}  Idle = Idle  NoProof = NoProof  Office = Office
  MaxQueuedItems = 2  MaxBatch = 2  MaxRetryAttempts = 1
  MaxCounted = 1
SYMMETRY SlotSymmetry
INVARIANTS SyncingIsInFlight FirstInFirstHandled
PROPERTIES SignatureWrittenOnce ImplementsOutcome
