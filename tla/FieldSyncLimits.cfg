SPECIFICATION FairSpec
CONSTANTS
  p1 = p1  p2 = p2  c1 = c1  g1 = g1  g2 = g2  h1 = h1  sos = sos
  s1 = s1  k1 = k1  t1 = t1  r1 = r1  r2 = r2
  Pod = {}  Checkpoint = {c1}  Reading = {}  Report = {h1}
  Key = {sos}  KeyOf <- OneKey
  Signed = {}  Unknown = {}
  Shipment = {}  Target <- NoTarget
  Stop = {k1}  StopOf <- OneStop
  Trip = {t1}  TripOf <- OneTrip
  Carried = {}
  Slot = {r1, r2}  Idle = Idle  NoProof = NoProof  Office = Office
  MaxQueuedItems = 2  MaxBatch = 1  MaxRetryAttempts = 1
  MaxCounted = 1
INVARIANTS ToldTheTruth
PROPERTIES SyncEnds OutageFlushes
