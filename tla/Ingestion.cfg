SPECIFICATION FairSpec
CONSTANTS
  bro = bro  r1 = r1  r2 = r2  a = a  b = b  bad = bad  k1 = k1  k2 = k2
  Source = {bro}  Seeded = {}  Run = {r1, r2}
  Item = {a, b, bad}  WellFormed = {a, b}  Key = {k1, k2}  KeyOf <- Reports  Feed <- Payloads
  Attempts = 3  Objects = 2  None = None
INVARIANTS OncePerKey RunsTellTruth SourceTrue
PROPERTIES RunsEnd
CHECK_DEADLOCK FALSE
