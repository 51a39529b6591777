SPECIFICATION Spec
CONSTANTS
  own = own  other = other  r1 = r1  r2 = r2
  Session = {own, other}  Unfit = {other}  Request = {r1, r2}
  Capacity = 3  BatchMax = 2  MaxFixes = 4  MaxPending = 1  None = None
INVARIANTS TypeOK NothingForgotten LatestIsNewest TwiceForAReason
SYMMETRY Alike
CHECK_DEADLOCK FALSE
