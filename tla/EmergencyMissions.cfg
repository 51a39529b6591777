SPECIFICATION Spec
CONSTANTS
  o1 = o1  o2 = o2  r1 = r1  r2 = r2  i1 = i1  i2 = i2  m1 = m1  m2 = m2
  Officer = {o1, o2}  Request = {r1, r2}
  Id = {i1, i2}  Seed = i1
  Measure = {m1, m2}
  MaxPlans = 2  MaxPresses = 3
  ErrorBody = ErrorBody  None = None
SYMMETRY Symmetric
INVARIANTS CopiesTellTrail OverruledUnseen
CHECK_DEADLOCK FALSE
