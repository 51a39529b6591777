SPECIFICATION FairSpec
CONSTANTS
  a1 = a1  a2 = a2  k1 = k1  m1 = m1  r1 = r1
  Alert = {a1, a2}  Key = {k1}  Message = {m1}  Request = {r1}
  MaxRecipients = 2  MaxAudience = 2  MaxRetries = 2  Cooldown = 1  None = None
INVARIANTS AttemptsKept DeliveredIsTrue OneActivePerKey
PROPERTIES DispatchEnds
CHECK_DEADLOCK FALSE
