SPECIFICATION Spec
CONSTANTS
  x = x  y = y  d1 = d1  d2 = d2  d3 = d3
  Proposal = {x, y}  Request = {d1, d2}
  Baseline = Baseline  Planner = Planner  None = None
  MaxVersions = 3
PROPERTY RejectionStands
CHECK_DEADLOCK FALSE
