SPECIFICATION FairBreakerSpec
CONSTANTS
  a = a  b = b  c = c
  Caller = {a, b, c}
  FailureThreshold = 3  SuccessThreshold = 2  Recovery = 2
INVARIANTS ClosedMeansHealthy ProbedAfterRest
PROPERTIES ClosesOnEvidence Recovers
