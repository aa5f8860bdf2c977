CONSTANTS
  Call = {k1, k2, k3}
  MaxConcurrency = 2
  Settings = {{}, {"planning", "answers"}}
SPECIFICATION Spec
INVARIANTS CapacityBound CloseReportSound CloseReachesAll
PROPERTY PermitReturns
CHECK_DEADLOCK FALSE
