CONSTANTS
  Req = {1, 2, 3}
  Conv = {c1}
  Turn = {1, 2}
  Owner = {1, 2}
  PoolSize = 2
  Faults = {"cancel", "error", "crash"}
  NoReq = NoReq
  NoOwner = NoOwner
  NoTurn = NoTurn
SPECIFICATION MCSpec
INVARIANTS LockSafety GenerationBudget ReplayParity SerialTranscript OrphanOnlyByFault
PROPERTIES ImplementsLedger EveryRequestEnds
CHECK_DEADLOCK FALSE
