SPECIFICATION FairSpec
CONSTANTS
  Requests = {r1, r2, r3, r4}
  PoolSize = 2
  QueueSize = 1
  Threshold = 2
  ResetSeconds = 1
  MaxAttempts = 2
  Closed = Closed
  MaxTime = 1
  MaxFaults = 1
INVARIANTS
  TypeOK
  GateConserved
  NoPermitWasted
  OpenAtThreshold
PROPERTIES
  ImplementsGate
  OpeningNeverMoves
  EveryRequestAnswered
