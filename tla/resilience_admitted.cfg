SPECIFICATION Spec
CONSTANTS
  Requests = {r1, r2, r3}
  PoolSize = 1
  QueueSize = 1
  Threshold = 1
  ResetSeconds = 1
  MaxAttempts = 2
  Closed = Closed
  MaxTime = 1
  MaxFaults = 0
SYMMETRY Symmetry
PROPERTIES
  AdmittedMeansClosed
