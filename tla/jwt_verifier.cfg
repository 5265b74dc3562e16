SPECIFICATION Spec
CONSTANTS
  Threads = {t1, t2}
  Kids = {k1, k2}
  Rotated = {k1}
  Absent = Absent
  NoSet = NoSet
  Degraded = Degraded
  UnknownTtl = 2
  CacheSize = 2
  KeysTtl = 1
  FetchTime = 1
  MaxTime = 3
SYMMETRY Symmetry
INVARIANTS
  TypeOK
  NearestDeadlineFirst
PROPERTIES
  PublishedIsKnown
  PulledIsDropped
