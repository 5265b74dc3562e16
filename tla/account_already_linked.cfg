SPECIFICATION Spec
CONSTANTS
  Requests = {r1, r2, r3, r4}
  Handles = {h1, h2}
  Pairs = {p1, p2}
  Uids = {u1}
  NoUid = NoUid
  NoPair = NoPair
  NoIdentity = NoIdentity
  NoHandle = NoHandle
  TTL = 1
  LookupAttempts = 1
  MaxTime = 0
  MaxFaults = 0
SYMMETRY Symmetry
INVARIANTS
  AlreadyLinkedHasAccount
