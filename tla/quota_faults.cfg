SPECIFICATION Spec
CONSTANTS
  Requests = {r1, r2, r3}
  Users = {u1}
  Grants = {g1, g2}
  Owner <- OneOwner
  Credits <- OneCredit
  NoGrant = NoGrant
  NoRequest = NoRequest
  Never = Never
  MonthLength = 2
  MaxTime = 2
  MaxFaults = 1
SYMMETRY Symmetry
INVARIANTS
  TypeOK
  RefusalIsTruthful
  ChargedGrantIsEffective
  UsedIsCharged
  AllowanceHoldsInOrder
PROPERTIES
  ImplementsMeter
  SyncReportsCharges
