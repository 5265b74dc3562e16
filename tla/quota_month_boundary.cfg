SPECIFICATION Spec
CONSTANTS
  Requests = {r1, r2, r3}
  Users = {u1}
  Grants = {g1}
  Owner <- OneOwner
  Credits <- OneCredit
  NoGrant = NoGrant
  NoRequest = NoRequest
  Never = Never
  MonthLength = 1
  MaxTime = 1
  MaxFaults = 0
SYMMETRY Symmetry
INVARIANTS
  AllowanceHolds
