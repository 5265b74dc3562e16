SPECIFICATION FairSpec
CONSTANTS
  Requests = {r1, r2, r3}
  Users = {u1}
  Grants = {g1}
  Owner <- OneOwner
  Credits <- OneCredit
  NoGrant = NoGrant
  NoRequest = NoRequest
  Never = Never
  MonthLength = 1
  MaxTime = 0
  MaxFaults = 1
PROPERTIES
  EveryRequestAnswered
