SPECIFICATION Spec
CONSTANTS
  Recognized <- RecognizedIds
  Others <- OtherIds
  Uids = {u1}
  EmptyUid = EmptyUid
  NoUid = NoUid
  Addresses = {a1}
  BlankEmail = BlankEmail
  NoEmail = NoEmail
  Gone = Gone
  LookupAttempts = 3
INVARIANTS
  OutcomeIsTruthful
