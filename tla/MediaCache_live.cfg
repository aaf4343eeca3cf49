SPECIFICATION FairSpec
CHECK_DEADLOCK FALSE
CONSTANTS
  Requests = {r1, r2}
  Blobs = {b1, b2}
  Named = {b1}
  Contacts = {c1}
  None = None
  TTL = 1
  MaxTime = 1
  MaxFaults = 2
  MaxAuto = 1
INVARIANTS
  AnsweredGetTheirOwn
PROPERTIES
  MissesAreApart
  RequestsEnd
