SPECIFICATION FairSpec
CONSTANTS
  c1 = c1
  c2 = c2
  h1 = h1
  Inbound = {c1}
  Outbound = {c2}
  Hangups = {h1}
  MaxTime = 1
  MaxCrashes = 1
INVARIANT FirstEventDecides
INVARIANT RemovedIsFinal
PROPERTY KeepsLifecycle
PROPERTY ReportedEndsSettle
CHECK_DEADLOCK FALSE
