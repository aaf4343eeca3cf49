SPECIFICATION Spec
CONSTANTS
  a1 = a1
  r1 = r1
  Free = Free
  Actions = {a1}
  Requests = {r1}
  Tools = {"send_message", "initiate_call"}
  CallTools = {"initiate_call"}
  TTL = 1
  MaxTime = 2
  MaxCrashes = 0
INVARIANT AtMostOnce
