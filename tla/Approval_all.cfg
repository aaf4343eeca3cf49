SPECIFICATION FairSpec
CONSTANTS
  a1 = a1
  r1 = r1
  r2 = r2
  Free = Free
  Actions = {a1}
  Requests = {r1, r2}
  Tools = {"send_message", "initiate_call"}
  CallTools = {"initiate_call"}
  TTL = 1
  MaxTime = 2
  MaxCrashes = 1
INVARIANT NothingWithoutApproval
INVARIANT AuditIsSound
INVARIANT OneWinner
INVARIANT AnswersStayTrue
INVARIANT ApprovedHasOwner
PROPERTY RequestsEnd
PROPERTY KeepsGate
