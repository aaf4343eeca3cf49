SPECIFICATION FairSpec
CHECK_DEADLOCK FALSE
CONSTANTS
  Chats = {c1, c2}
  Emojis = {heart}
  None = None
  Gets = {1, 2}
  Posts = {1, 2}
  Patience = 1
  MaxMessages = 3
  MaxActs = 3
  MaxDrops = 1
  MaxFaults = 1
INVARIANTS
  TableIsDone
  ReactionsAgree
PROPERTY PolledViewIsTrue
