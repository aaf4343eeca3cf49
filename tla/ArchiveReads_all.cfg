SPECIFICATION ReadSpec
CHECK_DEADLOCK FALSE
CONSTANTS
  alice = alice
  group = group
  People = {alice}
  Groups = {group}
  Me = me
  Known = {alice}
  Msgs = {1, 2}
  Resent = {1}
  Traffics <- MCTraffics
  MaxTime = 2
  MaxLearnt = 1
  MaxStarts = 1
  Hits = {1}
  Within = {}
  Listings <- MCListings
  PageSize = 1
  Context = 1
INVARIANTS
  RowsHaveChats
  OnePersonOneAddress
  ContactIsWhole
  KnownAreNamed
PROPERTIES
  NothingIsLost
  TurnsUnread
  PagingMissesNothing
