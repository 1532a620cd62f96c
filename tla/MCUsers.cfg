SPECIFICATION FairSpec
CONSTANTS
  owner = owner
  viewer = viewer
  None = None
  Rejected = Rejected
  UserIds = {owner, viewer}
  first = first
  second = second
  Calls = {first, second}
  CallsOf <- MCCallsOf
  Logins = {l1}
  CACHE_TTL = 2
  MaxDelay = 1
  MaxPairs = 3
INVARIANTS
  TypeOK
  RefreshedOnce
  WaitersAreServed
  StoredTokenNotRevoked
  InvalidAfterRefusal
PROPERTIES
  RolesHeldLately
  CallsEnd
CONSTRAINT OneTraffic
CHECK_DEADLOCK FALSE
