SPECIFICATION Spec
CONSTANTS
  owner = owner
  editor = editor
  mod = mod
  sub = sub
  v1 = v1
  v2 = v2
  r1 = r1
  r2 = r2
  None = None
  Users <- MCUsers
  VotingIds = {v1, v2}
  OptionIds = {1, 2, 3, 4}
  Cards <- MCCards
  Broadcaster <- MCBroadcaster
  RolesOf <- MCRolesOf
  Bodies <- MCBodies
  Limits = {1, 2}
  LimitDefault = 2
  Requests = {r1, r2}
  Actors <- MCActors
INVARIANTS
  TypeOK
  VotesHaveOptions
  OptionsPerUser
  OptionsWithinLimit
  CardsPerVoting
  VotesWithinRate
  RowFollowsRequests
PROPERTY
  VotesNotLost
CONSTRAINT OneVoting
SYMMETRY Symmetry
CHECK_DEADLOCK FALSE
