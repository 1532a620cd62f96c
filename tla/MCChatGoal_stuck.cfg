SPECIFICATION FairSpec
CONSTANTS
  g1 = g1
  u1 = u1
  None = None
  GoalIds <- MCGoalIds
  Users <- MCUsers
  Badges <- NoBadges
  Permissions <- MCPermissions
  PermissionsDefault <- MCPermissionsDefault
  MaxVotesDefault = 2
  CreateInputs <- OneTimed
  UpdateInputs <- NoInputs
  TimerIds = {t1, t2}
  Connections = {c1}
  Requests = {r1}
  SharedChannels <- MCGoalIds
  Ops = {"create", "start", "crash"}
  MaxTime = 2
  MaxVotes = 1
PROPERTIES
  CountdownEnds
CHECK_DEADLOCK FALSE
