SPECIFICATION Spec
CONSTANTS
  g1 = g1
  u1 = u1
  None = None
  GoalIds <- MCGoalIds
  Users <- MCUsers
  Badges <- MCBadges
  Permissions <- MCPermissions
  PermissionsDefault <- MCPermissionsDefault
  MaxVotesDefault = 2
  CreateInputs <- OneTimed
  UpdateInputs <- OneUntimed
  TimerIds = {t1, t2}
  Connections = {c1}
  Requests = {r1}
  SharedChannels <- MCGoalIds
  Ops = {"create", "update", "start", "pause", "reset", "vote", "destroy"}
  MaxTime = 1
  MaxVotes = 2
SYMMETRY Interchangeable
INVARIANT
  TypeOK
PROPERTIES
  FinishedReopensEmpty
CHECK_DEADLOCK FALSE
