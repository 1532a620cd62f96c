SPECIFICATION Spec
CONSTANTS
  g1 = g1
  u1 = u1
  None = None
  GoalIds <- MCGoalIds
  Users <- MCUsers
  Badges <- MCBadges
  Permissions <- MCPermissions
  PermissionsDefault <- MCPermissionsDefault
  MaxVotesDefault = 2
  CreateInputs <- OneUntimed
  UpdateInputs <- ListenAndTarget
  TimerIds = {t1}
  Connections = {c1, c2}
  Requests = {r1}
  SharedChannels <- MCGoalIds
  Ops = {"create", "update", "delete", "start", "vote", "crash", "fail", "reset"}
  MaxTime = 1
  MaxVotes = 1
SYMMETRY Interchangeable
INVARIANTS
  RowHasGoal
  RowFollowsGoal
  OpenVoteBelowTarget
  EventHasItsGoal
CHECK_DEADLOCK FALSE
