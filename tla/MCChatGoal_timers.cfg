SPECIFICATION FairSpec
CONSTANTS
  g1 = g1
  u1 = u1
  None = None
  GoalIds <- MCGoalIds
  Users <- MCUsers
  Badges <- NoBadges
  Permissions <- MCPermissions
  PermissionsDefault <- MCPermissionsDefault
  MaxVotesDefault = 2
  CreateInputs <- TwoTimed
  UpdateInputs <- NoInputs
  TimerIds = {t1, t2}
  Connections = {c1}
  Requests = {r1}
  SharedChannels <- MCGoalIds
  Ops = {"create", "start", "pause", "reset", "resetVotes", "vote", "destroy", "crash"}
  MaxTime = 4
  MaxVotes = 1
INVARIANTS
  RunningTimerArmed
  NoStrayTimer
PROPERTIES
  ArmedCountdownEnds
  VoteNotEarly
CHECK_DEADLOCK FALSE
