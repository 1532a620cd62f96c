SPECIFICATION FairChatSpec
CONSTANTS
  Channels = {c1, c2}
  ModuleIds = {"ChatVotesService", "ChatGoalService"}
  MaxCommands = 2
INVARIANTS
  SubscribedIsHeard
PROPERTIES
  SubscribedGetsHeard
  ImplementsSubscriptions
CHECK_DEADLOCK FALSE
