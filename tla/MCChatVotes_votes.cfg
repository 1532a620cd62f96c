SPECIFICATION Spec
CONSTANTS
  Channels = {c1}
  ModuleIds = {"ChatVotesService", "ChatGoalService"}
  MaxCommands = 1
  subscriber = subscriber
  None = None
  Viewers <- MCViewers
  ChatUserOf <- MCChatUserOf
  Messages <- MCMessages
  Permissions <- MCPermissions
  Commands <- MCCommands
  PermissionsDefault <- MCPermissionsDefault
  CommandsDefault <- MCCommandsDefault
  CreateInputs <- MCCreateInputs
  UpdateInputs <- MCUpdateInputs
  Connections = {k1, k2}
  Requests = {r1}
  Ops = {"create", "update", "delete", "clear", "vote", "others", "disconnect", "refuse", "destroy", "crash", "fail"}
  Self = "ChatVotesService"
INVARIANTS
  TypeOK
  EntriesComplete
  VotesFollowChat
  RowFollowsMemory
CHECK_DEADLOCK FALSE
