SPECIFICATION Spec
CONSTANTS
  Channels = {c1}
  ModuleIds = {"ChatVotesService", "ChatGoalService"}
  MaxCommands = 2
  subscriber = subscriber
  None = None
  Viewers <- MCViewers
  ChatUserOf <- MCChatUserOf
  Messages <- MCMessages
  Permissions <- MCPermissions
  Commands <- MCCommands
  PermissionsDefault <- MCPermissionsDefault
  CommandsDefault <- MCCommandsDefault
  CreateInputs <- Switches
  UpdateInputs <- Switches
  Connections = {k1}
  Requests = {r1}
  Ops = {"create", "update", "vote", "others"}
  Self = "ChatVotesService"
PROPERTIES
  VotesWhileListening
CHECK_DEADLOCK FALSE
