SPECIFICATION Spec
CONSTANTS
  NoList = NoList
  Posts = {p1, p2, p3}
  MaxIgdbTokens = 2
  MaxLogs = 3
  Channels = {ch1, ch2}
  MessagesLimit = 2
  MaxMessages = 4
INVARIANTS
  TypeOK
  RenewsAlone
  LogsInOrder
  RecentInOrder
PROPERTIES
  PostsEnd
  LogsDrain
CHECK_DEADLOCK FALSE
