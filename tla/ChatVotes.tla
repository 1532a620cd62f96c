----------------------------- MODULE ChatVotes -----------------------------
(* The chat votings of HoneyVotes (ChatVotesService) on top of the shared   *)
(* chat client (TwitchChatService).  A broadcaster has at most one voting,  *)
(* so that a channel names its voting, its entry in chatVotingList and its  *)
(* broadcaster.  A viewer votes with a chat message; the last one counts.   *)
(*                                                                         *)
(* The entry in memory says what is a vote and who may vote; the row says   *)
(* what the API shows and what the next process starts from; the chat       *)
(* client decides which messages arrive at all.                             *)
EXTENDS TwitchChat

CONSTANTS
  Viewers,            \* chatters
  ChatUserOf,         \* [Viewers -> ChatUser]: what their messages carry
  Messages,           \* texts of chat messages
  Permissions,        \* the permissions a body may carry
  Commands,           \* the pairs of commands a body may carry
  PermissionsDefault, \* CHAT_VOTING_PERMISSIONS_DEFAULT
  CommandsDefault,    \* CHAT_VOTING_COMMANDS_DEFAULT
  CreateInputs,       \* bodies of POST /chat-votes, without the broadcasterId
  UpdateInputs,       \* bodies of PUT /chat-votes/:chatVotingId
  Connections,        \* connections of the pg pool
  Requests,           \* requests about a voting that may be in progress together
  Ops,                \* bound: the operations this instance issues
  Self,               \* ChatVotesService.name
  None                \* no vote, no badge, no request

Operation == {"create", "update", "delete", "clear", "vote", "others",
              "disconnect", "refuse", "destroy", "crash", "fail"}

SubTier == {1, 2, 3}

\* What a subscriber's badges say: 0 months and no tier for everybody else.
ChatUser ==
  [isMod : BOOLEAN, isVip : BOOLEAN, months : Nat, tier : SubTier \cup {None}]

PermissionTable ==
  [viewer : BOOLEAN, sub : BOOLEAN, mod : BOOLEAN, vip : BOOLEAN,
   subMonthsRequired : Nat, subTierRequired : SubTier]

\* A text is told apart by what it equals, and by the texts it begins with and
\* has more than blanks after.
IsMessage(m) == DOMAIN m = {"whole", "extends"}

----------------------------------------------------------------------------
(* Columns: a row, an entry of the list and a request body are functions on *)
(* (some of) them.                                                          *)

EntryColumns == {"permissions", "commands"}

Columns == EntryColumns \cup {"listening"}

ColumnType(col) ==
  CASE col = "permissions" -> Permissions
    [] col = "commands"    -> Commands
    [] OTHER               -> BOOLEAN

IsColumns(f) ==
  /\ f = [col \in DOMAIN f |-> f[col]]
  /\ DOMAIN f \subseteq Columns
  /\ \A col \in DOMAIN f : f[col] \in ColumnType(col)

\* {...f, ...g}, and a row f after SET g: g wins.
Assign(f, g) ==
  [col \in DOMAIN f \cup DOMAIN g |-> IF col \in DOMAIN g THEN g[col] ELSE f[col]]

\* The columns of f that an entry keeps.
ForEntry(f) == [col \in DOMAIN f \cap EntryColumns |-> f[col]]

NoColumns == [col \in {} |-> None]

\* The absence of an entry in the list, or of a row in the table.
NoRow == NoColumns

EntryDefault ==
  [permissions |-> PermissionsDefault, commands |-> CommandsDefault]

\* Mutant: a column without a default.
VotingDefaultBare == [permissions |-> PermissionsDefault, listening |-> FALSE]

VotingDefault == Assign(EntryDefault, [listening |-> FALSE])

ASSUME VotesAssumption ==
  /\ Self \in ModuleIds
  /\ ChatUserOf \in [Viewers -> ChatUser]
  /\ Permissions \subseteq PermissionTable
  /\ PermissionsDefault \in Permissions
  /\ CommandsDefault \in Commands
  /\ CommandsDefault.vote # CommandsDefault.clearVotes
  /\ \A m \in Messages : IsMessage(m)
  /\ \A data \in CreateInputs \cup UpdateInputs : IsColumns(data)
  /\ Ops \subseteq Operation

----------------------------------------------------------------------------
VARIABLES
  proc,      \* "down", "starting", "up" or "closing" (onModuleDestroy ran)
  list,      \* chatVotingList: list[c] is the entry of channel c, or NoRow
  requests,  \* requests[r]: what canManageChatVoting has read, or None
  clearing,  \* channels with a !clearvotes whose sender is being looked up
  votings,   \* votings[c]: the row of hv_chat_voting, or NoRow
  votes,     \* votes[c][u]: the row of hv_chat_vote (its content), or None
  queries,   \* queries[k]: the statement in flight, or NoStatement
  said,      \* history: said[c][u], the vote that should count, or None
  clobbered, \* history: channels changed on the ground of a row out of date
  adrift     \* history: keys of rows whose statements overlapped, or failed

databaseVars == <<votings, votes>>
historyVars == <<said, clobbered, adrift>>
vars == <<chatVars, proc, list, requests, clearing, databaseVars, queries, historyVars>>

NoStatement == [kind |-> "none"]

Running == proc \in {"up", "closing"}

NoVotes == [u \in Viewers |-> None]

Init ==
  /\ ChatInit
  /\ proc = "down"
  /\ list = [c \in Channels |-> NoRow]
  /\ requests = [r \in Requests |-> None]
  /\ clearing = {}
  /\ votings = [c \in Channels |-> NoRow]
  /\ votes = [c \in Channels |-> NoVotes]
  /\ queries = [k \in Connections |-> NoStatement]
  /\ said = [c \in Channels |-> NoVotes]
  /\ clobbered = {}
  /\ adrift = {}

ProcessEnds ==
  /\ ChatEnds
  /\ proc' = "down"
  /\ list' = [c \in Channels |-> NoRow]
  /\ requests' = [r \in Requests |-> None]
  /\ clearing' = {}
  /\ said' = [c \in Channels |-> NoVotes]
  /\ clobbered' = {}
  /\ adrift' = {}

ProcessGoesOn == UNCHANGED <<chatVars, proc, list, requests, clearing, historyVars>>

----------------------------------------------------------------------------
(* The process                                                              *)

\* The chat client starts to connect (its onModuleInit).
Start ==
  /\ proc = "down"
  /\ proc' = "starting"
  /\ UNCHANGED <<chatVars, list, requests, clearing, databaseVars, queries, historyVars>>

\* onModuleInit, which may find the client connected already.  The statements
\* of the last process are over by then.
ModuleInit ==
  /\ proc = "starting"
  /\ \A k \in Connections : queries[k] = NoStatement
  /\ proc' = "up"
  /\ list' = [c \in Channels |-> ForEntry(votings[c])]
  /\ Join({c \in Channels : votings[c] # NoRow /\ votings[c]["listening"]}, Self)
  /\ said' = votes
  /\ UNCHANGED <<requests, clearing, databaseVars, queries, clobbered, adrift>>

\* The client quits (its onModuleDestroy); this service has nothing to do.
ModuleDestroy ==
  /\ "destroy" \in Ops
  /\ proc = "up"
  /\ proc' = "closing"
  /\ Quit
  /\ UNCHANGED <<list, requests, clearing, databaseVars, queries, historyVars>>

Exit ==
  /\ proc = "closing"
  /\ \A k \in Connections : queries[k] = NoStatement
  /\ ProcessEnds
  /\ UNCHANGED <<databaseVars, queries>>

Crash ==
  /\ "crash" \in Ops
  /\ proc # "down"
  /\ ProcessEnds
  /\ UNCHANGED <<databaseVars, queries>>

\* The connection of the client, and the other modules that use it.
ChatMoves ==
  /\ proc # "down"
  /\ \/ Register
     \/ "disconnect" \in Ops /\ Disconnect
     \/ \E c \in Channels : Answers(c)
     \/ \E c \in Channels : "refuse" \in Ops /\ Refuses(c)
     \/ \E c \in Channels, m \in ModuleIds \ {Self} :
          "others" \in Ops /\ (Join({c}, m) \/ Part(c, m))
  /\ UNCHANGED <<proc, list, requests, clearing, databaseVars, queries, historyVars>>

----------------------------------------------------------------------------
(* Statements.  The save of a vote is a SELECT and then, on the same        *)
(* connection, an INSERT or an UPDATE; the save of a voting is taken as one *)
(* statement.  The saves of votes and the deletes that "!clearvotes" sends  *)
(* are awaited by nobody: when one fails, the rejection ends the process.   *)

\* The primary keys of hv_chat_voting and of hv_chat_vote.
Keys == {<<c>> : c \in Channels} \cup (Channels \X Viewers)

\* The rows a statement writes, by their keys.
RowsOf(q) ==
  CASE q.kind = "none"   -> {}
    [] q.kind = "save"   -> {<<q.channel>>}
    [] q.kind = "delete" -> {<<q.channel>>} \cup ({q.channel} \X Viewers)
    [] q.kind = "clear"  -> {q.channel} \X Viewers
    [] OTHER             -> {<<q.channel, q.content.viewer>>}

Busy(row) == \E k \in Connections : row \in RowsOf(queries[k])

\* History: a row is adrift when another statement about it is in flight, whose
\* order nobody knows; a vote, a clear and a delete leave nothing of what was
\* there, and set right what they are alone with.
Issue(kind, c, content, detached) ==
  LET q == [kind |-> kind, channel |-> c, content |-> content, detached |-> detached]
  IN /\ \E k \in Connections :
          queries[k] = NoStatement /\ queries' = [queries EXCEPT ![k] = q]
     /\ adrift' = (IF kind = "save" THEN adrift ELSE adrift \ RowsOf(q))
                    \cup {row \in RowsOf(q) : Busy(row)}

Settle(k) == queries' = [queries EXCEPT ![k] = NoStatement]

Holds(k, kind) == queries[k].kind = kind

SavesVoting(k) ==
  LET c == queries[k].channel
  IN /\ Holds(k, "save")
     /\ votings' = [votings EXCEPT ![c] =
                      Assign(IF @ = NoRow THEN VotingDefault ELSE @, queries[k].content)]
     /\ Settle(k)
     /\ UNCHANGED votes
     /\ ProcessGoesOn

\* The votes of a voting go with it (ON DELETE CASCADE).
DeletesVoting(k) ==
  /\ Holds(k, "delete")
  /\ votings' = [votings EXCEPT ![queries[k].channel] = NoRow]
  /\ votes' = [votes EXCEPT ![queries[k].channel] = NoVotes]
  /\ Settle(k)
  /\ ProcessGoesOn

DeletesVotes(k) ==
  /\ Holds(k, "clear")
  /\ votes' = [votes EXCEPT ![queries[k].channel] = NoVotes]
  /\ Settle(k)
  /\ UNCHANGED votings
  /\ ProcessGoesOn

SelectsVote(k) ==
  LET q == queries[k]
  IN /\ Holds(k, "select")
     /\ queries' = [queries EXCEPT ![k] = [q EXCEPT !.kind =
          IF votes[q.channel][q.content.viewer] = None THEN "insert" ELSE "update"]]
     /\ UNCHANGED databaseVars
     /\ ProcessGoesOn

\* An INSERT needs the voting (foreign key), and no vote of this viewer (primary
\* key) by now.
InsertsVote(k) ==
  LET c == queries[k].channel
      u == queries[k].content.viewer
  IN /\ Holds(k, "insert")
     /\ Settle(k)
     /\ UNCHANGED votings
     /\ IF votings[c] # NoRow /\ votes[c][u] = None
        THEN /\ votes' = [votes EXCEPT ![c][u] = queries[k].content.message]
             /\ ProcessGoesOn
        ELSE /\ UNCHANGED votes
             /\ IF Running THEN ProcessEnds ELSE ProcessGoesOn

\* Mutant: a viewer who has voted already keeps the first vote.
UpdatesVoteNever(k) ==
  /\ Holds(k, "update")
  /\ Settle(k)
  /\ UNCHANGED databaseVars
  /\ ProcessGoesOn

\* An UPDATE changes the vote if it is still there.
UpdatesVote(k) ==
  LET c == queries[k].channel
      u == queries[k].content.viewer
  IN /\ Holds(k, "update")
     /\ votes' = [votes EXCEPT ![c][u] =
                    IF @ = None THEN None ELSE queries[k].content.message]
     /\ Settle(k)
     /\ UNCHANGED votings
     /\ ProcessGoesOn

\* A statement fails, or is lost with its process.
Fails(k) ==
  /\ queries[k] # NoStatement
  /\ "fail" \in Ops \/ ~Running
  /\ Settle(k)
  /\ UNCHANGED databaseVars
  /\ IF ~Running THEN ProcessGoesOn
     ELSE IF queries[k].detached THEN ProcessEnds
     ELSE /\ adrift' = adrift \cup RowsOf(queries[k])
          /\ UNCHANGED <<chatVars, proc, list, requests, clearing, said, clobbered>>

----------------------------------------------------------------------------
(* Requests                                                                 *)

\* onChatVotingChange, as far as the chat client is concerned.
Listen(c, data) ==
  IF "listening" \notin DOMAIN data THEN UNCHANGED chatVars
  ELSE IF data["listening"] THEN Join({c}, Self) ELSE Part(c, Self)

\* validateChatVoting
IsValid(data) ==
  "commands" \in DOMAIN data => data["commands"].vote # data["commands"].clearVotes

\* What the process holds of a voting, column by column.
InMemory(c) == Assign(list[c], [listening |-> Self \in SubscribersOf(c)])

\* Mutant: without commands in the body, the entry gets none.
AddChatVotingBare(c, data) ==
  /\ "create" \in Ops
  /\ Running
  /\ IsValid(data)
  /\ list' = [list EXCEPT ![c] = Assign([permissions |-> PermissionsDefault],
                                        ForEntry(data))]
  /\ Listen(c, data)
  /\ Issue("save", c, data, FALSE)
  /\ clobbered' = IF votings[c] = NoRow THEN clobbered ELSE clobbered \cup {c}
  /\ UNCHANGED <<proc, requests, clearing, databaseVars, said>>

\* addChatVoting: the entry and the subscription change before the row is stored;
\* what the body does not give is the default in the entry, and is left alone in
\* a row that exists.
AddChatVoting(c, data) ==
  /\ "create" \in Ops
  /\ Running
  /\ IsValid(data)
  /\ list' = [list EXCEPT ![c] = Assign(EntryDefault, ForEntry(data))]
  /\ Listen(c, data)
  /\ Issue("save", c, data, FALSE)
  /\ clobbered' = IF votings[c] = NoRow THEN clobbered ELSE clobbered \cup {c}
  /\ UNCHANGED <<proc, requests, clearing, databaseVars, said>>

\* canManageChatVoting reads the row, and then asks who the initiator is.
RequestReads(r, c) ==
  /\ {"update", "delete", "clear"} \cap Ops # {}
  /\ Running
  /\ requests[r] = None
  /\ votings[c] # NoRow
  /\ requests' = [requests EXCEPT ![r] = [channel |-> c, row |-> votings[c]]]
  /\ UNCHANGED <<chatVars, proc, list, clearing, databaseVars, queries, historyVars>>

RequestEnds(r) ==
  /\ Running
  /\ requests[r] # None
  /\ requests' = [requests EXCEPT ![r] = None]

\* ForbiddenException, or the BadRequestException of validateChatVoting.
RequestRejected(r) ==
  /\ RequestEnds(r)
  /\ UNCHANGED <<chatVars, proc, list, clearing, databaseVars, queries, historyVars>>

\* Mutant: the row that was read goes over the body.
UpdateChatVotingSwapped(r, data) ==
  LET c == requests[r].channel
  IN /\ "update" \in Ops
     /\ RequestEnds(r)
     /\ IsValid(data)
     /\ list' = [list EXCEPT ![c] = Assign(@, ForEntry(data))]
     /\ Listen(c, data)
     /\ Issue("save", c, Assign(data, requests[r].row), FALSE)
     /\ clobbered' = IF requests[r].row = InMemory(c) THEN clobbered
                     ELSE clobbered \cup {c}
     /\ UNCHANGED <<proc, clearing, databaseVars, said>>

\* updateChatVoting saves the whole row it has read back, under the body.
UpdateChatVoting(r, data) ==
  LET c == requests[r].channel
  IN /\ "update" \in Ops
     /\ RequestEnds(r)
     /\ IsValid(data)
     /\ list' = [list EXCEPT ![c] = Assign(@, ForEntry(data))]
     /\ Listen(c, data)
     /\ Issue("save", c, Assign(requests[r].row, data), FALSE)
     /\ clobbered' = IF requests[r].row = InMemory(c) THEN clobbered
                     ELSE clobbered \cup {c}
     /\ UNCHANGED <<proc, clearing, databaseVars, said>>

\* deleteChatVoting: the entry stays in the list.
DeleteChatVoting(r) ==
  LET c == requests[r].channel
  IN /\ "delete" \in Ops
     /\ RequestEnds(r)
     /\ Part(c, Self)
     /\ Issue("delete", c, NoColumns, FALSE)
     /\ said' = [said EXCEPT ![c] = NoVotes]
     /\ clobbered' = clobbered \ {c}
     /\ UNCHANGED <<proc, list, clearing, databaseVars>>

ClearChatVotes(r) ==
  LET c == requests[r].channel
  IN /\ "clear" \in Ops
     /\ RequestEnds(r)
     /\ Issue("clear", c, NoColumns, FALSE)
     /\ said' = [said EXCEPT ![c] = NoVotes]
     /\ UNCHANGED <<chatVars, proc, list, clearing, databaseVars, clobbered>>

----------------------------------------------------------------------------
(* Chat messages                                                            *)

IsSub(user, p) ==
  /\ p.subMonthsRequired > 0 => user.months >= p.subMonthsRequired
  /\ user.tier # None
  /\ user.tier >= p.subTierRequired

IsUserCanVote(user, p) ==
  \/ p.viewer
  \/ p.sub /\ IsSub(user, p)
  \/ p.vip /\ user.isVip
  \/ p.mod /\ user.isMod

\* A message reaches handleChatMessage, whoever joined the channel, and finds an
\* entry, whether or not its voting listens (or still exists).
Message(c) ==
  /\ "vote" \in Ops
  /\ Running
  /\ Heard(c)
  /\ list[c] # NoRow

\* "!clearvotes": canClearVotes looks its sender up.  Bound: one at a time in a
\* channel.
ClearMessage(c, m) ==
  /\ Message(c)
  /\ m.whole = list[c]["commands"].clearVotes
  /\ c \notin clearing
  /\ clearing' = clearing \cup {c}
  /\ UNCHANGED <<chatVars, proc, list, requests, databaseVars, queries, historyVars>>

\* The answer: the votes are deleted, or not.
ClearAnswered(c, hasAccess) ==
  /\ Running
  /\ c \in clearing
  /\ clearing' = clearing \ {c}
  /\ IF hasAccess
     THEN /\ Issue("clear", c, NoColumns, TRUE)
          /\ said' = [said EXCEPT ![c] = NoVotes]
     ELSE UNCHANGED <<queries, said, adrift>>
  /\ UNCHANGED <<chatVars, proc, list, requests, databaseVars, clobbered>>

VoteMessage(c, u, m) ==
  /\ Message(c)
  /\ m.whole # list[c]["commands"].clearVotes
  /\ list[c]["commands"].vote \in m.extends
  /\ IsUserCanVote(ChatUserOf[u], list[c]["permissions"])
  /\ Issue("select", c, [viewer |-> u, message |-> m], TRUE)
  /\ said' = [said EXCEPT ![c][u] = m]
  /\ UNCHANGED <<chatVars, proc, list, requests, clearing, databaseVars, clobbered>>

----------------------------------------------------------------------------
Next ==
  \/ Start
  \/ ModuleInit
  \/ ModuleDestroy
  \/ Exit
  \/ Crash
  \/ ChatMoves
  \/ \E k \in Connections :
       \/ SavesVoting(k)
       \/ DeletesVoting(k)
       \/ DeletesVotes(k)
       \/ SelectsVote(k)
       \/ InsertsVote(k)
       \/ UpdatesVote(k)
       \/ Fails(k)
  \/ \E c \in Channels :
       \/ \E data \in CreateInputs : AddChatVoting(c, data)
       \/ \E r \in Requests : RequestReads(r, c)
       \/ \E m \in Messages : ClearMessage(c, m)
       \/ \E hasAccess \in BOOLEAN : ClearAnswered(c, hasAccess)
       \/ \E u \in Viewers, m \in Messages : VoteMessage(c, u, m)
  \/ \E r \in Requests :
       \/ RequestRejected(r)
       \/ \E data \in UpdateInputs : UpdateChatVoting(r, data)
       \/ DeleteChatVoting(r)
       \/ ClearChatVotes(r)

Spec == Init /\ [][Next]_vars

----------------------------------------------------------------------------
(* Properties                                                               *)

ListOK ==
  /\ list = [c \in Channels |-> list[c]]
  /\ \A c \in Channels : IsColumns(list[c]) /\ DOMAIN list[c] \subseteq EntryColumns

RowOK(row) == IsColumns(row) /\ DOMAIN row = Columns

VotingsOK ==
  /\ votings = [c \in Channels |-> votings[c]]
  /\ \A c \in Channels : votings[c] = NoRow \/ RowOK(votings[c])

RequestsOK ==
  /\ requests = [r \in Requests |-> requests[r]]
  /\ \A r \in Requests : requests[r] # None =>
       requests[r].channel \in Channels /\ RowOK(requests[r].row)

VotesOK(f) == f \in [Channels -> [Viewers -> Messages \cup {None}]]

VoteKinds == {"select", "insert", "update"}

StatementOK(q) ==
  /\ q = [kind |-> q.kind, channel |-> q.channel, content |-> q.content,
          detached |-> q.detached]
  /\ q.kind \in {"save", "delete", "clear"} \cup VoteKinds
  /\ q.channel \in Channels
  /\ q.kind = "save" => IsColumns(q.content)
  /\ q.kind \in VoteKinds => q.content \in [viewer : Viewers, message : Messages]

QueriesOK ==
  /\ queries = [k \in Connections |-> queries[k]]
  /\ \A k \in Connections : queries[k] = NoStatement \/ StatementOK(queries[k])

\* The type invariant, the client's included.
TypeOK ==
  /\ ChatTypeOK
  /\ proc \in {"down", "starting", "up", "closing"}
  /\ ListOK
  /\ RequestsOK
  /\ clearing \subseteq Channels
  /\ VotingsOK
  /\ VotesOK(votes)
  /\ QueriesOK
  /\ VotesOK(said)
  /\ clobbered \subseteq Channels
  /\ adrift \subseteq Keys

\* While the server runs, a voting that has a row, or that a request has found,
\* has its entry, and an entry has both permissions and commands, and two commands
\* that differ: handleChatMessage reads both columns of whatever entry it finds,
\* and updateChatVoting may bring only one of them.
EntriesComplete ==
  /\ Running => \A c \in Channels : votings[c] # NoRow => list[c] # NoRow
  /\ \A r \in Requests : requests[r] # None => list[requests[r].channel] # NoRow
  /\ \A c \in Channels : list[c] # NoRow =>
       /\ DOMAIN list[c] = EntryColumns
       /\ list[c]["commands"].vote # list[c]["commands"].clearVotes

\* Once the statements about a vote are answered, what is stored is what the viewer
\* said last since the votes were cleared, deleted or loaded, unless the last of
\* those statements overlapped with another one, or failed.
VotesFollowChat ==
  Running => \A c \in Channels, u \in Viewers :
    <<c, u>> \notin adrift /\ ~Busy(<<c, u>>) => votes[c][u] = said[c][u]

\* Once the statements about a voting are answered, its row is what the process
\* goes by (permissions, commands, and whether the service is subscribed to the
\* channel), unless it was clobbered or is adrift; without a row, the service is
\* not subscribed.
RowFollowsMemory ==
  Running => \A c \in Channels \ clobbered :
    <<c>> \notin adrift /\ ~Busy(<<c>>) =>
      IF votings[c] = NoRow THEN Self \notin SubscribersOf(c)
      ELSE votings[c] = InMemory(c)

----------------------------------------------------------------------------
(* What the tests of the repository say, and the code does not              *)

\* chat-votes.e2e-spec.ts:619, "should stop listening chat if listening switches
\* to false": a message becomes a vote only while the voting listens.
VotesWhileListening ==
  [][\A k \in Connections :
       queries[k] = NoStatement /\ queries'[k].kind = "select"
       => Self \in SubscribersOf(queries'[k].channel)]_vars
=============================================================================
