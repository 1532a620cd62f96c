------------------------------ MODULE ChatGoal ------------------------------
(***************************************************************************)
(* The chat goal of HoneyVotes (ChatGoalService): one goal per broadcaster, *)
(* kept in the memory of the server process and, behind it, in the table   *)
(* hv_chat_goal.  A goal may start with a countdown; when the countdown    *)
(* ends, viewers vote from the Twitch chat until the goal is reached.      *)
(*                                                                         *)
(* Memory changes at once inside a handler; the statement that stores the  *)
(* change is only sent then.  Statements wait on the connections of the pg *)
(* pool and take effect in any order; the process may stop between any two *)
(* steps and is then rebuilt from the rows.                                *)
(***************************************************************************)
EXTENDS Integers

CONSTANTS
  GoalIds,            \* broadcaster ids, the keys of the goals map
  Users,              \* chatters
  Badges,             \* [Users -> SUBSET Role]: the roles a chatter's badges show
  Permissions,        \* the permission tables a goal may carry
  PermissionsDefault, \* CHAT_GOAL_PERMISSIONS_DEFAULT
  MaxVotesDefault,    \* CHAT_VOTES_MAX_VOTES_VALUE_DEFAULT
  CreateInputs,       \* bodies of POST /chat-goal, without the broadcasterId
  UpdateInputs,       \* bodies of PUT /chat-goal/:goalId
  TimerIds,           \* Timeout objects
  Connections,        \* connections of the pg pool
  Requests,           \* PUT requests that may be in progress together
  SharedChannels,     \* goals whose channel another module keeps joined
  Ops,                \* bound: the operations this instance issues
  MaxTime,            \* bound: the last instant of the clock
  MaxVotes,           \* bound: votesValue stays within -MaxVotes..MaxVotes
  None                \* no timer, no request

Operation ==
  {"create", "update", "delete", "start", "pause", "reset", "resetVotes",
   "vote", "destroy", "crash", "fail"}

Role == {"mod", "vip", "subTier1", "subTier2", "subTier3", "viewer"}

PermissionTable ==
  [Role -> [canUpvote: BOOLEAN, canDownvote: BOOLEAN, votesAmount: Nat]]

EventType == {"upvote", "downvote"}

IdleStatus == {"TimerIdle", "VotingIdle"}

ChatGoalStatus ==
  IdleStatus \cup {"Uninitialized", "TimerRunning", "TimerPaused",
                   "VotingRunning", "VotingPaused", "VotingFinished"}

----------------------------------------------------------------------------
(* Columns.  A row, the options and state of a goal in memory, a request    *)
(* body and the SET clause of a statement are all functions from column     *)
(* names to values; the last two are partial.                               *)

StateColumns ==
  {"status", "endTimerTimestamp", "remainingTimerDuration", "votesValue"}

OptionColumns == {"permissions", "listening", "timerDuration", "maxVotesValue"}

Columns == StateColumns \cup OptionColumns

ColumnType(c) ==
  CASE c = "status"        -> ChatGoalStatus
    [] c = "permissions"   -> Permissions
    [] c = "listening"     -> BOOLEAN
    [] c = "timerDuration" -> Nat
    [] c = "maxVotesValue" -> Nat
    [] OTHER               -> Int

\* f is a function on some of the columns, each with a value of its type.
IsColumns(f) ==
  /\ f = [c \in DOMAIN f |-> f[c]]
  /\ DOMAIN f \subseteq Columns
  /\ \A c \in DOMAIN f : f[c] \in ColumnType(c)

IsRow(f) == IsColumns(f) /\ DOMAIN f = Columns

\* Object.assign(f, g), {...f, ...g} and a row f after SET g: g wins.
Assign(f, g) ==
  [c \in DOMAIN f \cup DOMAIN g |-> IF c \in DOMAIN g THEN g[c] ELSE f[c]]

NoColumns == [c \in {} |-> None]

\* The absence of a goal in the map, or of a row in the table.
NoRow == NoColumns

GoalDefault ==
  [permissions |-> PermissionsDefault, listening |-> FALSE,
   timerDuration |-> 0, maxVotesValue |-> MaxVotesDefault,
   status |-> "Uninitialized", endTimerTimestamp |-> 0,
   remainingTimerDuration |-> 0, votesValue |-> 0]

----------------------------------------------------------------------------
ASSUME InputsAssumption ==
  /\ Permissions \subseteq PermissionTable
  /\ PermissionsDefault \in Permissions
  /\ MaxVotesDefault \in Nat
  /\ \A d \in CreateInputs \cup UpdateInputs :
       IsColumns(d) /\ DOMAIN d \subseteq OptionColumns

ASSUME EnvironmentAssumption ==
  /\ Badges \in [Users -> SUBSET Role]
  /\ SharedChannels \subseteq GoalIds
  /\ Ops \subseteq Operation
  /\ MaxTime \in Nat
  /\ MaxVotes \in Nat
  /\ None \notin TimerIds

----------------------------------------------------------------------------
VARIABLES
  proc,             \* "up", "closing" (onModuleDestroy ran) or "down"
  goals,            \* goals[g]: options and state in memory, or NoRow
  votesCountByUser, \* votesCountByUser[g][u]
  timeout,          \* timeout[g]: the Timeout object the goal holds, or None
  timers,           \* timers[t]: the armed timeout, or None (fired, cleared)
  joined,           \* goals whose channel ChatGoalService asked to join
  reads,            \* reads[r]: the row a PUT request has read, or None
  rows,             \* rows[g]: the committed row of hv_chat_goal, or NoRow
  queries,          \* queries[c]: the statement in flight, or NoStatement
  now,              \* Date.now()
  history,          \* history variable, read by no action (see Lineage)
  adrift            \* history variable: goals whose row went its own way

memory == <<goals, votesCountByUser, timeout, timers, joined, reads>>
vars == <<proc, memory, rows, queries, now, history, adrift>>

\* How the goal in memory came about.  "clean": created by this process and
\* changed only by its own transitions.  "restored": read back at start-up.
\* "clobbered": a second create replaced it, or an update was based on a row
\* that no longer described it (or took it out of a running countdown).
\* "astray": read back from the row that a clobbered goal, or one adrift, left.
\* While the process is down a goal is "clobbered" if it would be read so.
Lineage == {"clean", "restored", "astray", "clobbered"}

IsStatement(q) ==
  /\ q.kind \in {"update", "save", "delete"}
  /\ q.detached \in BOOLEAN
  /\ q.event \in BOOLEAN
  /\ DOMAIN q.cols \subseteq GoalIds
  /\ \A g \in DOMAIN q.cols : IsColumns(q.cols[g])

----------------------------------------------------------------------------
(* Statements                                                               *)

\* A connection without one.
NoStatement ==
  [kind |-> "none", cols |-> NoColumns, detached |-> FALSE, event |-> FALSE]

InFlight(g) ==
  \E c \in Connections : queries[c] # NoStatement /\ g \in DOMAIN queries[c].cols

\* `kind` UPDATE (of an existing row), save (insert or update) or DELETE;
\* `cols[g]` what it sets for goal g; `detached`: no request awaits it, so that
\* its failure is an unhandled rejection, which ends the process; `event`: it
\* also stores a ChatGoalEvent, whose foreign key needs the row of the goal.
\* A goal goes adrift when two statements about it are in flight together, as the
\* pool may answer them in either order, when its row is deleted (the goal stays
\* in memory), and when a statement about it fails (memory is not taken back).
Issue(kind, cols, detached, event) ==
  /\ \E c \in Connections :
       /\ queries[c] = NoStatement
       /\ queries' = [queries EXCEPT ![c] =
            [kind |-> kind, cols |-> cols, detached |-> detached, event |-> event]]
  /\ adrift' = adrift \cup {g \in DOMAIN cols : kind = "delete" \/ InFlight(g)}

Only(g, cols) == [x \in {g} |-> cols]

\* updateGoalState: memory first, then the UPDATE of the same columns.
UpdateGoalState(g, changes, detached, event) ==
  /\ goals' = [goals EXCEPT ![g] = Assign(@, changes)]
  /\ Issue("update", Only(g, changes), detached, event)

\* Mutant: a save that only updates.
WrittenUpdateOnly(q, g) ==
  IF q.kind = "delete" \/ rows[g] = NoRow THEN NoRow ELSE Assign(rows[g], q.cols[g])

Written(q, g) ==
  IF q.kind = "delete" \/ (q.kind = "update" /\ rows[g] = NoRow) THEN NoRow
  ELSE Assign(IF rows[g] = NoRow THEN GoalDefault ELSE rows[g], q.cols[g])

----------------------------------------------------------------------------
(* The process                                                              *)

Running == proc # "down"

Init ==
  /\ proc = "down"
  /\ goals = [g \in GoalIds |-> NoRow]
  /\ votesCountByUser = [g \in GoalIds |-> [u \in Users |-> 0]]
  /\ timeout = [g \in GoalIds |-> None]
  /\ timers = [t \in TimerIds |-> None]
  /\ joined = {}
  /\ reads = [r \in Requests |-> None]
  /\ rows = [g \in GoalIds |-> NoRow]
  /\ queries = [c \in Connections |-> NoStatement]
  /\ now = 0
  /\ history = [g \in GoalIds |-> "clean"]
  /\ adrift = {}

\* The row that this process leaves may be one that no goal ever was.
LeavesAstray(g) ==
  \/ history[g] \in {"astray", "clobbered"}
  \/ g \in adrift /\ (InFlight(g) \/ rows[g] # goals[g])

\* The memory of the process is lost with it, its armed timeouts too.
ProcessEnds ==
  /\ proc' = "down"
  /\ goals' = [g \in GoalIds |-> NoRow]
  /\ votesCountByUser' = [g \in GoalIds |-> [u \in Users |-> 0]]
  /\ timeout' = [g \in GoalIds |-> None]
  /\ timers' = [t \in TimerIds |-> None]
  /\ joined' = {}
  /\ reads' = [r \in Requests |-> None]
  /\ history' = [g \in GoalIds |->
       IF LeavesAstray(g) THEN "clobbered" ELSE "clean"]
  /\ adrift' = {}

\* What hv_chat_goal_data holds for a goal: no statement ever sets its column
\* votesCountByUser, so a row of it, if there is one, has the default {}.
StoredVotesCount(g) == [u \in Users |-> 0]

\* Mutant: every countdown that was running is restored as an open vote.
RestoredStatusOpen(row) ==
  IF row.status = "TimerRunning" THEN "VotingRunning" ELSE row.status

\* The status a row is restored with: an expired countdown has become a vote.
\* A countdown still running is restored as it is, and without a timeout.  (The
\* driver returns the bigint endTimerTimestamp as a string; it is only ever
\* compared and subtracted, which makes it the number again.)
RestoredStatus(row) ==
  IF row.status = "TimerRunning" /\ now >= row.endTimerTimestamp
  THEN "VotingRunning" ELSE row.status

Restored(row) == Assign(row, [status |-> RestoredStatus(row)])

\* onModuleInit.  It runs once the statements of the last process are over.
ModuleInit ==
  /\ proc = "down"
  /\ \A c \in Connections : queries[c] = NoStatement
  /\ proc' = "up"
  /\ goals' = [g \in GoalIds |->
       IF rows[g] = NoRow THEN NoRow
       ELSE Restored(rows[g])]
  /\ votesCountByUser' = [g \in GoalIds |-> StoredVotesCount(g)]
  /\ timeout' = [g \in GoalIds |-> None]
  /\ joined' = {g \in GoalIds : rows[g] # NoRow /\ rows[g].listening}
  /\ history' = [g \in GoalIds |-> IF rows[g] = NoRow THEN "clean"
                                  ELSE IF history[g] = "clobbered" THEN "astray"
                                  ELSE "restored"]
  /\ UNCHANGED <<timers, reads, rows, queries, now, adrift>>

\* onModuleDestroy saves the state of every goal in memory; the handlers keep
\* running until app.close() has drained the pool and the process exits.
ModuleDestroy ==
  /\ "destroy" \in Ops
  /\ proc = "up"
  /\ proc' = "closing"
  /\ Issue("save", [g \in {x \in GoalIds : goals[x] # NoRow} |->
                      [c \in StateColumns |-> goals[g][c]]], FALSE, FALSE)
  /\ UNCHANGED <<memory, rows, now, history>>

Exit ==
  /\ proc = "closing"
  /\ \A c \in Connections : queries[c] = NoStatement
  /\ ProcessEnds
  /\ UNCHANGED <<rows, queries, now>>

Crash ==
  /\ "crash" \in Ops
  /\ Running
  /\ ProcessEnds
  /\ UNCHANGED <<rows, queries, now>>

Tick ==
  /\ now < MaxTime
  /\ now' = now + 1
  /\ UNCHANGED <<proc, memory, rows, queries, history, adrift>>

----------------------------------------------------------------------------
(* The database                                                             *)

Settle(c) == queries' = [queries EXCEPT ![c] = NoStatement]

\* A statement commits.  An event without its goal violates a foreign key; the
\* rejection is handled nowhere, so it takes the process down.
Commits(c) ==
  LET q == queries[c]
  IN /\ q # NoStatement
     /\ Settle(c)
     /\ rows' = [g \in GoalIds |->
                   IF g \in DOMAIN q.cols THEN Written(q, g) ELSE rows[g]]
     /\ UNCHANGED now
     /\ IF Running /\ q.event /\ \E g \in DOMAIN q.cols : rows[g] = NoRow
        THEN ProcessEnds
        ELSE UNCHANGED <<proc, memory, history, adrift>>

\* A statement fails (a lost connection), or is lost with its process.
Fails(c) ==
  /\ queries[c] # NoStatement
  /\ "fail" \in Ops \/ ~Running
  /\ Settle(c)
  /\ UNCHANGED <<rows, now>>
  /\ IF Running /\ queries[c].detached
     THEN ProcessEnds
     ELSE /\ adrift' = IF Running THEN adrift \cup DOMAIN queries[c].cols ELSE adrift
          /\ UNCHANGED <<proc, memory, history>>

----------------------------------------------------------------------------
(* Requests.  Each is the part of a handler after its canManage resolved to *)
(* true; before that it reads nothing of the goal, except for updateGoal.   *)

IdleStatusFor(duration) == IF duration > 0 THEN "TimerIdle" ELSE "VotingIdle"

\* createGoal replaces whatever the map holds; an armed timeout is not cleared.
\* The row keeps the columns the body does not give.
CreateGoal(g, data) ==
  LET options == Assign(GoalDefault, data)
      status  == [status |-> IdleStatusFor(options.timerDuration)]
  IN /\ "create" \in Ops
     /\ Running
     /\ goals' = [goals EXCEPT ![g] = Assign(options, status)]
     /\ votesCountByUser' = [votesCountByUser EXCEPT ![g] = [u \in Users |-> 0]]
     /\ timeout' = [timeout EXCEPT ![g] = None]
     /\ Issue("save", Only(g, Assign(data, status)), FALSE, FALSE)
     /\ history' = [history EXCEPT ![g] =
                      IF goals[g] = NoRow THEN "clean" ELSE "clobbered"]
     /\ UNCHANGED <<proc, timers, joined, reads, rows, now>>

\* updateGoal, first half: findOne, while canManage is still being answered.
UpdateReads(r, g) ==
  /\ "update" \in Ops
  /\ Running
  /\ reads[r] = None
  /\ rows[g] # NoRow
  /\ reads' = [reads EXCEPT ![r] = [goal |-> g, row |-> rows[g]]]
  /\ UNCHANGED <<proc, goals, votesCountByUser, timeout, timers, joined, rows,
                 queries, now, history, adrift>>

\* The state changes an update brings: the idle status is chosen from the row
\* that was read, the finished one from the votes in memory.
UpdateChanges(row, data, votesValue) ==
  IF "maxVotesValue" \in DOMAIN data /\ data["maxVotesValue"] <= votesValue
  THEN [status |-> "VotingFinished"]
  ELSE IF "timerDuration" \in DOMAIN data /\ row.status \in IdleStatus
       THEN [status |-> IdleStatusFor(data["timerDuration"])]
       ELSE NoColumns

\* updateGoal, second half: memory is updated, and the whole row that was read
\* is saved back under the changes.
UpdateApplies(r, data) ==
  LET g       == reads[r].goal
      row     == reads[r].row
      changes == UpdateChanges(row, data, goals[g].votesValue)
  IN /\ Running
     /\ reads[r] # None
     /\ goals[g] # NoRow
     /\ reads' = [reads EXCEPT ![r] = None]
     /\ goals' = [goals EXCEPT ![g] = Assign(Assign(@, changes), data)]
     /\ joined' = IF "listening" \notin DOMAIN data THEN joined
                  ELSE IF data["listening"] THEN joined \cup {g} ELSE joined \ {g}
     /\ Issue("save", Only(g, Assign(Assign(row, data), changes)), FALSE, FALSE)
     /\ history' = [history EXCEPT ![g] =
          IF \/ \E c \in Columns : row[c] # goals[g][c]
             \/ goals[g].status = "TimerRunning" /\ "status" \in DOMAIN changes
          THEN "clobbered" ELSE @]
     /\ UNCHANGED <<proc, votesCountByUser, timeout, timers, rows, now>>

\* Mutant: the entry leaves the map while the row is still being deleted.
DeleteGoalAndEntry(g) ==
  /\ "delete" \in Ops
  /\ Running
  /\ goals' = [goals EXCEPT ![g] = NoRow]
  /\ Issue("delete", Only(g, NoColumns), FALSE, FALSE)
  /\ UNCHANGED <<proc, votesCountByUser, timeout, timers, joined, reads, rows,
                 now, history>>

\* deleteGoal deletes the row; the goal stays in memory and in the chat.
DeleteGoal(g) ==
  /\ "delete" \in Ops
  /\ Running
  /\ Issue("delete", Only(g, NoColumns), FALSE, FALSE)
  /\ UNCHANGED <<proc, memory, rows, now, history>>

\* setTimeout; bound: the timeout is due before the clock stops.
ArmTimer(g, delay) ==
  /\ now + delay <= MaxTime
  /\ \E t \in TimerIds :
       /\ timers[t] = None
       /\ \A h \in GoalIds : timeout[h] # t
       /\ timers' = [timers EXCEPT ![t] = [goal |-> g, due |-> now + delay]]
       /\ timeout' = [timeout EXCEPT ![g] = t]

\* clearTimeout(goal.timeout), which does nothing on a spent timeout.
ClearTimer(g) ==
  timers' = [t \in TimerIds |-> IF t = timeout[g] THEN None ELSE timers[t]]

\* Mutant: a resumed countdown shows its full duration again.
StartTimerFullEnd(g) ==
  /\ goals[g].status \in {"TimerIdle", "TimerPaused"}
  /\ ArmTimer(g, IF goals[g].status = "TimerIdle"
                 THEN goals[g].timerDuration ELSE goals[g].remainingTimerDuration)
  /\ UpdateGoalState(g, [status |-> "TimerRunning",
       endTimerTimestamp |-> now + goals[g].timerDuration], FALSE, FALSE)

\* Mutant: only a fresh countdown arms a timeout, a resumed one does not.
StartTimerOnce(g) ==
  IF goals[g].status = "TimerIdle"
  THEN /\ ArmTimer(g, goals[g].timerDuration)
       /\ UpdateGoalState(g, [status |-> "TimerRunning",
            endTimerTimestamp |-> now + goals[g].timerDuration], FALSE, FALSE)
  ELSE /\ goals[g].status = "TimerPaused"
       /\ UpdateGoalState(g, [status |-> "TimerRunning",
            endTimerTimestamp |-> now + goals[g].remainingTimerDuration], FALSE, FALSE)
       /\ UNCHANGED <<timeout, timers>>

StartTimer(g) ==
  LET delay == IF goals[g].status = "TimerIdle"
               THEN goals[g].timerDuration ELSE goals[g].remainingTimerDuration
  IN /\ goals[g].status \in {"TimerIdle", "TimerPaused"}
     /\ ArmTimer(g, delay)
     /\ UpdateGoalState(g, [status |-> "TimerRunning",
                            endTimerTimestamp |-> now + delay], FALSE, FALSE)

\* Mutant: a finished goal can be started.
StartVotingAgain(g) ==
  /\ goals[g].status \in {"VotingIdle", "VotingPaused", "VotingFinished"}
  /\ UpdateGoalState(g, [status |-> "VotingRunning"], FALSE, FALSE)
  /\ UNCHANGED <<timeout, timers>>

\* Mutant: the opening of a vote is not stored.
StartVotingUnsaved(g) ==
  /\ goals[g].status \in {"VotingIdle", "VotingPaused"}
  /\ goals' = [goals EXCEPT ![g].status = "VotingRunning"]
  /\ UNCHANGED <<timeout, timers, queries, adrift>>

StartVoting(g) ==
  /\ goals[g].status \in {"VotingIdle", "VotingPaused"}
  /\ UpdateGoalState(g, [status |-> "VotingRunning"], FALSE, FALSE)
  /\ UNCHANGED <<timeout, timers>>

StartGoal(g) ==
  /\ "start" \in Ops
  /\ goals[g] # NoRow
  /\ StartTimer(g) \/ StartVoting(g)
  /\ UNCHANGED <<proc, votesCountByUser, joined, reads, rows, now, history>>

\* The callback of a timeout opens the vote, whatever the status is by then.
TimerFires(t) ==
  /\ timers[t] # None
  /\ now >= timers[t].due
  /\ timers' = [timers EXCEPT ![t] = None]
  /\ UpdateGoalState(timers[t].goal, [status |-> "VotingRunning"], TRUE, FALSE)
  /\ UNCHANGED <<proc, votesCountByUser, timeout, joined, reads, rows, now, history>>

\* Mutant: a pause that does not clear the timeout.
PauseTimerStillArmed(g) ==
  /\ goals[g].status = "TimerRunning"
  /\ UNCHANGED timers
  /\ UpdateGoalState(g, [status |-> "TimerPaused",
       remainingTimerDuration |-> goals[g].endTimerTimestamp - now], FALSE, FALSE)

PauseTimer(g) ==
  /\ goals[g].status = "TimerRunning"
  /\ ClearTimer(g)
  /\ UpdateGoalState(g, [status |-> "TimerPaused",
       remainingTimerDuration |-> goals[g].endTimerTimestamp - now], FALSE, FALSE)

PauseVoting(g) ==
  /\ goals[g].status = "VotingRunning"
  /\ UpdateGoalState(g, [status |-> "VotingPaused"], FALSE, FALSE)
  /\ UNCHANGED timers

PauseGoal(g) ==
  /\ "pause" \in Ops
  /\ goals[g] # NoRow
  /\ PauseTimer(g) \/ PauseVoting(g)
  /\ UNCHANGED <<proc, votesCountByUser, timeout, joined, reads, rows, now, history>>

\* resetGoal starts over; the votes the users have spent stay spent.
ResetGoal(g) ==
  /\ "reset" \in Ops
  /\ goals[g] # NoRow
  /\ ClearTimer(g)
  /\ UpdateGoalState(g, [status |-> IdleStatusFor(goals[g].timerDuration),
                         endTimerTimestamp |-> 0, remainingTimerDuration |-> 0,
                         votesValue |-> 0], FALSE, FALSE)
  /\ UNCHANGED <<proc, votesCountByUser, timeout, joined, reads, rows, now, history>>

\* resetVotes; its save names a property the entity does not have, so that it
\* sets no column (it only makes sure there is a row in hv_chat_goal_data).
ResetVotes(g) ==
  /\ "resetVotes" \in Ops
  /\ goals[g] # NoRow
  /\ votesCountByUser' = [votesCountByUser EXCEPT ![g] = [u \in Users |-> 0]]
  /\ Issue("save", NoColumns, FALSE, FALSE)
  /\ UNCHANGED <<proc, goals, timeout, timers, joined, reads, rows, now, history>>

----------------------------------------------------------------------------
(* Chat messages                                                            *)

RolesOf(u) == Badges[u] \cup {"viewer"}

MayCast(permission, type) ==
  IF type = "upvote" THEN permission.canUpvote ELSE permission.canDownvote

\* canVote: a role of u allows this kind of vote, and u has votes left by a role
\* that allows some kind of vote.
CanVote(g, u, type) ==
  LET table == goals[g].permissions
  IN /\ \E r \in RolesOf(u) : MayCast(table[r], type)
     /\ \E r \in RolesOf(u) :
          /\ table[r].canUpvote \/ table[r].canDownvote
          /\ votesCountByUser[g][u] < table[r].votesAmount

VotesAfter(votesValue, type) ==
  IF type = "upvote" THEN votesValue + 1 ELSE votesValue - 1

\* Mutants: the goal must be exceeded; the value goes to a column of another name.
VoteChangesAbove(g, value) ==
  IF value > goals[g].maxVotesValue
  THEN [votesValue |-> value, status |-> "VotingFinished"]
  ELSE [votesValue |-> value]

VoteChangesMisnamed(g, value) ==
  IF value >= goals[g].maxVotesValue
  THEN [votes |-> value, status |-> "VotingFinished"]
  ELSE [votes |-> value]

VoteChanges(g, value) ==
  IF value >= goals[g].maxVotesValue
  THEN [votesValue |-> value, status |-> "VotingFinished"]
  ELSE [votesValue |-> value]

\* handleChatMessage for a message that is one of the two commands.
ChatMessage(g, u, type) ==
  LET value == VotesAfter(goals[g].votesValue, type)
  IN /\ "vote" \in Ops
     /\ g \in joined \cup SharedChannels
     /\ goals[g] # NoRow
     /\ goals[g].status = "VotingRunning"
     /\ CanVote(g, u, type)
     /\ value \in -MaxVotes..MaxVotes
     /\ votesCountByUser' = [votesCountByUser EXCEPT ![g][u] = @ + 1]
     /\ UpdateGoalState(g, VoteChanges(g, value), TRUE, TRUE)
     /\ UNCHANGED <<proc, timeout, timers, joined, reads, rows, now, history>>

----------------------------------------------------------------------------
Next ==
  \/ ModuleInit
  \/ ModuleDestroy
  \/ Exit
  \/ Crash
  \/ Tick
  \/ \E c \in Connections : Commits(c) \/ Fails(c)
  \/ \E t \in TimerIds : TimerFires(t)
  \/ \E g \in GoalIds :
       \/ \E data \in CreateInputs : CreateGoal(g, data)
       \/ \E r \in Requests : UpdateReads(r, g)
       \/ DeleteGoal(g)
       \/ StartGoal(g)
       \/ PauseGoal(g)
       \/ ResetGoal(g)
       \/ ResetVotes(g)
       \/ \E u \in Users, type \in EventType : ChatMessage(g, u, type)
  \/ \E r \in Requests, data \in UpdateInputs : UpdateApplies(r, data)

Spec == Init /\ [][Next]_vars

\* Statements are answered, time passes, and an expired timeout is called.  The
\* last is strong fairness because the model makes a callback wait for a free
\* connection (a bound); Node.js calls it without one.
Fairness ==
  /\ WF_vars(Tick)
  /\ \A c \in Connections : WF_vars(Commits(c))
  /\ \A t \in TimerIds : SF_vars(TimerFires(t))

FairSpec == Spec /\ Fairness

----------------------------------------------------------------------------
(* Properties                                                               *)

GoalsOK ==
  /\ goals = [g \in GoalIds |-> goals[g]]
  /\ \A g \in GoalIds : goals[g] = NoRow \/ IsRow(goals[g])

TimersOK ==
  /\ timeout \in [GoalIds -> TimerIds \cup {None}]
  /\ timers = [t \in TimerIds |-> timers[t]]
  /\ \A t \in TimerIds :
       timers[t] = None \/ timers[t] \in [goal : GoalIds, due : Int]

ReadsOK ==
  /\ reads = [r \in Requests |-> reads[r]]
  /\ \A r \in Requests :
       reads[r] = None \/ (reads[r].goal \in GoalIds /\ IsRow(reads[r].row))

RowsOK ==
  /\ rows = [g \in GoalIds |-> rows[g]]
  /\ \A g \in GoalIds : rows[g] = NoRow \/ IsRow(rows[g])

QueriesOK ==
  /\ queries = [c \in Connections |-> queries[c]]
  /\ \A c \in Connections : queries[c] = NoStatement \/ IsStatement(queries[c])

\* The type invariant: what each variable holds, as the entities declare it.
TypeOK ==
  /\ proc \in {"up", "closing", "down"}
  /\ GoalsOK
  /\ votesCountByUser \in [GoalIds -> [Users -> Nat]]
  /\ TimersOK
  /\ joined \subseteq GoalIds
  /\ ReadsOK
  /\ RowsOK
  /\ QueriesOK
  /\ now \in Nat
  /\ history \in [GoalIds -> Lineage]
  /\ adrift \subseteq GoalIds

Quiet == Running /\ \A c \in Connections : queries[c] = NoStatement

HasStatus(g, status) == goals[g] # NoRow /\ goals[g].status = status

\* While the server runs, a goal that has a row, or whose row an update has
\* read, is in the goals map: updateGoal uses the entry without looking whether
\* there is one, long after it found the row.
RowHasGoal ==
  Running =>
    /\ \A g \in GoalIds : rows[g] # NoRow => goals[g] # NoRow
    /\ \A r \in Requests : reads[r] # None => goals[reads[r].goal] # NoRow

\* A running countdown has its timeout armed, due at the stored end timestamp;
\* the exception is a goal that was restored while counting down, which has no
\* timeout at all.  No sequence of start, pause, reset, update and expiry leaves
\* a countdown behind whose timeout is spent.
RunningTimerArmed ==
  \A g \in GoalIds : HasStatus(g, "TimerRunning") =>
    IF timeout[g] = None THEN history[g] # "clean"
    ELSE timers[timeout[g]] = [goal |-> g, due |-> goals[g].endTimerTimestamp]

\* Every armed timeout is the one its goal holds, and the goal is counting down
\* to it, unless the goal was clobbered: a timeout that outlives its countdown
\* would open the vote of a paused, finished or reset goal.
NoStrayTimer ==
  \A t \in TimerIds : timers[t] # None =>
    LET g == timers[t].goal
    IN /\ goals[g] # NoRow
       /\ history[g] # "clobbered" =>
            /\ timeout[g] = t
            /\ goals[g].status = "TimerRunning"
            /\ goals[g].endTimerTimestamp = timers[t].due

\* A goal that takes votes has not been reached yet (a target of 0 is reached
\* from the start, but only a vote finishes it), in the process that created it
\* and in every later one that reads it back from its row, however the process
\* between them ended.  Only a goal that was clobbered, or whose row came apart
\* from it before a restart (astray), may take votes at its target.
OpenVoteBelowTarget ==
  \A g \in GoalIds :
    HasStatus(g, "VotingRunning") /\ history[g] \in {"clean", "restored"} =>
      \/ goals[g].votesValue < goals[g].maxVotesValue
      \/ goals[g].votesValue = 0 /\ goals[g].maxVotesValue = 0

\* A finished goal leaves that status only with its votes set back to zero,
\* unless it is clobbered: no late timeout, start or update reopens the vote.
FinishedReopensEmpty ==
  [][\A g \in GoalIds :
       /\ HasStatus(g, "VotingFinished")
       /\ goals'[g] # NoRow
       /\ goals'[g].status # "VotingFinished"
       /\ history'[g] # "clobbered"
       => goals'[g].votesValue = 0]_vars

\* What is known of a goal: its entry, or its row while no process runs.
Shown(g) == IF Running THEN goals[g] ELSE rows[g]

\* The vote of a goal that counts down does not open before the end timestamp
\* its viewers are shown: not by a timeout that a pause, a resumption or a reset
\* has left behind, and not by a restart, which reads the countdown from the row.
\* A clobbered goal may have the timeout of an older countdown.
VoteNotEarly ==
  [][\A g \in GoalIds :
       /\ Shown(g) # NoRow
       /\ Shown(g).status = "TimerRunning"
       /\ Running => history[g] # "clobbered"
       /\ goals'[g] # NoRow
       /\ goals'[g].status = "VotingRunning"
       => now >= Shown(g).endTimerTimestamp]_vars

\* Once the statements about a goal are answered, its row is the goal in memory,
\* column by column: the partial UPDATE that each handler sends leaves nothing
\* out.  Until its first change of status, a goal that was read back may also
\* differ from its row by the expiry of the countdown stored there.  A goal that
\* is clobbered or adrift has parted from its row.
RowFollowsGoal ==
  Running => \A g \in GoalIds :
    history[g] # "clobbered" /\ g \notin adrift /\ ~InFlight(g) =>
      \/ rows[g] = goals[g]
      \/ history[g] # "clean" /\ goals[g] = Restored(rows[g])

\* The event of a vote finds its goal in the table, unless the goal is adrift, so
\* that storing a vote never takes the process down.
EventHasItsGoal ==
  Running => \A c \in Connections :
    queries[c] # NoStatement /\ queries[c].event =>
      \A g \in DOMAIN queries[c].cols \ adrift : rows[g] # NoRow

\* A countdown with a timeout ends, in whatever order it is paused, resumed and
\* reset and whatever restarts come: voted open, paused, reset or finished.
ArmedCountdownEnds ==
  \A g \in GoalIds :
    HasStatus(g, "TimerRunning") /\ timeout[g] # None ~> ~HasStatus(g, "TimerRunning")

----------------------------------------------------------------------------
(* What the tests and comments of the repository say, and the code does not *)

\* chat-goal.e2e-spec.ts:572, "should stop listening to chat" (DELETE).
DeletedGoalParts ==
  Quiet => \A g \in GoalIds : rows[g] = NoRow => g \notin joined

\* chat-goal.entity.ts:102, "Timestamp when timer should finish (ms)": a countdown
\* ends, also one that a restart has read back before that time.
CountdownEnds ==
  \A g \in GoalIds :
    HasStatus(g, "TimerRunning") ~> ~HasStatus(g, "TimerRunning")

=============================================================================
