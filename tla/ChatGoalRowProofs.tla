------------------------- MODULE ChatGoalRowProofs -------------------------
(* Theorems about the rows of hv_chat_goal and the goals in memory: a row has *)
(* its goal, once the statements about a goal are answered its row is the    *)
(* goal, and what a restart reads back takes votes only below its target.   *)
EXTENDS ChatGoalTimerProofs

\* While the process runs, the goals that a save in flight will give a row are
\* in the map.  This is what makes RowHasGoal inductive: a save outlives the
\* handler that sent it, and nothing takes an entry out of the map.
SavesHaveGoals ==
  Running =>
    \A c \in Connections :
      queries[c] # NoStatement /\ queries[c].kind = "save" =>
        \A g \in DOMAIN queries[c].cols : goals[g] # NoRow

RowInv == TypeInv /\ RowHasGoal /\ SavesHaveGoals

LEMMA RowInvInit == Init => RowInv
<1> SUFFICES ASSUME Init PROVE RowInv
  OBVIOUS
<1>1. TypeInv
  BY TypeInvInit
<1>2. ~Running
  BY DEF Init, Running
<1> QED BY <1>1, <1>2 DEF RowInv, RowHasGoal, SavesHaveGoals

\* Columns that have a status are not the absence of a goal.
LEMMA AssignPresent ==
  ASSUME NEW f, NEW h, "status" \in DOMAIN f \cup DOMAIN h
  PROVE  Assign(f, h) # NoRow /\ "status" \in DOMAIN Assign(f, h)
<1>1. "status" \in DOMAIN Assign(f, h)
  BY DEF Assign
<1>2. DOMAIN NoRow = {}
  BY DEF NoRow, NoColumns
<1> QED BY <1>1, <1>2

LEMMA PresentHasStatus ==
  ASSUME GoalsOK, NEW g \in GoalIds, goals[g] # NoRow
  PROVE  "status" \in DOMAIN goals[g]
  BY DEF GoalsOK, IsRow, Columns, StateColumns

\* A statement that is sent is a new one, the others stay what they are.
LEMMA IssueEffect ==
  ASSUME QueriesOK, NEW kind, NEW cols, NEW detached, NEW event,
         Issue(kind, cols, detached, event)
  PROVE  \A c \in Connections :
           \/ queries'[c] = queries[c]
           \/ queries'[c].kind = kind /\ queries'[c].cols = cols
<1> DEFINE q == [kind |-> kind, cols |-> cols, detached |-> detached, event |-> event]
<1>1. PICK c \in Connections : queries' = [queries EXCEPT ![c] = q]
  BY DEF Issue
<1>2. q.kind = kind /\ q.cols = cols
  OBVIOUS
<1> HIDE DEF q
<1> QED BY <1>1, <1>2 DEF QueriesOK

\* The goal stays in the map, and only an update is sent.
LEMMA UpdateGoalStateKeeps ==
  ASSUME TypeInv, NEW g \in GoalIds, goals[g] # NoRow,
         NEW changes, NEW detached, NEW event,
         UpdateGoalState(g, changes, detached, event)
  PROVE  /\ \A h \in GoalIds : goals[h] # NoRow => goals'[h] # NoRow
         /\ \A c \in Connections : queries'[c] = queries[c] \/ queries'[c].kind = "update"
<1>1. goals' = [goals EXCEPT ![g] = Assign(goals[g], changes)]
      /\ Issue("update", Only(g, changes), detached, event)
  BY DEF UpdateGoalState
<1>2. Assign(goals[g], changes) # NoRow
  BY PresentHasStatus, AssignPresent DEF TypeInv, TypeOK
<1>3. \A h \in GoalIds : goals[h] # NoRow => goals'[h] # NoRow
  BY <1>1, <1>2 DEF TypeInv, TypeOK, GoalsOK
<1>4. \A c \in Connections : queries'[c] = queries[c] \/ queries'[c].kind = "update"
  BY <1>1, IssueEffect DEF TypeInv, TypeOK
<1> QED BY <1>3, <1>4

\* What a handler has to keep: the entries of the map, and an entry for every
\* goal it reads the row of or saves.
LEMMA HandlerRowInv ==
  ASSUME RowInv, TypeInv', Running, UNCHANGED <<proc, rows>>,
         \A h \in GoalIds : goals[h] # NoRow => goals'[h] # NoRow,
         \A r \in Requests :
           \/ reads'[r] = None
           \/ reads'[r] = reads[r]
           \/ goals'[reads'[r].goal] # NoRow,
         \A c \in Connections :
           \/ queries'[c] = queries[c]
           \/ queries'[c].kind # "save"
           \/ \A g \in DOMAIN queries'[c].cols : goals'[g] # NoRow
  PROVE  RowInv'
<1>1. RowHasGoal'
  BY DEF RowInv, RowHasGoal, Running, TypeInv, TypeOK, ReadsOK
<1>2. SavesHaveGoals'
  <2> SUFFICES ASSUME NEW c \in Connections, queries'[c] # NoStatement, queries'[c].kind = "save",
                      NEW g \in DOMAIN queries'[c].cols
               PROVE  goals'[g] # NoRow
    BY DEF SavesHaveGoals
  <2>1. g \in GoalIds
    BY DEF TypeInv, TypeOK, QueriesOK, IsStatement
  <2> QED BY <2>1 DEF RowInv, SavesHaveGoals
<1> QED BY <1>1, <1>2 DEF RowInv

\* Once the process is down, there is nothing to show.
LEMMA DownRowInv ==
  ASSUME TypeInv', proc' = "down"
  PROVE  RowInv'
  BY DEF RowInv, RowHasGoal, SavesHaveGoals, Running

\* What the database does: rows that appear are those of saves.
LEMMA DatabaseRowInv ==
  ASSUME RowInv, TypeInv', UNCHANGED <<proc, memory>>,
         \A c \in Connections : queries'[c] = NoStatement \/ queries'[c] = queries[c],
         \A g \in GoalIds : rows'[g] = NoRow \/ rows[g] # NoRow \/ goals[g] # NoRow \/ ~Running
  PROVE  RowInv'
<1>1. RowHasGoal'
  BY DEF RowInv, RowHasGoal, Running, memory
<1>2. SavesHaveGoals'
  BY DEF RowInv, SavesHaveGoals, Running, memory
<1> QED BY <1>1, <1>2 DEF RowInv

LEMMA RowInvNext == RowInv /\ [Next]_vars => RowInv'
<1> SUFFICES ASSUME RowInv, [Next]_vars PROVE RowInv'
  OBVIOUS
<1>1. TypeInv /\ TypeInv' /\ TypeOK
  BY TypeInvNext DEF RowInv, TypeInv
<1>2. CASE ModuleInit
  <2>1. \A c \in Connections : queries'[c] = NoStatement
    BY <1>2 DEF ModuleInit
  <2>2. \A r \in Requests : reads'[r] = None
    BY <1>1, <1>2 DEF ModuleInit, TypeInv, DownIsEmpty
  <2>3. ASSUME NEW g \in GoalIds, rows'[g] # NoRow PROVE goals'[g] # NoRow
    <3>1. goals'[g] = Assign(rows[g], [status |-> RestoredStatus(rows[g])])
      BY <1>2, <2>3 DEF ModuleInit, Restored
    <3> QED BY <3>1, AssignPresent
  <2> QED BY <1>1, <2>1, <2>2, <2>3 DEF RowInv, RowHasGoal, SavesHaveGoals
<1>3. CASE ModuleDestroy
  <2> DEFINE saved == [g \in {x \in GoalIds : goals[x] # NoRow} |->
                         [c \in StateColumns |-> goals[g][c]]]
  <2>1. Issue("save", saved, FALSE, FALSE)
        /\ UNCHANGED <<memory, rows>> /\ proc = "up" /\ proc' = "closing"
    BY <1>3 DEF ModuleDestroy
  <2>2. \A g \in DOMAIN saved : goals'[g] # NoRow
    BY <2>1 DEF memory
  <2> HIDE DEF saved
  <2>3. \A c \in Connections : queries'[c] = queries[c] \/ queries'[c].cols = saved
    BY <1>1, <2>1, IssueEffect DEF TypeOK
  <2>4. \A c \in Connections :
          \/ queries'[c] = queries[c]
          \/ \A g \in DOMAIN queries'[c].cols : goals'[g] # NoRow
    BY <2>2, <2>3
  <2>5. RowHasGoal'
    BY <2>1 DEF memory, RowInv, RowHasGoal, Running
  <2>6. SavesHaveGoals'
    BY <2>1, <2>4 DEF memory, RowInv, SavesHaveGoals, Running
  <2> QED BY <1>1, <2>5, <2>6 DEF RowInv
<1>4. CASE Exit \/ Crash
  BY <1>1, <1>4, DownRowInv DEF Exit, Crash, ProcessEnds
<1>5. CASE Tick \/ UNCHANGED vars
  BY <1>1, <1>5, DatabaseRowInv DEF Tick, vars
<1>6. ASSUME NEW c \in Connections, Commits(c) PROVE RowInv'
  <2>1. CASE proc' = "down"
    BY <1>1, <2>1, DownRowInv
  <2>2. CASE proc' # "down"
    <3>1. UNCHANGED <<proc, memory>>
      BY <1>6, <2>2 DEF Commits, ProcessEnds
    <3>2. \A d \in Connections : queries'[d] = NoStatement \/ queries'[d] = queries[d]
      BY <1>1, <1>6, SettleType DEF Commits, TypeOK
    <3>3. ASSUME NEW g \in GoalIds, rows'[g] # NoRow, rows[g] = NoRow, Running
          PROVE  goals[g] # NoRow
      <4>1. queries[c] # NoStatement /\ g \in DOMAIN queries[c].cols
            /\ Written(queries[c], g) # NoRow
        BY <1>6, <3>3 DEF Commits
      <4>2. queries[c].kind = "save"
        BY <1>1, <3>3, <4>1 DEF Written, TypeOK, QueriesOK, IsStatement
      <4> QED BY <3>3, <4>1, <4>2 DEF RowInv, SavesHaveGoals
    <3> QED BY <1>1, <3>1, <3>2, <3>3, DatabaseRowInv
  <2> QED BY <2>1, <2>2
<1>7. ASSUME NEW c \in Connections, Fails(c) PROVE RowInv'
  <2>1. CASE proc' = "down"
    BY <1>1, <2>1, DownRowInv
  <2>2. CASE proc' # "down"
    <3>1. UNCHANGED <<proc, memory, rows>>
      BY <1>7, <2>2 DEF Fails, ProcessEnds
    <3>2. \A d \in Connections : queries'[d] = NoStatement \/ queries'[d] = queries[d]
      BY <1>1, <1>7, SettleType DEF Fails, TypeOK
    <3> QED BY <1>1, <3>1, <3>2, DatabaseRowInv
  <2> QED BY <2>1, <2>2
\* The handlers that only update the state of a goal.
<1>8. ASSUME NEW g \in GoalIds, goals[g] # NoRow,
             NEW changes, NEW detached, NEW event,
             UpdateGoalState(g, changes, detached, event),
             UNCHANGED <<proc, reads, rows>>
      PROVE  RowInv'
  <2>1. /\ \A h \in GoalIds : goals[h] # NoRow => goals'[h] # NoRow
        /\ \A c \in Connections : queries'[c] = queries[c] \/ queries'[c].kind = "update"
    BY <1>1, <1>8, UpdateGoalStateKeeps
  <2>2. Running
    BY <1>1, <1>8, GoalMeansRunning DEF TypeInv
  <2> QED BY <1>1, <1>8, <2>1, <2>2, HandlerRowInv
<1>9. ASSUME NEW t \in TimerIds, TimerFires(t) PROVE RowInv'
  <2>1. timers[t].goal \in GoalIds /\ goals[timers[t].goal] # NoRow
    BY <1>1, <1>9 DEF TimerFires, TypeInv, TypeOK, TimersOK, ArmedHasGoal
  <2> QED BY <1>8, <1>9, <2>1 DEF TimerFires
<1>10. ASSUME NEW g \in GoalIds,
              \/ StartGoal(g)
              \/ PauseGoal(g)
              \/ ResetGoal(g)
              \/ \E u \in Users, type \in EventType : ChatMessage(g, u, type)
       PROVE  RowInv'
  <2>1. CASE StartGoal(g)
    BY <1>8, <2>1 DEF StartGoal, StartTimer, StartVoting
  <2>2. CASE PauseGoal(g)
    BY <1>8, <2>2 DEF PauseGoal, PauseTimer, PauseVoting
  <2>3. CASE ResetGoal(g)
    BY <1>8, <2>3 DEF ResetGoal
  <2>4. CASE \E u \in Users, type \in EventType : ChatMessage(g, u, type)
    BY <1>8, <2>4 DEF ChatMessage
  <2> QED BY <1>10, <2>1, <2>2, <2>3, <2>4
<1>11. ASSUME NEW g \in GoalIds, NEW data \in CreateInputs, CreateGoal(g, data)
       PROVE  RowInv'
  <2> DEFINE options == Assign(GoalDefault, data)
             st      == [status |-> IdleStatusFor(options.timerDuration)]
  <2>1. goals' = [goals EXCEPT ![g] = Assign(options, st)]
        /\ Issue("save", Only(g, Assign(data, st)), FALSE, FALSE)
        /\ Running /\ UNCHANGED <<proc, reads, rows>>
    BY <1>11 DEF CreateGoal
  <2>2. "status" \in DOMAIN st
    OBVIOUS
  <2> HIDE DEF options, st
  <2>3. Assign(options, st) # NoRow
    BY <2>2, AssignPresent
  <2>4. goals'[g] # NoRow /\ \A h \in GoalIds : goals[h] # NoRow => goals'[h] # NoRow
    BY <1>1, <2>1, <2>3 DEF TypeOK, GoalsOK
  <2>5. \A c \in Connections :
          \/ queries'[c] = queries[c]
          \/ queries'[c].cols = Only(g, Assign(data, st))
    BY <1>1, <2>1, IssueEffect DEF TypeOK
  <2>6. \A c \in Connections :
          \/ queries'[c] = queries[c]
          \/ \A x \in DOMAIN queries'[c].cols : goals'[x] # NoRow
    BY <2>4, <2>5 DEF Only
  <2> QED BY <1>1, <2>1, <2>4, <2>6, HandlerRowInv
<1>12. ASSUME NEW r \in Requests, NEW g \in GoalIds, UpdateReads(r, g) PROVE RowInv'
  <2>1. /\ Running /\ rows[g] # NoRow
        /\ UNCHANGED <<proc, goals, rows, queries>>
        /\ reads' = [reads EXCEPT ![r] = [goal |-> g, row |-> rows[g]]]
    BY <1>12 DEF UpdateReads
  <2>2. goals'[g] # NoRow
    BY <2>1 DEF RowInv, RowHasGoal
  <2>3. \A x \in Requests : reads'[x] = reads[x] \/ goals'[reads'[x].goal] # NoRow
    BY <1>1, <2>1, <2>2 DEF TypeOK, ReadsOK
  <2> QED BY <1>1, <2>1, <2>3, HandlerRowInv
<1>13. ASSUME NEW r \in Requests, NEW data \in UpdateInputs, UpdateApplies(r, data)
       PROVE  RowInv'
  <2> DEFINE g       == reads[r].goal
             row     == reads[r].row
             changes == UpdateChanges(row, data, goals[g].votesValue)
  <2>1. /\ Running /\ goals[g] # NoRow /\ UNCHANGED <<proc, rows>>
        /\ goals' = [goals EXCEPT ![g] = Assign(Assign(goals[g], changes), data)]
        /\ Issue("save", Only(g, Assign(Assign(row, data), changes)), FALSE, FALSE)
        /\ reads' = [reads EXCEPT ![r] = None]
    BY <1>13 DEF UpdateApplies
  <2>2. g \in GoalIds
    BY <1>1, <1>13 DEF UpdateApplies, TypeOK, ReadsOK
  <2> HIDE DEF g, row, changes
  <2>3. Assign(Assign(goals[g], changes), data) # NoRow
    BY <1>1, <2>1, <2>2, PresentHasStatus, AssignPresent DEF TypeOK
  <2>4. goals'[g] # NoRow /\ \A h \in GoalIds : goals[h] # NoRow => goals'[h] # NoRow
    BY <1>1, <2>1, <2>2, <2>3 DEF TypeOK, GoalsOK
  <2>5. \A c \in Connections :
          \/ queries'[c] = queries[c]
          \/ queries'[c].cols = Only(g, Assign(Assign(row, data), changes))
    BY <1>1, <2>1, IssueEffect DEF TypeOK
  <2>6. \A c \in Connections :
          \/ queries'[c] = queries[c]
          \/ \A x \in DOMAIN queries'[c].cols : goals'[x] # NoRow
    BY <2>4, <2>5 DEF Only
  <2>7. \A x \in Requests : reads'[x] = None \/ reads'[x] = reads[x]
    BY <1>1, <2>1 DEF TypeOK, ReadsOK
  <2> QED BY <1>1, <2>1, <2>4, <2>6, <2>7, HandlerRowInv
<1>14. ASSUME NEW g \in GoalIds, DeleteGoal(g) PROVE RowInv'
  <2>1. Running /\ UNCHANGED <<proc, memory, rows>>
        /\ Issue("delete", Only(g, NoColumns), FALSE, FALSE)
    BY <1>14 DEF DeleteGoal
  <2>2. \A c \in Connections : queries'[c] = queries[c] \/ queries'[c].kind = "delete"
    BY <1>1, <2>1, IssueEffect DEF TypeOK
  <2> QED BY <1>1, <2>1, <2>2, HandlerRowInv DEF memory
<1>15. ASSUME NEW g \in GoalIds, ResetVotes(g) PROVE RowInv'
  <2>1. UNCHANGED <<proc, goals, reads, rows>> /\ goals[g] # NoRow
        /\ Issue("save", NoColumns, FALSE, FALSE)
    BY <1>15 DEF ResetVotes
  <2>2. DOMAIN NoColumns = {}
    BY DEF NoColumns
  <2>3. \A c \in Connections : queries'[c] = queries[c] \/ queries'[c].cols = NoColumns
    BY <1>1, <2>1, IssueEffect DEF TypeOK
  <2>4. Running
    BY <1>1, <2>1, GoalMeansRunning DEF TypeInv
  <2> QED BY <1>1, <2>1, <2>2, <2>3, <2>4, HandlerRowInv
<1> QED BY <1>2, <1>3, <1>4, <1>5, <1>6, <1>7, <1>9, <1>10, <1>11, <1>12, <1>13, <1>14,
           <1>15 DEF Next

\* While the server runs, a goal with a row, or one whose row an update has read,
\* is in the goals map, however many broadcasters, requests and connections there
\* are and wherever the process stopped before: updateGoal's unchecked use of the
\* entry is safe.
THEOREM RowsHaveGoals == Spec => []RowHasGoal
<1>1. Spec => []RowInv
  BY RowInvInit, RowInvNext, PTL DEF Spec
<1> QED BY <1>1, PTL DEF RowInv

----------------------------------------------------------------------------
(* The row of a goal is the goal                                            *)

\* The statement on connection c is about goal g.
About(c, g) == queries[c] # NoStatement /\ g \in DOMAIN queries[c].cols

\* Only updates of a goal store an event.
EventsUpdate ==
  \A c \in Connections :
    queries[c] # NoStatement /\ queries[c].event => queries[c].kind = "update"

\* A countdown that has expired, and the open vote that a restart makes of it.
Expired(row) == row.status = "TimerRunning" /\ now >= row.endTimerTimestamp

Opened(row) == Assign(row, [status |-> "VotingRunning"])

\* The row is the goal, or a restart has found it with an expired countdown and no
\* status has been stored since.
RowIsGoal(row, g) ==
  \/ row = goals[g]
  \/ history[g] # "clean" /\ Expired(row) /\ goals[g] = Opened(row)

\* A goal that is not adrift has at most one statement in flight.  Without one,
\* its row is there, and is the goal unless that is clobbered; with one, this is
\* what the row will be once it is answered.
GoalKept(g) ==
  /\ \A c, d \in Connections : About(c, g) /\ About(d, g) => c = d
  /\ ~InFlight(g) =>
       /\ goals[g] # NoRow => rows[g] # NoRow
       /\ history[g] # "clobbered" => RowIsGoal(rows[g], g)
  /\ \A c \in Connections : About(c, g) =>
       /\ goals[g] # NoRow
       /\ Written(queries[c], g) # NoRow
       /\ history[g] # "clobbered" => RowIsGoal(Written(queries[c], g), g)

\* RowFollowsGoal speaks of the moments without a statement in flight; GoalKept
\* adds what the statement in flight will bring, and RowInv that no row appears
\* behind the back of a goal that is created.
KeptInv == RowInv /\ EventsUpdate /\ (Running => \A g \in GoalIds \ adrift : GoalKept(g))

LEMMA KeptInvInit == Init => KeptInv
  BY RowInvInit DEF Init, KeptInv, EventsUpdate, Running

LEMMA DownKeptInv ==
  ASSUME RowInv', EventsUpdate', proc' = "down"
  PROVE  KeptInv'
  BY DEF KeptInv, Running

\* A statement about g that is answered or fails leaves those on the other
\* connections as they were.
LEMMA SettledEvents ==
  ASSUME QueriesOK, EventsUpdate, NEW c \in Connections, Settle(c)
  PROVE  EventsUpdate'
  BY SettleType DEF EventsUpdate

LEMMA CommitsKept ==
  ASSUME KeptInv, NEW c \in Connections, Commits(c), UNCHANGED <<proc, memory, history, adrift>>,
         Running, NEW g \in GoalIds \ adrift
  PROVE  GoalKept(g)'
<1>1. QueriesOK /\ RowsOK /\ GoalKept(g)
  BY DEF KeptInv, RowInv, TypeInv, TypeOK
<1>2. queries' = [queries EXCEPT ![c] = NoStatement]
      /\ goals' = goals /\ history' = history /\ now' = now
  BY DEF Commits, Settle, memory
<1>3. \A d \in Connections : About(d, g)' => d # c /\ queries'[d] = queries[d] /\ About(d, g)
  BY <1>1, <1>2 DEF About, QueriesOK
<1>4. CASE About(c, g)
  <2>1. rows'[g] = Written(queries[c], g)
    BY <1>4 DEF Commits, About
  <2>2. \A d \in Connections : ~About(d, g)'
    BY <1>1, <1>3, <1>4 DEF GoalKept
  <2>3. rows'[g] # NoRow /\ (history[g] # "clobbered" => RowIsGoal(rows'[g], g))
    BY <1>1, <1>4, <2>1 DEF GoalKept
  <2>4. rows'[g] # NoRow /\ (history'[g] # "clobbered" => RowIsGoal(rows[g], g)')
    BY <1>2, <2>3 DEF RowIsGoal, Expired
  <2> QED BY <1>2, <2>2, <2>4 DEF GoalKept, About
<1>5. CASE ~About(c, g)
  <2>1. rows'[g] = rows[g]
    BY <1>5 DEF Commits, About
  <2>2. \A d \in Connections : About(d, g) => About(d, g)' /\ queries'[d] = queries[d]
    BY <1>1, <1>2, <1>5 DEF About, QueriesOK
  <2>3. InFlight(g)' = InFlight(g)
    BY <1>3, <2>2 DEF InFlight, About
  <2>4. \A d \in Connections : About(d, g)' => Written(queries[d], g)' = Written(queries[d], g)
    BY <1>3, <2>1 DEF Written
  <2> QED BY <1>1, <1>2, <1>3, <2>1, <2>3, <2>4 DEF GoalKept, RowIsGoal, Expired
<1> QED BY <1>4, <1>5

LEMMA FailsKept ==
  ASSUME KeptInv, NEW c \in Connections, Fails(c), UNCHANGED <<proc, memory, history>>,
         Running, NEW g \in GoalIds \ adrift, ~About(c, g)
  PROVE  GoalKept(g)'
<1>1. QueriesOK /\ GoalKept(g)
  BY DEF KeptInv, RowInv, TypeInv, TypeOK
<1>2. queries' = [queries EXCEPT ![c] = NoStatement]
      /\ goals' = goals /\ history' = history /\ rows' = rows /\ now' = now
  BY DEF Fails, Settle, memory
<1>3. \A d \in Connections :
        /\ About(d, g)' = About(d, g)
        /\ About(d, g) => queries'[d] = queries[d]
  BY <1>1, <1>2 DEF About, QueriesOK
<1>4. InFlight(g)' = InFlight(g)
  BY <1>3 DEF InFlight, About
<1>5. \A d \in Connections : About(d, g) => Written(queries[d], g)' = Written(queries[d], g)
  BY <1>2, <1>3 DEF Written
<1> QED BY <1>1, <1>2, <1>3, <1>4, <1>5 DEF GoalKept, RowIsGoal, Expired

\* A countdown that has expired stays so.
LEMMA ExpiredStays ==
  ASSUME NEW row, IsRow(row), now \in Nat, now' \in Nat, now' >= now, Expired(row)
  PROVE  row.status = "TimerRunning" /\ now' >= row.endTimerTimestamp
  BY RowTypes DEF Expired

\* A step that sends nothing and leaves goals and rows alone.
LEMMA StillKeptInv ==
  ASSUME KeptInv, RowInv', UNCHANGED <<proc, goals, rows, queries, history, adrift>>,
         now' >= now
  PROVE  KeptInv'
<1> SUFFICES ASSUME Running, NEW g \in GoalIds \ adrift PROVE GoalKept(g)'
  BY DEF KeptInv, EventsUpdate, Running
<1>1. GoalKept(g) /\ RowsOK /\ QueriesOK /\ now \in Nat /\ now' \in Nat
  BY DEF KeptInv, RowInv, TypeInv, TypeOK
<1>2. ASSUME NEW row, IsRow(row), RowIsGoal(row, g)
      PROVE  \/ row = goals'[g]
             \/ /\ history'[g] # "clean"
                /\ row.status = "TimerRunning" /\ now' >= row.endTimerTimestamp
                /\ goals'[g] = Opened(row)
  BY <1>1, <1>2, ExpiredStays DEF RowIsGoal
<1>3. /\ \A c \in Connections : About(c, g)' = About(c, g)
      /\ InFlight(g)' = InFlight(g)
      /\ \A c \in Connections : Written(queries[c], g)' = Written(queries[c], g)
  BY DEF About, InFlight, Written
<1>4. ~InFlight(g)' => /\ goals'[g] # NoRow => rows'[g] # NoRow
                       /\ history'[g] # "clobbered" => RowIsGoal(rows[g], g)'
  <2> SUFFICES ASSUME ~InFlight(g), history[g] # "clobbered"
               PROVE  RowIsGoal(rows[g], g)'
    BY <1>1, <1>3 DEF GoalKept
  <2>1. RowIsGoal(rows[g], g)
    BY <1>1 DEF GoalKept
  <2>2. CASE rows[g] = goals[g]
    BY <2>2 DEF RowIsGoal
  <2>3. CASE rows[g] # goals[g]
    <3>1. IsRow(rows[g])
      <4>1. rows[g] # NoRow
        <5>1. rows[g].status = "TimerRunning" /\ goals[g] = Opened(rows[g])
          BY <2>1, <2>3 DEF RowIsGoal, Expired
        <5>2. goals[g] # NoRow
          BY <5>1, AssignPresent DEF Opened
        <5> QED BY <1>1, <5>2 DEF GoalKept
      <4> QED BY <1>1, <4>1 DEF RowsOK
    <3> QED BY <1>2, <2>1, <3>1 DEF RowIsGoal, Expired
  <2> QED BY <2>2, <2>3
<1>5. ASSUME NEW c \in Connections, About(c, g)'
      PROVE  /\ goals'[g] # NoRow
             /\ Written(queries[c], g)' # NoRow
             /\ history'[g] # "clobbered" => RowIsGoal(Written(queries[c], g), g)'
  <2>1. /\ About(c, g) /\ goals[g] # NoRow /\ Written(queries[c], g) # NoRow
        /\ history[g] # "clobbered" => RowIsGoal(Written(queries[c], g), g)
    BY <1>1, <1>3, <1>5 DEF GoalKept
  <2>2. IsRow(Written(queries[c], g))
    BY <1>1, <2>1, WrittenType DEF About, QueriesOK
  <2> DEFINE w == Written(queries[c], g)
  <2>3. Written(queries[c], g)' = w
    BY <1>3
  <2> HIDE DEF w
  <2>4. history[g] # "clobbered" => RowIsGoal(w, g)
    BY <2>1 DEF w
  <2>5. IsRow(w) /\ w # NoRow
    BY <2>1, <2>2 DEF w
  <2>6. history'[g] # "clobbered" => RowIsGoal(Written(queries[c], g), g)'
    BY <1>2, <2>3, <2>4, <2>5 DEF RowIsGoal, Expired
  <2> QED BY <2>1, <2>3, <2>5, <2>6
<1> QED BY <1>1, <1>3, <1>4, <1>5 DEF GoalKept

\* After the step, statement q gives goal g a row, which is the goal unless that is
\* clobbered.
BringsGoal(q, g) ==
  /\ goals'[g] # NoRow
  /\ Written(q, g) # NoRow
  /\ history'[g] # "clobbered" =>
       \/ Written(q, g) = goals'[g]
       \/ /\ history'[g] # "clean" /\ Expired(Written(q, g))
          /\ goals'[g] = Opened(Written(q, g))

UntouchedGoal(g) == goals'[g] = goals[g] /\ history'[g] = history[g]

\* What a handler that sends a statement has to show: it brings every goal it is
\* about, unless that has a statement in flight already, and touches no other.
LEMMA SentKeptInv ==
  ASSUME KeptInv, RowInv', Running, Running', rows' = rows, now' = now,
         NEW kind \in {"update", "save", "delete"},
         NEW cols, NEW detached, NEW event,
         Issue(kind, cols, detached, event),
         event => kind = "update",
         \A g \in GoalIds \ DOMAIN cols : UntouchedGoal(g),
         NEW q, q.kind = kind, q.cols = cols,
         \A g \in GoalIds \cap DOMAIN cols :
           kind # "delete" /\ ~InFlight(g) /\ g \notin adrift => BringsGoal(q, g)
  PROVE  KeptInv'
<1> DEFINE sent == [kind |-> kind, cols |-> cols, detached |-> detached, event |-> event]
<1>1. PICK c \in Connections : queries[c] = NoStatement /\ queries' = [queries EXCEPT ![c] = sent]
  BY DEF Issue
<1>2. adrift' = adrift \cup {g \in DOMAIN cols : kind = "delete" \/ InFlight(g)}
  BY DEF Issue
<1>3. sent.kind = kind /\ sent.cols = cols /\ sent.event = event
  OBVIOUS
<1> HIDE DEF sent
<1>4. QueriesOK /\ queries'[c] = sent /\ \A d \in Connections \ {c} : queries'[d] = queries[d]
  BY <1>1 DEF KeptInv, RowInv, TypeInv, TypeOK, QueriesOK
<1>5. EventsUpdate'
  BY <1>3, <1>4 DEF KeptInv, EventsUpdate
<1>6. ASSUME NEW g \in GoalIds \ adrift' PROVE GoalKept(g)'
  <2>1. g \notin adrift /\ GoalKept(g)
        /\ (g \in DOMAIN cols => kind # "delete" /\ ~InFlight(g))
    BY <1>2 DEF KeptInv
  <2>2. CASE g \in DOMAIN cols
    <3>1. \A d \in Connections : About(d, g)' => d = c
      BY <1>4, <2>1, <2>2 DEF About, InFlight
    <3>2. Written(queries[c], g)' = Written(q, g)
      BY <1>3, <1>4 DEF Written
    <3>3. BringsGoal(q, g)
      BY <2>1, <2>2
    <3>4. queries'[c] # NoStatement
      BY <1>3, <1>4 DEF NoStatement
    <3>5. About(c, g)'
      BY <1>3, <1>4, <2>2, <3>4 DEF About
    <3>6. history'[g] # "clobbered" => RowIsGoal(Written(queries[c], g), g)'
      BY <3>2, <3>3 DEF BringsGoal, RowIsGoal, Expired
    <3>7. goals'[g] # NoRow /\ Written(queries[c], g)' # NoRow
      BY <3>2, <3>3 DEF BringsGoal
    <3> QED BY <3>1, <3>5, <3>6, <3>7 DEF GoalKept, InFlight, About
  <2>3. CASE g \notin DOMAIN cols
    <3>1. \A d \in Connections :
            /\ About(d, g)' = About(d, g)
            /\ About(d, g) => queries'[d] = queries[d]
      BY <1>1, <1>3, <1>4, <2>3 DEF About
    <3>2. InFlight(g)' = InFlight(g)
      BY <3>1 DEF InFlight, About
    <3>3. \A d \in Connections : About(d, g) => Written(queries[d], g)' = Written(queries[d], g)
      BY <3>1 DEF Written
    <3>4. UntouchedGoal(g)
      BY <2>3
    <3> QED BY <2>1, <3>1, <3>2, <3>3, <3>4
            DEF GoalKept, UntouchedGoal, RowIsGoal, Expired
  <2> QED BY <2>2, <2>3
<1> QED BY <1>5, <1>6 DEF KeptInv

\* Assigning one after the other is assigning both at once.
LEMMA AssignTwice ==
  ASSUME NEW f, NEW h, NEW k
  PROVE  Assign(Assign(f, h), k) = Assign(f, Assign(h, k))
  BY DEF Assign

\* Changes of different columns may be assigned in either order, onto the row or
\* onto a copy of it that is then assigned whole.
LEMMA AssignApart ==
  ASSUME NEW f, NEW h, NEW k, DOMAIN h \cap DOMAIN k = {}, f = [c \in DOMAIN f |-> f[c]]
  PROVE  Assign(f, Assign(Assign(f, h), k)) = Assign(Assign(f, k), h)
  BY DEF Assign

\* A row assigned to itself.
LEMMA AssignOwn ==
  ASSUME NEW f, f = [c \in DOMAIN f |-> f[c]], NEW S \in SUBSET DOMAIN f
  PROVE  Assign(f, [c \in S |-> f[c]]) = f
  BY DEF Assign

\* Columns that are assigned over all of a row leave nothing of it.
LEMMA AssignOver ==
  ASSUME NEW f, NEW h, DOMAIN f \subseteq DOMAIN h, h = [c \in DOMAIN h |-> h[c]]
  PROVE  Assign(f, h) = h
  BY DEF Assign

\* Rows that agree column by column are one row.
LEMMA RowsEqual ==
  ASSUME NEW f, NEW h, IsRow(f), IsRow(h), \A c \in Columns : f[c] = h[c]
  PROVE  f = h
  BY DEF IsRow, IsColumns

\* Changes of an expired countdown and of the vote that a restart made of it.
LEMMA OpenedChanges ==
  ASSUME NEW row, IsRow(row), Expired(row), NEW changes,
         "endTimerTimestamp" \in DOMAIN changes => "status" \in DOMAIN changes
  PROVE  LET written == Assign(row, changes)
         IN \/ written = Assign(Opened(row), changes)
            \/ Expired(written) /\ Assign(Opened(row), changes) = Opened(written)
<1> DEFINE open == [status |-> "VotingRunning"]
<1>1. DOMAIN row = Columns /\ DOMAIN open = {"status"}
      /\ {"status", "endTimerTimestamp"} \subseteq Columns
  BY DEF IsRow, Columns, StateColumns
<1> HIDE DEF open
<1>2. CASE "status" \in DOMAIN changes
  <2>1. Assign(row, changes) = Assign(Assign(row, open), changes)
    BY <1>1, <1>2 DEF Assign
  <2> QED BY <2>1 DEF Opened, open
<1>3. CASE "status" \notin DOMAIN changes
  <2>1. Assign(Assign(row, open), changes) = Assign(Assign(row, changes), open)
    BY <1>1, <1>3 DEF Assign
  <2>2. /\ Assign(row, changes).status = row.status
        /\ Assign(row, changes).endTimerTimestamp = row.endTimerTimestamp
    BY <1>1, <1>3 DEF Assign
  <2>3. Expired(Assign(row, changes))
    BY <2>2 DEF Expired
  <2> QED BY <2>1, <2>3 DEF Opened, open
<1> QED BY <1>2, <1>3

\* A handler that changes some columns of a goal keeps row and goal together; none
\* sets the end timestamp without the status.
LEMMA UpdateKept ==
  ASSUME KeptInv, RowInv', Running, Running', rows' = rows, history' = history,
         now' = now, NEW g \in GoalIds, goals[g] # NoRow,
         NEW changes, NEW detached, NEW event,
         "endTimerTimestamp" \in DOMAIN changes => "status" \in DOMAIN changes,
         UpdateGoalState(g, changes, detached, event)
  PROVE  KeptInv'
<1> DEFINE cols == Only(g, changes)
           q    == [kind |-> "update", cols |-> cols]
<1>1. /\ goals' = [goals EXCEPT ![g] = Assign(goals[g], changes)]
      /\ Issue("update", cols, detached, event)
  BY DEF UpdateGoalState
<1>2. DOMAIN cols = {g} /\ cols[g] = changes
  BY DEF Only
<1>3. q.kind = "update" /\ q.cols = cols
  OBVIOUS
<1> HIDE DEF cols, q
<1>4. GoalsOK /\ RowsOK
  BY DEF KeptInv, RowInv, TypeInv, TypeOK
<1>5. goals'[g] = Assign(goals[g], changes) /\ \A h \in GoalIds \ {g} : goals'[h] = goals[h]
  BY <1>1, <1>4 DEF GoalsOK
<1>6. Assign(goals[g], changes) # NoRow
  BY <1>4, PresentHasStatus, AssignPresent
<1>7. ASSUME g \notin adrift, ~InFlight(g)
      PROVE  BringsGoal(q, g)
  <2>1. rows[g] # NoRow /\ (history[g] # "clobbered" => RowIsGoal(rows[g], g))
    BY <1>7 DEF KeptInv, GoalKept
  <2>2. Written(q, g) = Assign(rows[g], changes)
    BY <1>2, <1>3, <2>1 DEF Written
  <2>3. IsRow(rows[g]) /\ "status" \in DOMAIN rows[g]
    BY <1>4, <2>1 DEF RowsOK, IsRow, Columns, StateColumns
  <2>4. Assign(rows[g], changes) # NoRow
    BY <2>3, AssignPresent
  <2>5. CASE history[g] = "clobbered" \/ rows[g] = goals[g]
    BY <1>5, <1>6, <2>2, <2>4, <2>5 DEF BringsGoal
  <2>6. CASE history[g] # "clobbered" /\ rows[g] # goals[g]
    <3>1. history[g] # "clean" /\ Expired(rows[g]) /\ goals[g] = Opened(rows[g])
      BY <2>1, <2>6 DEF RowIsGoal
    <3>2. \/ Written(q, g) = goals'[g]
          \/ Expired(Written(q, g)) /\ goals'[g] = Opened(Written(q, g))
      BY <1>5, <2>2, <2>3, <3>1, OpenedChanges
    <3> QED BY <1>5, <1>6, <2>2, <2>4, <3>1, <3>2 DEF BringsGoal
  <2> QED BY <2>5, <2>6
<1>8. \A h \in GoalIds \cap DOMAIN cols :
        ~InFlight(h) /\ h \notin adrift => BringsGoal(q, h)
  BY <1>2, <1>7
<1>9. \A h \in GoalIds \ DOMAIN cols : UntouchedGoal(h)
  BY <1>2, <1>5 DEF UntouchedGoal
<1> QED BY <1>1, <1>3, <1>8, <1>9, SentKeptInv

LEMMA CreateKept ==
  ASSUME KeptInv, RowInv', NEW g \in GoalIds, NEW data \in CreateInputs, CreateGoal(g, data)
  PROVE  KeptInv'
<1> DEFINE options == Assign(GoalDefault, data)
           st      == [status |-> IdleStatusFor(options.timerDuration)]
           cols    == Only(g, Assign(data, st))
           q       == [kind |-> "save", cols |-> cols]
<1>1. /\ Running /\ Running' /\ rows' = rows /\ now' = now
      /\ goals' = [goals EXCEPT ![g] = Assign(options, st)]
      /\ Issue("save", cols, FALSE, FALSE)
      /\ history' = [history EXCEPT ![g] =
                       IF goals[g] = NoRow THEN "clean" ELSE "clobbered"]
  BY DEF CreateGoal, Running
<1>2. DOMAIN cols = {g} /\ cols[g] = Assign(data, st)
  BY DEF Only
<1>3. q.kind = "save" /\ q.cols = cols
  OBVIOUS
<1>4. "status" \in DOMAIN st
  OBVIOUS
<1>5. Assign(options, st) = Assign(GoalDefault, Assign(data, st))
  BY AssignTwice
<1> HIDE DEF options, st, cols, q
<1>6. GoalsOK /\ RowsOK /\ history \in [GoalIds -> Lineage]
  BY DEF KeptInv, RowInv, TypeInv, TypeOK
<1>7. /\ goals'[g] = Assign(options, st)
      /\ history'[g] # "clobbered" => goals[g] = NoRow
      /\ \A h \in GoalIds \ {g} : goals'[h] = goals[h] /\ history'[h] = history[h]
  BY <1>1, <1>6 DEF GoalsOK
<1>8. goals'[g] # NoRow
  BY <1>4, <1>7, AssignPresent
<1>9. Written(q, g) = Assign(IF rows[g] = NoRow THEN GoalDefault ELSE rows[g], Assign(data, st))
  BY <1>2, <1>3 DEF Written
<1>10. Written(q, g) # NoRow
  <2>1. "status" \in DOMAIN Assign(data, st)
    BY <1>4, AssignPresent
  <2> QED BY <1>9, <2>1, AssignPresent
<1>11. ASSUME history'[g] # "clobbered" PROVE Written(q, g) = goals'[g]
  <2>1. rows[g] = NoRow
    BY <1>1, <1>7, <1>11 DEF KeptInv, RowInv, RowHasGoal
  <2> QED BY <1>5, <1>7, <1>9, <2>1
<1>12. \A h \in GoalIds \ DOMAIN cols : UntouchedGoal(h)
  BY <1>2, <1>7 DEF UntouchedGoal
<1>13. \A h \in GoalIds \cap DOMAIN cols : BringsGoal(q, h)
  BY <1>2, <1>8, <1>10, <1>11 DEF BringsGoal
<1>14. Running /\ Running' /\ rows' = rows /\ now' = now /\ Issue("save", cols, FALSE, FALSE)
  BY <1>1
<1> QED BY <1>3, <1>12, <1>13, <1>14, SentKeptInv

LEMMA UpdateAppliesKept ==
  ASSUME KeptInv, RowInv', NEW r \in Requests, NEW data \in UpdateInputs,
         UpdateApplies(r, data)
  PROVE  KeptInv'
<1> DEFINE row == reads[r].row
<1>0. PICK g \in GoalIds : g = reads[r].goal /\ IsRow(row) /\ goals[g] # NoRow
  BY DEF UpdateApplies, KeptInv, RowInv, TypeInv, TypeOK, ReadsOK
<1> DEFINE changes == UpdateChanges(row, data, goals[g].votesValue)
           cols    == Only(g, Assign(Assign(row, data), changes))
           q       == [kind |-> "save", cols |-> cols]
<1>1. /\ Running /\ Running' /\ rows' = rows /\ now' = now
      /\ goals' = [goals EXCEPT ![g] = Assign(Assign(goals[g], changes), data)]
      /\ Issue("save", cols, FALSE, FALSE)
      /\ \/ history' = [history EXCEPT ![g] = "clobbered"]
         \/ /\ history' = [history EXCEPT ![g] = history[g]]
            /\ \A c \in Columns : row[c] = goals[g][c]
  BY <1>0 DEF UpdateApplies, Running
<1>2. DOMAIN cols = {g} /\ cols[g] = Assign(Assign(row, data), changes)
  BY DEF Only
<1>3. q.kind = "save" /\ q.cols = cols
  OBVIOUS
<1>4. DOMAIN data \subseteq OptionColumns /\ DOMAIN changes \subseteq {"status"}
      /\ IsColumns(data) /\ IsColumns(changes)
  BY RequestColumns, UpdateChangesType
<1> HIDE DEF row, changes, cols, q
<1>5. IsRow(row) /\ goals[g] # NoRow /\ GoalsOK /\ RowsOK /\ history \in [GoalIds -> Lineage]
  BY <1>0 DEF row, KeptInv, RowInv, TypeInv, TypeOK
<1>6. /\ goals'[g] = Assign(Assign(goals[g], changes), data)
      /\ \A h \in GoalIds \ {g} : goals'[h] = goals[h] /\ history'[h] = history[h]
      /\ history'[g] # "clobbered" => \A c \in Columns : row[c] = goals[g][c]
  BY <1>1, <1>5 DEF GoalsOK
<1>7. goals'[g] # NoRow
  BY <1>5, <1>6, PresentHasStatus, AssignPresent
<1>8. Written(q, g) = Assign(IF rows[g] = NoRow THEN GoalDefault ELSE rows[g],
                             Assign(Assign(row, data), changes))
  BY <1>2, <1>3 DEF Written
<1>9. Written(q, g) # NoRow
  <2>1. "status" \in DOMAIN row
    BY <1>5 DEF IsRow, Columns, StateColumns
  <2>2. "status" \in DOMAIN Assign(Assign(row, data), changes)
    BY <2>1, AssignPresent
  <2> QED BY <1>8, <2>2, AssignPresent
<1>10. ASSUME history'[g] # "clobbered"
       PROVE  Written(q, g) = goals'[g]
  <2>1. row = goals[g]
    <3>1. IsRow(goals[g])
      BY <1>5 DEF GoalsOK
    <3> QED BY <1>5, <1>6, <1>10, <3>1, RowsEqual
  <2> DEFINE before == IF rows[g] = NoRow THEN GoalDefault ELSE rows[g]
             after  == Assign(Assign(row, data), changes)
  <2>2. DOMAIN before = Columns
    BY <1>5, DefaultIsRow DEF RowsOK, IsRow
  <2>3. IsRow(after)
    BY <1>4, <1>5, AssignType
  <2> HIDE DEF before, after
  <2>4. Assign(before, after) = after
    BY <2>2, <2>3, AssignOver DEF IsRow, IsColumns
  <2>5. DOMAIN data \cap DOMAIN changes = {}
    BY <1>4 DEF OptionColumns
  <2>6. after = Assign(Assign(row, changes), data)
    BY <2>5 DEF after, Assign
  <2> QED BY <1>6, <1>8, <2>1, <2>4, <2>6 DEF before, after
<1>11. \A h \in GoalIds \ DOMAIN cols : UntouchedGoal(h)
  BY <1>2, <1>6 DEF UntouchedGoal
<1>12. \A h \in GoalIds \cap DOMAIN cols : BringsGoal(q, h)
  BY <1>2, <1>7, <1>9, <1>10 DEF BringsGoal
<1>13. Running /\ Running' /\ rows' = rows /\ now' = now /\ Issue("save", cols, FALSE, FALSE)
  BY <1>1
<1> QED BY <1>3, <1>11, <1>12, <1>13, SentKeptInv

\* The state columns of the vote that a restart made of a row, assigned to the row.
LEMMA OpenedState ==
  ASSUME NEW row, "status" \in StateColumns, StateColumns \subseteq DOMAIN row
  PROVE  Assign(row, [c \in StateColumns |-> Opened(row)[c]]) = Opened(row)
<1> DEFINE open == [status |-> "VotingRunning"]
<1>1. DOMAIN open = {"status"}
  OBVIOUS
<1> HIDE DEF open
<1>2. Assign(row, [c \in StateColumns |-> Assign(row, open)[c]]) = Assign(row, open)
  BY <1>1 DEF Assign
<1> QED BY <1>2 DEF Opened, open

LEMMA DestroyKept ==
  ASSUME KeptInv, RowInv', ModuleDestroy
  PROVE  KeptInv'
<1> DEFINE cols == [g \in {x \in GoalIds : goals[x] # NoRow} |->
                      [c \in StateColumns |-> goals[g][c]]]
           q    == [kind |-> "save", cols |-> cols]
<1>1. /\ Running /\ Running' /\ UNCHANGED <<rows, goals, history, now>>
      /\ Issue("save", cols, FALSE, FALSE)
  BY DEF ModuleDestroy, Running, memory
<1>2. /\ DOMAIN cols = {x \in GoalIds : goals[x] # NoRow}
      /\ \A g \in DOMAIN cols : cols[g] = [c \in StateColumns |-> goals[g][c]]
  OBVIOUS
<1>3. q.kind = "save" /\ q.cols = cols
  OBVIOUS
<1> HIDE DEF cols, q
<1>4. ASSUME NEW g \in DOMAIN cols, ~InFlight(g), g \notin adrift
      PROVE  Written(q, g) # NoRow /\ (history[g] # "clobbered" => Written(q, g) = goals[g])
  <2>1. goals[g] # NoRow /\ g \in GoalIds /\ IsRow(goals[g])
    BY <1>2 DEF KeptInv, RowInv, TypeInv, TypeOK, GoalsOK
  <2>2. rows[g] # NoRow /\ (history[g] # "clobbered" => RowIsGoal(rows[g], g))
    BY <1>1, <1>4, <2>1 DEF KeptInv, GoalKept
  <2>3. Written(q, g) = Assign(rows[g], [c \in StateColumns |-> goals[g][c]])
    BY <1>2, <1>3, <2>2 DEF Written
  <2>4. "status" \in DOMAIN rows[g]
    BY <2>1, <2>2 DEF KeptInv, RowInv, TypeInv, TypeOK, RowsOK, IsRow, Columns, StateColumns
  <2>5. goals[g] = [c \in DOMAIN goals[g] |-> goals[g][c]]
        /\ StateColumns \in SUBSET DOMAIN goals[g]
    BY <2>1 DEF IsRow, IsColumns, Columns
  <2>6. Written(q, g) # NoRow
    BY <2>3, <2>4, AssignPresent
  <2>7. CASE rows[g] = goals[g]
    BY <2>3, <2>5, <2>6, <2>7, AssignOwn
  <2>8. CASE rows[g] # goals[g]
    <3>1. history[g] # "clobbered" => goals[g] = Opened(rows[g])
      BY <2>2, <2>8 DEF RowIsGoal
    <3>2. "status" \in StateColumns /\ StateColumns \subseteq DOMAIN rows[g]
          /\ rows[g] = [c \in DOMAIN rows[g] |-> rows[g][c]]
      BY <2>1, <2>2 DEF KeptInv, RowInv, TypeInv, TypeOK, RowsOK, IsRow, IsColumns,
                        Columns, StateColumns
    <3>3. goals[g] = Opened(rows[g]) => Written(q, g) = goals[g]
      BY <2>3, <3>2, OpenedState
    <3> QED BY <2>6, <3>1, <3>3
  <2> QED BY <2>7, <2>8
<1>5. \A g \in DOMAIN cols : goals[g] # NoRow
  BY <1>2
<1>6. \A g \in GoalIds \cap DOMAIN cols :
        ~InFlight(g) /\ g \notin adrift => BringsGoal(q, g)
  BY <1>1, <1>4, <1>5 DEF BringsGoal
<1>7. \A g \in GoalIds \ DOMAIN cols : UntouchedGoal(g)
  BY <1>1 DEF UntouchedGoal
<1> QED BY <1>1, <1>3, <1>6, <1>7, SentKeptInv

LEMMA KeptInvNext == KeptInv /\ [Next]_vars => KeptInv'
<1> SUFFICES ASSUME KeptInv, [Next]_vars PROVE KeptInv'
  OBVIOUS
<1>1. RowInv' /\ EventsUpdate /\ TypeInv /\ GoalsOK /\ QueriesOK /\ ReadsOK
  BY RowInvNext DEF KeptInv, RowInv, TypeInv, TypeOK
<1>2. CASE ModuleInit
  <2>1. /\ \A c \in Connections : queries'[c] = NoStatement
        /\ rows' = rows
    BY <1>2 DEF ModuleInit
  <2>2. ASSUME NEW g \in GoalIds PROVE GoalKept(g)'
    <3>1. /\ goals'[g] = IF rows[g] = NoRow THEN NoRow ELSE Restored(rows[g])
          /\ rows[g] # NoRow => history'[g] # "clean"
          /\ now' = now
      BY <1>2 DEF ModuleInit
    <3>2. goals'[g] # NoRow => rows'[g] # NoRow
      BY <2>1, <3>1
    <3>3. RowIsGoal(rows[g], g)'
      <4>1. CASE rows[g] = NoRow
        BY <2>1, <3>1, <4>1 DEF RowIsGoal
      <4>2. CASE rows[g] # NoRow /\ Expired(rows[g])
        BY <2>1, <3>1, <4>2 DEF RowIsGoal, Expired, Opened, Restored, RestoredStatus
      <4>3. CASE rows[g] # NoRow /\ ~Expired(rows[g])
        <5>1. IsRow(rows[g])
          BY <1>1, <4>3 DEF TypeInv, TypeOK, RowsOK
        <5>2. goals'[g] = Assign(rows[g], [status |-> rows[g].status])
          BY <3>1, <4>3 DEF Expired, Restored, RestoredStatus
        <5>3. Assign(rows[g], [status |-> rows[g].status]) = rows[g]
          BY <5>1 DEF Assign, IsRow, IsColumns, Columns, StateColumns
        <5> QED BY <2>1, <5>2, <5>3 DEF RowIsGoal
      <4> QED BY <4>1, <4>2, <4>3
    <3> QED BY <2>1, <3>2, <3>3 DEF GoalKept, About
  <2> QED BY <1>1, <2>1, <2>2 DEF KeptInv, EventsUpdate
<1>3. CASE ModuleDestroy
  BY <1>1, <1>3, DestroyKept
<1>4. CASE Exit \/ Crash
  BY <1>1, <1>4, DownKeptInv DEF Exit, Crash, ProcessEnds, EventsUpdate
<1>5. CASE Tick \/ UNCHANGED vars
  <2>1. now' >= now
    BY <1>1, <1>5 DEF Tick, vars, TypeInv, TypeOK
  <2> QED BY <1>1, <1>5, <2>1, StillKeptInv DEF Tick, vars, memory
<1>6. ASSUME NEW c \in Connections, Commits(c) PROVE KeptInv'
  <2>1. EventsUpdate'
    BY <1>1, <1>6, SettledEvents DEF Commits
  <2>2. CASE ProcessEnds
    BY <1>1, <2>1, <2>2, DownKeptInv DEF ProcessEnds
  <2>3. CASE UNCHANGED <<proc, memory, history, adrift>>
    BY <1>1, <1>6, <2>1, <2>3, CommitsKept DEF KeptInv, Running
  <2> QED BY <1>6, <2>2, <2>3 DEF Commits
<1>7. ASSUME NEW c \in Connections, Fails(c) PROVE KeptInv'
  <2>1. EventsUpdate'
    BY <1>1, <1>7, SettledEvents DEF Fails
  <2>2. CASE ProcessEnds
    BY <1>1, <2>1, <2>2, DownKeptInv DEF ProcessEnds
  <2>3. CASE ~ProcessEnds
    <3>1. /\ UNCHANGED <<proc, memory, history>>
          /\ Running => adrift' = adrift \cup DOMAIN queries[c].cols
      BY <1>7, <2>3 DEF Fails
    <3>2. ASSUME Running, NEW g \in GoalIds \ adrift' PROVE GoalKept(g)'
      BY <1>7, <3>1, <3>2, FailsKept DEF About
    <3> QED BY <1>1, <2>1, <3>1, <3>2 DEF KeptInv, Running
  <2> QED BY <2>2, <2>3
<1>8. ASSUME NEW g \in GoalIds, goals[g] # NoRow,
             NEW changes, NEW detached, NEW event,
             "endTimerTimestamp" \in DOMAIN changes => "status" \in DOMAIN changes,
             UpdateGoalState(g, changes, detached, event),
             UNCHANGED <<proc, rows, history, now>>
      PROVE  KeptInv'
  <2>1. Running /\ Running'
    BY <1>1, <1>8, GoalMeansRunning DEF TypeInv, Running
  <2> QED BY <1>1, <1>8, <2>1, UpdateKept
<1>9. ASSUME NEW t \in TimerIds, TimerFires(t) PROVE KeptInv'
  <2>1. timers[t].goal \in GoalIds /\ goals[timers[t].goal] # NoRow
    BY <1>1, <1>9 DEF TimerFires, TypeInv, TypeOK, TimersOK, ArmedHasGoal
  <2> QED BY <1>8, <1>9, <2>1 DEF TimerFires
<1>10. ASSUME NEW g \in GoalIds,
              \/ StartGoal(g)
              \/ PauseGoal(g)
              \/ ResetGoal(g)
              \/ \E u \in Users, type \in EventType : ChatMessage(g, u, type)
       PROVE  KeptInv'
  <2>1. CASE StartGoal(g)
    BY <1>8, <2>1 DEF StartGoal, StartTimer, StartVoting
  <2>2. CASE PauseGoal(g)
    BY <1>8, <2>2 DEF PauseGoal, PauseTimer, PauseVoting
  <2>3. CASE ResetGoal(g)
    BY <1>8, <2>3 DEF ResetGoal
  <2>4. CASE \E u \in Users, type \in EventType : ChatMessage(g, u, type)
    <3>1. PICK u \in Users, type \in EventType : ChatMessage(g, u, type)
      BY <2>4
    <3> DEFINE changes == VoteChanges(g, VotesAfter(goals[g].votesValue, type))
    <3>2. "endTimerTimestamp" \notin DOMAIN changes
      BY DEF VoteChanges
    <3>3. /\ goals[g] # NoRow /\ UNCHANGED <<proc, rows, history, now>>
          /\ UpdateGoalState(g, changes, TRUE, TRUE)
      BY <3>1 DEF ChatMessage
    <3> HIDE DEF changes
    <3> QED BY <1>8, <3>2, <3>3
  <2> QED BY <1>10, <2>1, <2>2, <2>3, <2>4
<1>11. ASSUME NEW g \in GoalIds, NEW data \in CreateInputs, CreateGoal(g, data)
       PROVE  KeptInv'
  BY <1>1, <1>11, CreateKept
<1>12. ASSUME NEW r \in Requests, NEW g \in GoalIds, UpdateReads(r, g) PROVE KeptInv'
  <2>1. now' >= now
    BY <1>1, <1>12 DEF UpdateReads, TypeInv, TypeOK
  <2> QED BY <1>1, <1>12, <2>1, StillKeptInv DEF UpdateReads
<1>13. ASSUME NEW r \in Requests, NEW data \in UpdateInputs, UpdateApplies(r, data)
       PROVE  KeptInv'
  BY <1>1, <1>13, UpdateAppliesKept
<1>14. ASSUME NEW g \in GoalIds, DeleteGoal(g) PROVE KeptInv'
  <2> DEFINE q == [kind |-> "delete", cols |-> Only(g, NoColumns)]
  <2>1. /\ Running /\ Running' /\ UNCHANGED <<goals, rows, history, now>>
        /\ Issue("delete", Only(g, NoColumns), FALSE, FALSE)
    BY <1>14 DEF DeleteGoal, Running, memory
  <2>2. q.kind = "delete" /\ q.cols = Only(g, NoColumns)
    OBVIOUS
  <2> HIDE DEF q
  <2>3. \A h \in GoalIds : UntouchedGoal(h)
    BY <2>1 DEF UntouchedGoal
  <2> QED BY <1>1, <2>1, <2>2, <2>3, SentKeptInv
<1>15. ASSUME NEW g \in GoalIds, ResetVotes(g) PROVE KeptInv'
  <2> DEFINE q == [kind |-> "save", cols |-> NoColumns]
  <2>1. /\ UNCHANGED <<proc, goals, rows, history, now>> /\ goals[g] # NoRow
        /\ Issue("save", NoColumns, FALSE, FALSE)
    BY <1>15 DEF ResetVotes
  <2>2. Running /\ Running'
    BY <1>1, <2>1, GoalMeansRunning DEF TypeInv, Running
  <2>3. q.kind = "save" /\ q.cols = NoColumns /\ DOMAIN NoColumns = {}
    BY DEF NoColumns
  <2> HIDE DEF q
  <2>4. \A h \in GoalIds : UntouchedGoal(h)
    BY <2>1 DEF UntouchedGoal
  <2> QED BY <1>1, <2>1, <2>2, <2>3, <2>4, SentKeptInv
<1> QED BY <1>2, <1>3, <1>4, <1>5, <1>6, <1>7, <1>9, <1>10, <1>11, <1>12, <1>13, <1>14,
           <1>15 DEF Next

LEMMA KeptInvHolds == Spec => []KeptInv
  BY KeptInvInit, KeptInvNext, PTL DEF Spec

\* Once the statements about a goal are answered, its row is the goal in memory,
\* for every sequence of requests, votes and timeouts, and any number of
\* connections: unless two statements about it overlapped, one failed, or it was
\* deleted (adrift), or an update was based on a stale row (clobbered).
THEOREM RowsFollowGoals == Spec => []RowFollowsGoal
<1>1. KeptInv => RowFollowsGoal
  BY DEF KeptInv, GoalKept, RowFollowsGoal, RowIsGoal, Expired, Opened, Restored,
         RestoredStatus
<1> QED BY <1>1, KeptInvHolds, PTL

\* The event of a vote finds the row of its goal, unless the goal is adrift: the
\* foreign key, whose violation nothing handles, is never violated.
THEOREM EventsHaveGoals == Spec => []EventHasItsGoal
<1>1. KeptInv => EventHasItsGoal
  <2> SUFFICES ASSUME KeptInv, Running, NEW c \in Connections,
                      queries[c] # NoStatement, queries[c].event,
                      NEW g \in DOMAIN queries[c].cols \ adrift
               PROVE  rows[g] # NoRow
    BY DEF EventHasItsGoal
  <2>1. g \in GoalIds /\ queries[c].kind = "update"
    BY DEF KeptInv, RowInv, TypeInv, TypeOK, QueriesOK, IsStatement, EventsUpdate
  <2>2. Written(queries[c], g) # NoRow
    BY <2>1 DEF KeptInv, GoalKept, About
  <2> QED BY <2>1, <2>2 DEF Written
<1> QED BY <1>1, KeptInvHolds, PTL

----------------------------------------------------------------------------
(* The open vote and the target                                             *)

\* The goal has not been reached, or its target is 0 and it has no votes.
Below(goal) ==
  \/ goal.votesValue < goal.maxVotesValue
  \/ goal.votesValue = 0 /\ goal.maxVotesValue = 0

FinishedOrBelow(goal) == goal.status = "VotingFinished" \/ Below(goal)

Sound(g) == history[g] \in {"clean", "restored"}

\* OpenVoteBelowTarget is about one status; a goal may reach it from every other
\* one but the last, so that all of them have to be below the target.
UnfinishedBelow ==
  \A g \in GoalIds : goals[g] # NoRow /\ Sound(g) => FinishedOrBelow(goals[g])

\* What a restart reads back: the row, now or once the statement in flight is
\* answered (the server may have stopped before it learns of that).
SoundRow(g) ==
  /\ \A c, d \in Connections : About(c, g) /\ About(d, g) => c = d
  /\ rows[g] # NoRow => FinishedOrBelow(rows[g])
  /\ \A c \in Connections :
       About(c, g) /\ Written(queries[c], g) # NoRow => FinishedOrBelow(Written(queries[c], g))

SoundRows == \A g \in GoalIds : Sound(g) /\ g \notin adrift => SoundRow(g)

\* While the process is down a goal is clean, or its row would be read back astray.
DownClean ==
  ~Running => adrift = {} /\ \A g \in GoalIds : history[g] \in {"clean", "clobbered"}

\* The open vote of a goal that was read back is below its target because its row
\* was, and that because row and goal go together (KeptInv).
OpenInv == TimerInv /\ KeptInv /\ DownClean /\ UnfinishedBelow /\ SoundRows

\* A step that changes one goal and leaves it finished or below its target.
LEMMA OneGoalBelow ==
  ASSUME OpenInv, NEW g \in GoalIds,
         \A h \in GoalIds \ {g} : goals'[h] = goals[h] /\ history'[h] = history[h],
         goals'[g] # NoRow /\ Sound(g)' => FinishedOrBelow(goals'[g])
  PROVE  UnfinishedBelow'
<1> SUFFICES ASSUME NEW h \in GoalIds, goals'[h] # NoRow, Sound(h)'
             PROVE  FinishedOrBelow(goals'[h])
  BY DEF UnfinishedBelow, FinishedOrBelow, Below
<1>1. CASE h = g
  BY <1>1
<1>2. CASE h # g
  BY <1>2 DEF OpenInv, UnfinishedBelow, Sound
<1> QED BY <1>1, <1>2

\* The handlers that only change the state of a goal, which they leave finished or
\* below its target.
LEMMA UpdateBelow ==
  ASSUME OpenInv, NEW g \in GoalIds, goals[g] # NoRow,
         NEW changes, IsColumns(changes),
         NEW detached \in BOOLEAN, NEW event \in BOOLEAN,
         UpdateGoalState(g, changes, detached, event), history' = history,
         "maxVotesValue" \notin DOMAIN changes,
         \/ /\ "votesValue" \notin DOMAIN changes
            /\ Sound(g) => goals[g].status # "VotingFinished"
         \/ "votesValue" \in DOMAIN changes /\ changes["votesValue"] = 0
         \/ "status" \in DOMAIN changes /\ changes["status"] = "VotingFinished"
         \/ /\ "votesValue" \in DOMAIN changes
            /\ changes["votesValue"] < goals[g].maxVotesValue
  PROVE  UnfinishedBelow'
<1>1. /\ IsRow(goals[g]) /\ IsRow(goals'[g])
      /\ \A h \in GoalIds \ {g} : goals'[h] = goals[h]
      /\ \A c \in DOMAIN changes : goals'[g][c] = changes[c]
      /\ \A c \in Columns \ DOMAIN changes : goals'[g][c] = goals[g][c]
  <2>1. GoalsOK /\ QueriesOK
    BY DEF OpenInv, TimerInv, TypeInv, TypeOK
  <2>2. IsRow(goals[g])
    BY <2>1 DEF GoalsOK
  <2> QED BY <2>1, <2>2, UpdateGoalStateEffect
<1>2. /\ "votesValue" \in Columns /\ "maxVotesValue" \in Columns
      /\ goals[g].maxVotesValue \in Nat
  BY <1>1, RowTypes DEF Columns, StateColumns, OptionColumns
<1>3. goals'[g].maxVotesValue = goals[g].maxVotesValue
  BY <1>1, <1>2
<1>4. Sound(g) => FinishedOrBelow(goals[g])
  BY DEF OpenInv, UnfinishedBelow
<1>5. Sound(g) => FinishedOrBelow(goals'[g])
  <2>1. CASE "votesValue" \in DOMAIN changes
    BY <1>1, <1>2, <1>3, <2>1 DEF FinishedOrBelow, Below
  <2>2. CASE "votesValue" \notin DOMAIN changes
    BY <1>1, <1>2, <1>3, <1>4, <2>2 DEF FinishedOrBelow, Below
  <2> QED BY <2>1, <2>2
<1> QED BY <1>1, <1>5, OneGoalBelow DEF Sound

LEMMA OpenInvInit == Init => OpenInv
<1> SUFFICES ASSUME Init PROVE OpenInv
  OBVIOUS
<1>1. TimerInv /\ KeptInv
  BY TimerInvInit, KeptInvInit
<1>2. DownClean /\ UnfinishedBelow
  BY DEF Init, DownClean, UnfinishedBelow
<1>3. \A c \in Connections : queries[c] = NoStatement
  BY DEF Init
<1>4. \A g \in GoalIds : rows[g] = NoRow /\ \A c \in Connections : ~About(c, g)
  BY <1>3 DEF Init, About
<1> QED BY <1>1, <1>2, <1>4 DEF OpenInv, SoundRows, SoundRow

LEMMA UnfinishedBelowNext == OpenInv /\ [Next]_vars => UnfinishedBelow'
<1> SUFFICES ASSUME OpenInv, [Next]_vars PROVE UnfinishedBelow'
  OBVIOUS
<1>1. GoalsOK /\ QueriesOK /\ ReadsOK /\ TimersOK /\ now \in Nat /\ ArmedHasGoal
      /\ history \in [GoalIds -> Lineage]
  BY DEF OpenInv, TimerInv, TypeInv, TypeOK
<1>2. CASE ModuleInit
  <2> SUFFICES ASSUME NEW g \in GoalIds, goals'[g] # NoRow, Sound(g)'
               PROVE  FinishedOrBelow(goals'[g])
    BY DEF UnfinishedBelow, FinishedOrBelow, Below
  <2>1. /\ goals'[g] = Restored(rows[g]) /\ rows[g] # NoRow
        /\ history[g] # "clobbered" /\ ~Running
    BY <1>2 DEF ModuleInit, Sound, Running
  <2>2. SoundRow(g)
    BY <2>1 DEF OpenInv, DownClean, SoundRows, Sound
  <2>3. FinishedOrBelow(rows[g]) /\ IsRow(rows[g])
    BY <2>1, <2>2 DEF SoundRow, OpenInv, TimerInv, TypeInv, TypeOK, RowsOK
  <2>4. /\ goals'[g].votesValue = rows[g].votesValue
        /\ goals'[g].maxVotesValue = rows[g].maxVotesValue
        /\ goals'[g].status = RestoredStatus(rows[g])
    BY <2>1, <2>3 DEF Restored, Assign, IsRow, Columns, StateColumns, OptionColumns
  <2> QED BY <2>3, <2>4 DEF FinishedOrBelow, Below, RestoredStatus
<1>3. ASSUME ProcessEnds PROVE UnfinishedBelow'
  BY <1>3 DEF ProcessEnds, UnfinishedBelow
<1>4. ASSUME UNCHANGED <<goals, history>> PROVE UnfinishedBelow'
  BY <1>4 DEF OpenInv, UnfinishedBelow, FinishedOrBelow, Below, Sound
<1>5. CASE Exit \/ Crash
  BY <1>3, <1>5 DEF Exit, Crash
<1>6. CASE \/ ModuleDestroy \/ Tick \/ UNCHANGED vars
           \/ \E g \in GoalIds : DeleteGoal(g) \/ ResetVotes(g)
           \/ \E r \in Requests, g \in GoalIds : UpdateReads(r, g)
  BY <1>4, <1>6 DEF ModuleDestroy, Tick, vars, memory, DeleteGoal, ResetVotes, UpdateReads
<1>7. CASE \E c \in Connections : Commits(c) \/ Fails(c)
  BY <1>3, <1>4, <1>7 DEF Commits, Fails, memory
<1>8. ASSUME NEW t \in TimerIds, TimerFires(t) PROVE UnfinishedBelow'
  <2>1. PICK g \in GoalIds : g = timers[t].goal /\ goals[g] # NoRow
    BY <1>1, <1>8 DEF TimerFires, TimersOK, ArmedHasGoal
  <2>2. /\ UpdateGoalState(g, [status |-> "VotingRunning"], TRUE, FALSE)
        /\ timers[t] # None /\ history' = history
    BY <1>8, <2>1 DEF TimerFires
  <2>3. Sound(g) => goals[g].status = "TimerRunning"
    BY <2>1, <2>2 DEF OpenInv, TimerInv, NoStrayTimer, Sound
  <2> DEFINE changes == [status |-> "VotingRunning"]
  <2>4. IsColumns(changes) /\ DOMAIN changes = {"status"}
    BY StatusIsColumns DEF ChatGoalStatus
  <2>5. history' = history /\ "votesValue" \notin DOMAIN changes
        /\ "maxVotesValue" \notin DOMAIN changes
    BY <2>2, <2>4
  <2>6. PICK detached \in BOOLEAN, event \in BOOLEAN :
          UpdateGoalState(g, changes, detached, event)
    BY <2>2
  <2> HIDE DEF changes
  <2>7. Sound(g) => goals[g].status # "VotingFinished"
    BY <2>3
  <2> QED BY <2>1, <2>4, <2>5, <2>6, <2>7, UpdateBelow
<1>9. ASSUME NEW g \in GoalIds, StartGoal(g) PROVE UnfinishedBelow'
  <2>1. goals[g] # NoRow /\ history' = history
    BY <1>9 DEF StartGoal
  <2>2. CASE StartTimer(g)
    <3> DEFINE delay == IF goals[g].status = "TimerIdle"
                        THEN goals[g].timerDuration ELSE goals[g].remainingTimerDuration
               changes == [status |-> "TimerRunning", endTimerTimestamp |-> now + delay]
    <3>1. goals[g].status # "VotingFinished" /\ UpdateGoalState(g, changes, FALSE, FALSE)
      BY <2>2 DEF StartTimer
    <3>2. now + delay \in Int
      BY <1>1, <2>1, RowTypes DEF GoalsOK
    <3>3. IsColumns(changes)
      BY <3>2, TimerColumns DEF ChatGoalStatus
    <3>4. DOMAIN changes = {"status", "endTimerTimestamp"}
      OBVIOUS
    <3> HIDE DEF changes
    <3> QED BY <2>1, <3>1, <3>3, <3>4, UpdateBelow
  <2>3. CASE StartVoting(g)
    <3> DEFINE changes == [status |-> "VotingRunning"]
    <3>1. goals[g].status # "VotingFinished" /\ UpdateGoalState(g, changes, FALSE, FALSE)
      BY <2>3 DEF StartVoting
    <3>2. IsColumns(changes) /\ DOMAIN changes = {"status"}
      BY StatusIsColumns DEF ChatGoalStatus
    <3> HIDE DEF changes
    <3> QED BY <2>1, <3>1, <3>2, UpdateBelow
  <2> QED BY <1>9, <2>2, <2>3 DEF StartGoal
<1>10. ASSUME NEW g \in GoalIds, PauseGoal(g) PROVE UnfinishedBelow'
  <2>1. goals[g] # NoRow /\ history' = history
    BY <1>10 DEF PauseGoal
  <2>2. CASE PauseTimer(g)
    <3> DEFINE left    == goals[g].endTimerTimestamp - now
               changes == [status |-> "TimerPaused", remainingTimerDuration |-> left]
    <3>1. goals[g].status # "VotingFinished" /\ UpdateGoalState(g, changes, FALSE, FALSE)
      BY <2>2 DEF PauseTimer
    <3>2. left \in Int
      BY <1>1, <2>1, RowTypes DEF GoalsOK
    <3>3. DOMAIN changes = {"status", "remainingTimerDuration"}
      OBVIOUS
    <3> HIDE DEF left
    <3>4. IsColumns(changes)
      BY <3>2, TimerColumns DEF ChatGoalStatus
    <3> HIDE DEF changes
    <3> QED BY <2>1, <3>1, <3>3, <3>4, UpdateBelow
  <2>3. CASE PauseVoting(g)
    <3> DEFINE changes == [status |-> "VotingPaused"]
    <3>1. goals[g].status # "VotingFinished" /\ UpdateGoalState(g, changes, FALSE, FALSE)
      BY <2>3 DEF PauseVoting
    <3>2. IsColumns(changes) /\ DOMAIN changes = {"status"}
      BY StatusIsColumns DEF ChatGoalStatus
    <3> HIDE DEF changes
    <3> QED BY <2>1, <3>1, <3>2, UpdateBelow
  <2> QED BY <1>10, <2>2, <2>3 DEF PauseGoal
<1>11. ASSUME NEW g \in GoalIds, ResetGoal(g) PROVE UnfinishedBelow'
  <2> DEFINE st      == IdleStatusFor(goals[g].timerDuration)
             changes == [status |-> st, endTimerTimestamp |-> 0,
                         remainingTimerDuration |-> 0, votesValue |-> 0]
  <2>1. /\ goals[g] # NoRow /\ history' = history
        /\ UpdateGoalState(g, changes, FALSE, FALSE)
    BY <1>11 DEF ResetGoal
  <2>2. st \in ChatGoalStatus
    BY IdleStatusType
  <2> HIDE DEF st
  <2>3. IsColumns(changes)
    BY <2>2, 0 \in Int, TimerColumns
  <2>4. "maxVotesValue" \notin DOMAIN changes
        /\ "votesValue" \in DOMAIN changes /\ changes["votesValue"] = 0
    OBVIOUS
  <2> HIDE DEF changes
  <2> QED BY <2>1, <2>3, <2>4, UpdateBelow
<1>12. ASSUME NEW g \in GoalIds, NEW u \in Users, NEW type \in EventType,
              ChatMessage(g, u, type)
       PROVE  UnfinishedBelow'
  <2> DEFINE value   == VotesAfter(goals[g].votesValue, type)
             changes == VoteChanges(g, value)
  <2>1. /\ goals[g] # NoRow /\ history' = history
        /\ UpdateGoalState(g, changes, TRUE, TRUE)
    BY <1>12 DEF ChatMessage
  <2>2. value \in Int /\ goals[g].maxVotesValue \in Nat
    BY <1>1, <2>1, RowTypes DEF GoalsOK, VotesAfter
  <2> HIDE DEF value
  <2>3. IsColumns(changes)
    BY <2>2, VoteChangesType
  <2>4. /\ "maxVotesValue" \notin DOMAIN changes
        /\ \/ "status" \in DOMAIN changes /\ changes["status"] = "VotingFinished"
           \/ /\ "votesValue" \in DOMAIN changes
              /\ changes["votesValue"] < goals[g].maxVotesValue
    BY <2>2 DEF VoteChanges
  <2> HIDE DEF changes
  <2> QED BY <2>1, <2>3, <2>4, UpdateBelow
<1>13. ASSUME NEW g \in GoalIds, NEW data \in CreateInputs, CreateGoal(g, data)
       PROVE  UnfinishedBelow'
  <2> DEFINE options == Assign(GoalDefault, data)
             st      == [status |-> IdleStatusFor(options.timerDuration)]
  <2>1. /\ goals' = [goals EXCEPT ![g] = Assign(options, st)]
        /\ history' = [history EXCEPT ![g] =
                         IF goals[g] = NoRow THEN "clean" ELSE "clobbered"]
    BY <1>13 DEF CreateGoal
  <2>2. DOMAIN data \subseteq OptionColumns /\ IsColumns(data)
    BY RequestColumns
  <2>3. /\ "votesValue" \in DOMAIN options /\ options.votesValue = 0
        /\ "maxVotesValue" \in DOMAIN options /\ options.maxVotesValue \in Nat
    <3>1. IsRow(options)
      BY <2>2, DefaultIsRow, AssignType
    <3>2. options.votesValue = 0
      BY <2>2 DEF Assign, GoalDefault, OptionColumns
    <3> HIDE DEF options
    <3> QED BY <3>1, <3>2, RowTypes DEF IsRow, Columns, StateColumns, OptionColumns
  <2>4. DOMAIN st = {"status"}
    OBVIOUS
  <2> HIDE DEF options, st
  <2>5. /\ Assign(options, st).votesValue = 0
        /\ Assign(options, st).maxVotesValue \in Nat
    BY <2>3, <2>4 DEF Assign
  <2>6. /\ goals'[g] = Assign(options, st)
        /\ \A h \in GoalIds \ {g} : goals'[h] = goals[h] /\ history'[h] = history[h]
    BY <1>1, <2>1 DEF GoalsOK
  <2> QED BY <2>5, <2>6, OneGoalBelow DEF FinishedOrBelow, Below
<1>14. ASSUME NEW r \in Requests, NEW data \in UpdateInputs, UpdateApplies(r, data)
       PROVE  UnfinishedBelow'
  <2>1. PICK g \in GoalIds : g = reads[r].goal /\ goals[g] # NoRow
    BY <1>1, <1>14 DEF UpdateApplies, ReadsOK
  <2> DEFINE row     == reads[r].row
             changes == UpdateChanges(row, data, goals[g].votesValue)
             before  == Assign(goals[g], changes)
  <2>2. /\ goals' = [goals EXCEPT ![g] = Assign(before, data)]
        /\ \/ history' = [history EXCEPT ![g] = "clobbered"]
           \/ /\ history' = [history EXCEPT ![g] = history[g]]
              /\ \A c \in Columns : row[c] = goals[g][c]
    BY <1>14, <2>1 DEF UpdateApplies
  <2>3. /\ goals'[g] = Assign(before, data)
        /\ \A h \in GoalIds \ {g} : goals'[h] = goals[h] /\ history'[h] = history[h]
        /\ Sound(g)' => Sound(g) /\ \A c \in Columns : row[c] = goals[g][c]
    BY <1>1, <2>1, <2>2 DEF GoalsOK, Sound
  <2>4. IsRow(goals[g]) /\ DOMAIN data \subseteq OptionColumns
        /\ DOMAIN changes \subseteq {"status"}
    BY <1>1, <2>1, RequestColumns, UpdateChangesType DEF GoalsOK
  <2>5. \/ "status" \in DOMAIN changes /\ changes["status"] = "VotingFinished"
        \/ /\ "maxVotesValue" \in DOMAIN data => ~(data["maxVotesValue"] <= goals[g].votesValue)
           /\ "status" \in DOMAIN changes => row.status \in IdleStatus
    BY DEF UpdateChanges, NoColumns
  <2> HIDE DEF changes, row
  <2>6. /\ before.votesValue = goals[g].votesValue
        /\ before.maxVotesValue = goals[g].maxVotesValue
        /\ before.status =
             IF "status" \in DOMAIN changes THEN changes["status"] ELSE goals[g].status
        /\ DOMAIN before = Columns
    BY <2>4 DEF Assign, IsRow, Columns, StateColumns, OptionColumns
  <2> HIDE DEF before
  <2>7. /\ Assign(before, data).votesValue = goals[g].votesValue
        /\ Assign(before, data).maxVotesValue =
             IF "maxVotesValue" \in DOMAIN data THEN data["maxVotesValue"]
             ELSE goals[g].maxVotesValue
        /\ Assign(before, data).status =
             IF "status" \in DOMAIN changes THEN changes["status"] ELSE goals[g].status
    BY <2>4, <2>6 DEF Assign, Columns, StateColumns, OptionColumns
  <2>8. ASSUME Sound(g)'
        PROVE  goals'[g].status = "VotingFinished" \/ Below(goals'[g])
    <3>1. /\ Sound(g) /\ row.status = goals[g].status
          /\ goals[g].status = "VotingFinished" \/ Below(goals[g])
      BY <2>1, <2>3, <2>8 DEF OpenInv, UnfinishedBelow, FinishedOrBelow, Columns, StateColumns
    <3>2. /\ goals[g].votesValue \in Int /\ goals[g].maxVotesValue \in Nat
          /\ "maxVotesValue" \in DOMAIN data => data["maxVotesValue"] \in Nat
      BY <2>4, RowTypes, RequestColumns
    <3>3. CASE "status" \in DOMAIN changes /\ changes["status"] = "VotingFinished"
      BY <2>3, <2>7, <3>3
    <3>4. CASE ~("status" \in DOMAIN changes /\ changes["status"] = "VotingFinished")
      <4>1. \/ goals'[g].status = "VotingFinished"
            \/ Below(goals[g])
        BY <2>3, <2>5, <2>7, <3>1, <3>4 DEF IdleStatus
      <4>2. "maxVotesValue" \in DOMAIN data => goals[g].votesValue < data["maxVotesValue"]
        BY <2>5, <3>2, <3>4
      <4> QED BY <2>3, <2>7, <4>1, <4>2 DEF Below
    <3> QED BY <3>3, <3>4
  <2> QED BY <2>3, <2>8, OneGoalBelow DEF FinishedOrBelow
<1> QED BY <1>2, <1>5, <1>6, <1>7, <1>8, <1>9, <1>10, <1>11, <1>12, <1>13, <1>14 DEF Next

\* An answered statement leaves a sound row sound: what it wrote was, and what the
\* others would write does not change.
LEMMA SettledSoundRow ==
  ASSUME QueriesOK, NEW c \in Connections, Settle(c), NEW g \in GoalIds, SoundRow(g),
         \/ rows'[g] = rows[g]
         \/ About(c, g) /\ rows'[g] = Written(queries[c], g)
  PROVE  SoundRow(g)'
<1>1. /\ queries'[c] = NoStatement
      /\ \A d \in Connections \ {c} : queries'[d] = queries[d]
  BY DEF Settle, QueriesOK
<1>2. \A d \in Connections : About(d, g)' => d # c /\ About(d, g)
  BY <1>1 DEF About
<1>3. rows'[g] # NoRow => FinishedOrBelow(rows'[g])
  BY DEF SoundRow
<1>4. ASSUME NEW d \in Connections, About(d, g)' PROVE Written(queries[d], g)' = Written(queries[d], g)
  <2>1. ~About(c, g)
    BY <1>2, <1>4 DEF SoundRow
  <2>2. rows'[g] = rows[g] /\ queries'[d] = queries[d]
    BY <1>1, <1>2, <1>4, <2>1
  <2> QED BY <2>2 DEF Written
<1>5. ASSUME NEW d \in Connections, About(d, g)', Written(queries[d], g)' # NoRow
      PROVE  FinishedOrBelow(Written(queries[d], g))'
  <2> DEFINE w == Written(queries[d], g)
  <2>1. Written(queries[d], g)' = w /\ w # NoRow /\ About(d, g)
    BY <1>2, <1>4, <1>5
  <2>2. FinishedOrBelow(w)
    BY <2>1 DEF SoundRow
  <2> HIDE DEF w
  <2> QED BY <2>1, <2>2 DEF FinishedOrBelow, Below
<1>6. \A d, e \in Connections : About(d, g)' /\ About(e, g)' => d = e
  BY <1>2 DEF SoundRow
<1>7. (rows[g] # NoRow => FinishedOrBelow(rows[g]))'
  BY <1>3 DEF FinishedOrBelow, Below
<1> QED BY <1>5, <1>6, <1>7 DEF SoundRow

\* The row is below its target when the goal is: it shows the same votes and target,
\* and is as little finished.
LEMMA RowBelow ==
  ASSUME NEW row, IsRow(row), NEW g \in GoalIds, RowIsGoal(row, g), FinishedOrBelow(goals[g])
  PROVE  FinishedOrBelow(row)
<1>1. CASE row = goals[g]
  BY <1>1
<1>2. CASE Expired(row) /\ goals[g] = Opened(row)
  <2>1. /\ goals[g].votesValue = row.votesValue
        /\ goals[g].maxVotesValue = row.maxVotesValue
        /\ goals[g].status = "VotingRunning"
    BY <1>2 DEF Opened, Assign, IsRow, Columns, StateColumns, OptionColumns
  <2> QED BY <2>1 DEF FinishedOrBelow, Below
<1> QED BY <1>1, <1>2 DEF RowIsGoal

\* While the process runs, what a statement will write is the goal, so that the row
\* of today is all that is left to look at.
RowBelowNow(g) == rows[g] # NoRow => FinishedOrBelow(rows[g])

LEMMA RunningSoundRows ==
  KeptInv /\ UnfinishedBelow /\ Running =>
    \A g \in GoalIds : Sound(g) /\ g \notin adrift /\ RowBelowNow(g) => SoundRow(g)
<1> SUFFICES ASSUME KeptInv, UnfinishedBelow, Running,
                    NEW g \in GoalIds, Sound(g), g \notin adrift, RowBelowNow(g)
             PROVE  SoundRow(g)
  OBVIOUS
<1>1. GoalKept(g) /\ history[g] # "clobbered"
  BY DEF KeptInv, Sound
<1>2. ASSUME NEW c \in Connections, About(c, g), Written(queries[c], g) # NoRow
      PROVE  FinishedOrBelow(Written(queries[c], g))
  <2>1. goals[g] # NoRow /\ RowIsGoal(Written(queries[c], g), g)
    BY <1>1, <1>2 DEF GoalKept
  <2>2. IsRow(Written(queries[c], g))
    BY <1>2, WrittenType DEF About, KeptInv, RowInv, TypeInv, TypeOK, QueriesOK
  <2>3. FinishedOrBelow(goals[g])
    BY <2>1 DEF UnfinishedBelow
  <2> QED BY <2>1, <2>2, <2>3, RowBelow
<1> QED BY <1>1, <1>2 DEF SoundRow, GoalKept, RowBelowNow

LEMMA RunningSoundRowsNext ==
  (KeptInv /\ UnfinishedBelow /\ Running)' =>
    (\A g \in GoalIds : Sound(g) /\ g \notin adrift /\ RowBelowNow(g) => SoundRow(g))'
  BY RunningSoundRows, PTL

\* The rows of a running process stay sound when a step leaves them alone and makes
\* no goal sound that was not, nor takes one back that was adrift.
LEMMA StillSoundRows ==
  ASSUME OpenInv, KeptInv', UnfinishedBelow', Running', rows' = rows,
         adrift \subseteq adrift',
         \A g \in GoalIds : Sound(g)' => Sound(g) \/ rows[g] = NoRow
  PROVE  SoundRows'
<1> SUFFICES ASSUME NEW g \in GoalIds, Sound(g)', g \notin adrift'
             PROVE  SoundRow(g)'
  BY DEF SoundRows
<1>1. rows[g] # NoRow => FinishedOrBelow(rows[g])
  BY DEF OpenInv, SoundRows, SoundRow
<1>2. RowBelowNow(g)'
  BY <1>1 DEF RowBelowNow, FinishedOrBelow, Below
<1> QED BY <1>2, RunningSoundRowsNext

\* What the process leaves behind.
LEMMA LeftSoundRow ==
  ASSUME OpenInv, Running, NEW g \in GoalIds, ~LeavesAstray(g)
  PROVE  SoundRow(g)
<1>1. Sound(g) /\ KeptInv /\ UnfinishedBelow
  BY DEF LeavesAstray, Sound, OpenInv, TimerInv, TypeInv, TypeOK, Lineage
<1>2. CASE g \notin adrift
  BY <1>1, <1>2 DEF OpenInv, SoundRows
<1>3. CASE g \in adrift
  <2>1. ~InFlight(g) /\ rows[g] = goals[g]
    BY <1>3 DEF LeavesAstray
  <2>2. \A c \in Connections : ~About(c, g)
    BY <2>1 DEF InFlight, About
  <2>3. rows[g] # NoRow => FinishedOrBelow(rows[g])
    BY <1>1, <2>1 DEF UnfinishedBelow
  <2> QED BY <2>2, <2>3 DEF SoundRow
<1> QED BY <1>2, <1>3

LEMMA SoundRowsNext ==
  ASSUME OpenInv, [Next]_vars, KeptInv', UnfinishedBelow'
  PROVE  SoundRows'
<1>1. /\ GoalsOK /\ QueriesOK /\ ReadsOK /\ DownClean /\ DownIsEmpty /\ RowHasGoal
      /\ history \in [GoalIds -> Lineage]
  BY DEF OpenInv, TimerInv, TypeInv, TypeOK, KeptInv, RowInv
<1>2. ASSUME NEW kind, NEW cols, NEW detached, NEW event, Issue(kind, cols, detached, event)
      PROVE  adrift \subseteq adrift'
  BY <1>2 DEF Issue
<1>3. ASSUME Running, UNCHANGED <<proc, rows, history>>, adrift \subseteq adrift'
      PROVE  SoundRows'
  BY <1>3, StillSoundRows DEF Sound, Running
<1>4. CASE ModuleInit
  <2>1. /\ ~Running /\ Running' /\ UNCHANGED <<rows, adrift>>
        /\ \A g \in GoalIds : history'[g] =
             IF rows[g] = NoRow THEN "clean"
             ELSE IF history[g] = "clobbered" THEN "astray" ELSE "restored"
    BY <1>4 DEF ModuleInit, Running
  <2>2. \A g \in GoalIds : Sound(g)' => Sound(g) \/ rows[g] = NoRow
    BY <1>1, <2>1 DEF Sound, DownClean
  <2> QED BY <2>1, <2>2, StillSoundRows
<1>5. CASE Exit \/ Crash
  <2>1. Running /\ ProcessEnds /\ UNCHANGED <<rows, queries>>
    BY <1>5 DEF Exit, Crash, Running
  <2> SUFFICES ASSUME NEW g \in GoalIds, Sound(g)' PROVE SoundRow(g)'
    BY DEF SoundRows
  <2>2. ~LeavesAstray(g)
    BY <2>1 DEF ProcessEnds, Sound
  <2>3. SoundRow(g)
    BY <2>1, <2>2, LeftSoundRow
  <2> QED BY <2>1, <2>3 DEF SoundRow, About, Written, FinishedOrBelow, Below
<1>6. CASE Tick \/ UNCHANGED vars
  BY <1>6 DEF Tick, vars, OpenInv, SoundRows, SoundRow, Sound, About, Written,
              FinishedOrBelow, Below
<1>7. ASSUME NEW c \in Connections, Commits(c) \/ Fails(c) PROVE SoundRows'
  <2> SUFFICES ASSUME NEW g \in GoalIds, Sound(g)', g \notin adrift' PROVE SoundRow(g)'
    BY DEF SoundRows
  <2>1. /\ Settle(c)
        /\ \/ rows'[g] = rows[g]
           \/ About(c, g) /\ rows'[g] = Written(queries[c], g)
    BY <1>7 DEF Commits, Fails, About
  <2>2. SoundRow(g)
    <3>1. CASE Running /\ ProcessEnds
      <4>1. ~LeavesAstray(g)
        BY <3>1 DEF ProcessEnds, Sound
      <4> QED BY <3>1, <4>1, LeftSoundRow
    <3>2. CASE ~(Running /\ ProcessEnds)
      <4>1. history' = history /\ adrift \subseteq adrift'
        BY <1>7, <3>2 DEF Commits, Fails
      <4> QED BY <4>1 DEF OpenInv, SoundRows, Sound
    <3> QED BY <3>1, <3>2
  <2> QED BY <1>1, <2>1, <2>2, SettledSoundRow
<1>8. CASE ModuleDestroy
  <2>1. Running /\ Running' /\ UNCHANGED <<rows, history>>
    BY <1>8 DEF ModuleDestroy, Running
  <2>2. adrift \subseteq adrift'
    BY <1>2, <1>8 DEF ModuleDestroy
  <2> QED BY <2>1, <2>2, StillSoundRows DEF Sound
<1>9. ASSUME NEW g \in GoalIds, goals[g] # NoRow,
             NEW changes, NEW detached, NEW event,
             UpdateGoalState(g, changes, detached, event),
             UNCHANGED <<proc, rows, history>>
      PROVE  SoundRows'
  <2>1. Running
    BY <1>1, <1>9 DEF DownIsEmpty, Running
  <2>2. adrift \subseteq adrift'
    BY <1>2, <1>9 DEF UpdateGoalState
  <2> QED BY <1>3, <1>9, <2>1, <2>2
<1>10. ASSUME NEW t \in TimerIds, TimerFires(t) PROVE SoundRows'
  <2>1. timers[t].goal \in GoalIds /\ goals[timers[t].goal] # NoRow
    BY <1>10 DEF TimerFires, OpenInv, TimerInv, TypeInv, TypeOK, TimersOK, ArmedHasGoal
  <2> QED BY <1>9, <1>10, <2>1 DEF TimerFires
<1>11. ASSUME NEW g \in GoalIds,
              \/ StartGoal(g)
              \/ PauseGoal(g)
              \/ ResetGoal(g)
              \/ \E u \in Users, type \in EventType : ChatMessage(g, u, type)
       PROVE  SoundRows'
  <2>1. CASE StartGoal(g)
    BY <1>9, <2>1 DEF StartGoal, StartTimer, StartVoting
  <2>2. CASE PauseGoal(g)
    BY <1>9, <2>2 DEF PauseGoal, PauseTimer, PauseVoting
  <2>3. CASE ResetGoal(g)
    BY <1>9, <2>3 DEF ResetGoal
  <2>4. CASE \E u \in Users, type \in EventType : ChatMessage(g, u, type)
    BY <1>9, <2>4 DEF ChatMessage
  <2> QED BY <1>11, <2>1, <2>2, <2>3, <2>4
<1>12. ASSUME NEW g \in GoalIds, NEW data \in CreateInputs, CreateGoal(g, data)
       PROVE  SoundRows'
  <2>1. /\ Running /\ Running' /\ rows' = rows
        /\ history' = [history EXCEPT ![g] =
                         IF goals[g] = NoRow THEN "clean" ELSE "clobbered"]
    BY <1>12 DEF CreateGoal, Running
  <2>2. adrift \subseteq adrift'
    BY <1>2, <1>12 DEF CreateGoal
  <2>3. \A h \in GoalIds : Sound(h)' => Sound(h) \/ rows[h] = NoRow
    BY <1>1, <2>1 DEF Sound, RowHasGoal
  <2> QED BY <2>1, <2>2, <2>3, StillSoundRows
<1>13. ASSUME NEW r \in Requests, NEW data \in UpdateInputs, UpdateApplies(r, data)
       PROVE  SoundRows'
  <2>1. PICK g \in GoalIds : g = reads[r].goal
    BY <1>1, <1>13 DEF UpdateApplies, ReadsOK
  <2>2. /\ Running /\ Running' /\ rows' = rows
        /\ \/ history' = [history EXCEPT ![g] = "clobbered"]
           \/ history' = [history EXCEPT ![g] = history[g]]
    BY <1>13, <2>1 DEF UpdateApplies, Running
  <2>3. adrift \subseteq adrift'
    BY <1>2, <1>13 DEF UpdateApplies
  <2>4. \A h \in GoalIds : Sound(h)' => Sound(h)
    BY <1>1, <2>2 DEF Sound
  <2> QED BY <2>2, <2>3, <2>4, StillSoundRows
<1>14. ASSUME NEW g \in GoalIds,
              \/ \E r \in Requests : UpdateReads(r, g)
              \/ DeleteGoal(g)
              \/ ResetVotes(g)
       PROVE  SoundRows'
  <2>1. UNCHANGED <<proc, rows, history>>
    BY <1>14 DEF UpdateReads, DeleteGoal, ResetVotes
  <2>2. Running
    BY <1>1, <1>14 DEF UpdateReads, DeleteGoal, ResetVotes, DownIsEmpty, Running
  <2>3. adrift \subseteq adrift'
    BY <1>2, <1>14 DEF UpdateReads, DeleteGoal, ResetVotes
  <2> QED BY <1>3, <2>1, <2>2, <2>3
<1> QED BY <1>4, <1>5, <1>6, <1>7, <1>8, <1>10, <1>11, <1>12, <1>13, <1>14 DEF Next

\* A step after which the process is down either ends it or finds it so.
LEMMA DownCleanNext ==
  ASSUME OpenInv, [Next]_vars
  PROVE  DownClean'
<1> SUFFICES ASSUME ~Running'
             PROVE  adrift' = {} /\ \A g \in GoalIds : history'[g] \in {"clean", "clobbered"}
  BY DEF DownClean
<1>1. ASSUME ProcessEnds
      PROVE  adrift' = {} /\ \A g \in GoalIds : history'[g] \in {"clean", "clobbered"}
  BY <1>1 DEF ProcessEnds
<1>2. ASSUME ~Running, UNCHANGED <<history, adrift>>
      PROVE  adrift' = {} /\ \A g \in GoalIds : history'[g] \in {"clean", "clobbered"}
  BY <1>2 DEF OpenInv, DownClean
<1>3. /\ \A g \in GoalIds : ~Running => goals[g] = NoRow
      /\ \A t \in TimerIds : ~Running => timers[t] = None
  BY DEF OpenInv, TimerInv, TypeInv, DownIsEmpty, Running
<1>4. CASE ModuleInit \/ ModuleDestroy
  BY <1>4 DEF ModuleInit, ModuleDestroy, Running
<1>5. CASE Exit \/ Crash \/ Tick \/ UNCHANGED vars
  BY <1>1, <1>2, <1>5 DEF Exit, Crash, Tick, vars, Running
<1>6. CASE \E c \in Connections : Commits(c) \/ Fails(c)
  BY <1>1, <1>2, <1>6 DEF Commits, Fails, Running
<1>7. CASE \E t \in TimerIds : TimerFires(t)
  BY <1>3, <1>7 DEF TimerFires, Running
<1>8. ASSUME NEW g \in GoalIds,
             \/ \E data \in CreateInputs : CreateGoal(g, data)
             \/ \E r \in Requests : UpdateReads(r, g)
             \/ DeleteGoal(g) \/ StartGoal(g) \/ PauseGoal(g) \/ ResetGoal(g)
             \/ ResetVotes(g)
             \/ \E u \in Users, type \in EventType : ChatMessage(g, u, type)
      PROVE  FALSE
  BY <1>3, <1>8 DEF CreateGoal, UpdateReads, DeleteGoal, StartGoal, PauseGoal, ResetGoal,
                    ResetVotes, ChatMessage, Running
<1>9. ASSUME NEW r \in Requests, NEW data \in UpdateInputs, UpdateApplies(r, data)
      PROVE  FALSE
  BY <1>9 DEF UpdateApplies, Running
<1> QED BY <1>4, <1>5, <1>6, <1>7, <1>8, <1>9 DEF Next

LEMMA OpenInvNext == OpenInv /\ [Next]_vars => OpenInv'
<1> SUFFICES ASSUME OpenInv, [Next]_vars PROVE OpenInv'
  OBVIOUS
<1>1. TimerInv' /\ KeptInv'
  BY TimerInvNext, KeptInvNext DEF OpenInv
<1>2. UnfinishedBelow' /\ DownClean'
  BY UnfinishedBelowNext, DownCleanNext
<1>3. SoundRows'
  BY <1>1, <1>2, SoundRowsNext
<1> QED BY <1>1, <1>2, <1>3 DEF OpenInv

\* A goal that takes votes has not been reached, for every target, number of
\* viewers and sequence of votes, updates of the target, resets and countdowns, in
\* the process that created it and in every later one, wherever the processes
\* between were stopped: the vote that reaches it, or the update that lowers it that
\* far, finishes it, in memory and in the row.  Exempt is a goal that was created
\* twice or updated from a stale row (clobbered), and one read back from the row
\* that such a goal has left, or that had come apart from its goal when the process
\* ended (astray).
THEOREM OpenVotesBelowTarget == Spec => []OpenVoteBelowTarget
<1>1. Spec => []OpenInv
  BY OpenInvInit, OpenInvNext, PTL DEF Spec
<1>2. OpenInv => OpenVoteBelowTarget
  BY DEF OpenInv, UnfinishedBelow, FinishedOrBelow, Sound, Below, OpenVoteBelowTarget, HasStatus
<1> QED BY <1>1, <1>2, PTL
=============================================================================
