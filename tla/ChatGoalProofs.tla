--------------------------- MODULE ChatGoalProofs ---------------------------
(* Theorems about ChatGoal, for every value of its constants.               *)
EXTENDS ChatGoal, TLAPS

----------------------------------------------------------------------------
(* Columns                                                                  *)

\* Object.assign yields the columns of both, the second one's values first.
LEMMA AssignValue ==
  ASSUME NEW f, NEW h
  PROVE  /\ Assign(f, h) = [c \in DOMAIN Assign(f, h) |-> Assign(f, h)[c]]
         /\ DOMAIN Assign(f, h) = DOMAIN f \cup DOMAIN h
         /\ \A c \in DOMAIN h : Assign(f, h)[c] = h[c]
         /\ \A c \in DOMAIN f \ DOMAIN h : Assign(f, h)[c] = f[c]
  BY DEF Assign

\* Typed columns stay typed, and a row stays a row.
LEMMA AssignType ==
  ASSUME NEW f, NEW h, IsColumns(h)
  PROVE  /\ IsColumns(f) => IsColumns(Assign(f, h))
         /\ IsRow(f) => IsRow(Assign(f, h))
<1>1. ASSUME IsColumns(f) PROVE IsColumns(Assign(f, h))
  <2> DEFINE a == Assign(f, h)
  <2>1. /\ a = [c \in DOMAIN a |-> a[c]]
        /\ DOMAIN a = DOMAIN f \cup DOMAIN h
        /\ \A c \in DOMAIN h : a[c] = h[c]
        /\ \A c \in DOMAIN f \ DOMAIN h : a[c] = f[c]
    BY AssignValue
  <2> HIDE DEF a
  <2>2. DOMAIN a \subseteq Columns
    BY <1>1, <2>1 DEF IsColumns
  <2>3. \A c \in DOMAIN a : a[c] \in ColumnType(c)
    BY <1>1, <2>1 DEF IsColumns
  <2>4. IsColumns(a)
    BY <2>1, <2>2, <2>3 DEF IsColumns
  <2> QED BY <2>4 DEF a
<1>2. ASSUME IsRow(f) PROVE DOMAIN Assign(f, h) = Columns
  <2>1. DOMAIN Assign(f, h) = DOMAIN f \cup DOMAIN h
    BY AssignValue
  <2>2. DOMAIN f = Columns /\ DOMAIN h \subseteq Columns
    BY <1>2 DEF IsRow, IsColumns
  <2> QED BY <2>1, <2>2
<1> QED BY <1>1, <1>2 DEF IsRow

LEMMA DefaultIsRow == IsRow(GoalDefault)
<1>1. /\ GoalDefault = [c \in DOMAIN GoalDefault |-> GoalDefault[c]]
      /\ DOMAIN GoalDefault = Columns
  BY DEF GoalDefault, Columns, StateColumns, OptionColumns
<1>2. ASSUME NEW c \in Columns PROVE GoalDefault[c] \in ColumnType(c)
  <2>1. CASE c = "permissions"
    BY <2>1, InputsAssumption DEF GoalDefault, ColumnType
  <2>2. CASE c = "maxVotesValue"
    BY <2>2, InputsAssumption DEF GoalDefault, ColumnType
  <2>3. CASE c = "status"
    BY <2>3 DEF GoalDefault, ColumnType, ChatGoalStatus
  <2>4. CASE c = "listening"
    BY <2>4 DEF GoalDefault, ColumnType
  <2>5. CASE c = "timerDuration"
    BY <2>5 DEF GoalDefault, ColumnType
  <2>6. CASE c \in StateColumns \ {"status"}
    BY <2>6 DEF GoalDefault, ColumnType, StateColumns
  <2> QED BY <2>1, <2>2, <2>3, <2>4, <2>5, <2>6 DEF Columns, StateColumns, OptionColumns
<1> QED BY <1>1, <1>2 DEF IsRow, IsColumns

\* A row is never the absence of one.
LEMMA RowIsPresent ==
  ASSUME NEW f, IsRow(f)
  PROVE  f # NoRow
<1>1. "status" \in DOMAIN f
  BY DEF IsRow, Columns, StateColumns
<1>2. DOMAIN NoRow = {}
  BY DEF NoRow, NoColumns
<1> QED BY <1>1, <1>2

LEMMA StatusIsColumns ==
  ASSUME NEW s \in ChatGoalStatus
  PROVE  IsColumns([status |-> s])
  BY DEF IsColumns, Columns, StateColumns, ColumnType

LEMMA NoColumnsIsColumns == IsColumns(NoColumns)
  BY DEF IsColumns, NoColumns

LEMMA RowTypes ==
  ASSUME NEW f, IsRow(f)
  PROVE  /\ f.status \in ChatGoalStatus
         /\ f.endTimerTimestamp \in Int
         /\ f.remainingTimerDuration \in Int
         /\ f.votesValue \in Int
         /\ f.permissions \in Permissions
         /\ f.listening \in BOOLEAN
         /\ f.timerDuration \in Nat
         /\ f.maxVotesValue \in Nat
  BY DEF IsRow, IsColumns, Columns, StateColumns, OptionColumns, ColumnType

LEMMA TimerColumns ==
  ASSUME NEW s \in ChatGoalStatus, NEW n \in Int
  PROVE  /\ IsColumns([status |-> s, endTimerTimestamp |-> n])
         /\ IsColumns([status |-> s, remainingTimerDuration |-> n])
         /\ IsColumns([votesValue |-> n])
         /\ IsColumns([votesValue |-> n, status |-> s])
         /\ IsColumns([status |-> s, endTimerTimestamp |-> 0,
                       remainingTimerDuration |-> 0, votesValue |-> 0])
  BY DEF IsColumns, Columns, StateColumns, ColumnType

----------------------------------------------------------------------------
(* Steps shared by the handlers                                             *)

\* A statement that is typed keeps the queries typed when it is sent.
LEMMA IssueType ==
  ASSUME QueriesOK,
         NEW kind \in {"update", "save", "delete"}, NEW cols,
         NEW detached \in BOOLEAN, NEW event \in BOOLEAN,
         DOMAIN cols \subseteq GoalIds,
         \A g \in DOMAIN cols : IsColumns(cols[g]),
         Issue(kind, cols, detached, event)
  PROVE  QueriesOK' /\ (adrift \subseteq GoalIds => adrift' \subseteq GoalIds)
<1> DEFINE q == [kind |-> kind, cols |-> cols, detached |-> detached, event |-> event]
<1>1. IsStatement(q)
  BY DEF IsStatement
<1>2. PICK c \in Connections : queries' = [queries EXCEPT ![c] = q]
  BY DEF Issue
<1>3. adrift' \subseteq adrift \cup DOMAIN cols
  BY DEF Issue
<1> HIDE DEF q
<1> QED BY <1>1, <1>2, <1>3 DEF QueriesOK

LEMMA OnlyType ==
  ASSUME NEW g \in GoalIds, NEW cols, IsColumns(cols)
  PROVE  /\ DOMAIN Only(g, cols) \subseteq GoalIds
         /\ \A x \in DOMAIN Only(g, cols) : IsColumns(Only(g, cols)[x])
  BY DEF Only

\* updateGoalState changes the given columns of one goal, and nothing else of
\* the goals.
LEMMA UpdateGoalStateEffect ==
  ASSUME GoalsOK, QueriesOK, NEW g \in GoalIds, goals[g] # NoRow,
         NEW changes, IsColumns(changes),
         NEW detached \in BOOLEAN, NEW event \in BOOLEAN,
         UpdateGoalState(g, changes, detached, event)
  PROVE  /\ GoalsOK'
         /\ QueriesOK'
         /\ adrift \subseteq GoalIds => adrift' \subseteq GoalIds
         /\ IsRow(goals'[g])
         /\ \A h \in GoalIds \ {g} : goals'[h] = goals[h]
         /\ \A h \in GoalIds : goals[h] # NoRow => goals'[h] # NoRow
         /\ \A c \in DOMAIN changes : goals'[g][c] = changes[c]
         /\ \A c \in Columns \ DOMAIN changes : goals'[g][c] = goals[g][c]
<1>1. goals' = [goals EXCEPT ![g] = Assign(goals[g], changes)]
  BY DEF UpdateGoalState
<1>2. IsRow(goals[g])
  BY DEF GoalsOK
<1>3. /\ IsRow(Assign(goals[g], changes))
      /\ \A c \in DOMAIN changes : Assign(goals[g], changes)[c] = changes[c]
      /\ \A c \in Columns \ DOMAIN changes : Assign(goals[g], changes)[c] = goals[g][c]
  <2>1. IsRow(Assign(goals[g], changes))
    BY <1>2, AssignType
  <2>2. \A c \in DOMAIN changes : Assign(goals[g], changes)[c] = changes[c]
    BY DEF Assign
  <2>3. \A c \in DOMAIN goals[g] \ DOMAIN changes :
          Assign(goals[g], changes)[c] = goals[g][c]
    BY DEF Assign
  <2> QED BY <1>2, <2>1, <2>2, <2>3 DEF IsRow
<1>4. /\ goals' = [h \in GoalIds |-> goals'[h]]
      /\ goals'[g] = Assign(goals[g], changes)
      /\ \A h \in GoalIds \ {g} : goals'[h] = goals[h]
  BY <1>1 DEF GoalsOK
<1>5. GoalsOK'
  BY <1>3, <1>4 DEF GoalsOK
<1>6. QueriesOK' /\ (adrift \subseteq GoalIds => adrift' \subseteq GoalIds)
  BY IssueType, OnlyType DEF UpdateGoalState
<1>7. \A h \in GoalIds : goals[h] # NoRow => goals'[h] # NoRow
  BY <1>3, <1>4, RowIsPresent
<1> QED BY <1>3, <1>4, <1>5, <1>6, <1>7

\* Nothing of the process is left when it ends.
LEMMA ProcessEndsType ==
  ASSUME ProcessEnds
  PROVE  /\ proc' = "down"
         /\ GoalsOK' /\ TimersOK' /\ ReadsOK' /\ joined' \subseteq GoalIds
         /\ votesCountByUser' \in [GoalIds -> [Users -> Nat]]
         /\ history' \in [GoalIds -> Lineage]
         /\ adrift' \subseteq GoalIds
         /\ \A g \in GoalIds : goals'[g] = NoRow /\ timeout'[g] = None
         /\ \A t \in TimerIds : timers'[t] = None
         /\ \A r \in Requests : reads'[r] = None
  BY DEF ProcessEnds, GoalsOK, TimersOK, ReadsOK, Lineage

LEMMA SettleType ==
  ASSUME QueriesOK, NEW c \in Connections, Settle(c)
  PROVE  /\ QueriesOK'
         /\ \A d \in Connections : queries'[d] = NoStatement \/ queries'[d] = queries[d]
  BY DEF QueriesOK, Settle

\* What a statement writes to a row is a row.
LEMMA WrittenType ==
  ASSUME RowsOK, NEW q, IsStatement(q), NEW g \in DOMAIN q.cols
  PROVE  Written(q, g) = NoRow \/ IsRow(Written(q, g))
<1>1. IsColumns(q.cols[g]) /\ g \in GoalIds
  BY DEF IsStatement
<1>2. rows[g] # NoRow => IsRow(rows[g])
  BY <1>1 DEF RowsOK
<1>3. IsRow(IF rows[g] = NoRow THEN GoalDefault ELSE rows[g])
  BY <1>2, DefaultIsRow
<1>4. IsRow(Assign(IF rows[g] = NoRow THEN GoalDefault ELSE rows[g], q.cols[g]))
  BY <1>1, <1>3, AssignType
<1> QED BY <1>4 DEF Written

\* clearTimeout disarms the timeout the goal holds and no other.
LEMMA ClearTimerEffect ==
  ASSUME TimersOK, NEW g \in GoalIds, ClearTimer(g), timeout' = timeout
  PROVE  /\ TimersOK'
         /\ \A t \in TimerIds : timers'[t] = None \/ timers'[t] = timers[t]
         /\ \A t \in TimerIds \ {timeout[g]} : timers'[t] = timers[t]
         /\ timeout[g] # None => timers'[timeout[g]] = None
  BY EnvironmentAssumption DEF ClearTimer, TimersOK

\* setTimeout arms a timeout that was neither armed nor held, and the goal holds
\* it.
LEMMA ArmTimerEffect ==
  ASSUME TimersOK, now \in Nat, NEW g \in GoalIds, NEW delay \in Int, ArmTimer(g, delay)
  PROVE  /\ TimersOK'
         /\ \E t \in TimerIds :
              /\ timers[t] = None
              /\ \A h \in GoalIds : timeout[h] # t
              /\ timers'[t] = [goal |-> g, due |-> now + delay]
              /\ \A x \in TimerIds \ {t} : timers'[x] = timers[x]
              /\ timeout'[g] = t
              /\ \A h \in GoalIds \ {g} : timeout'[h] = timeout[h]
<1>1. PICK t \in TimerIds :
        /\ timers[t] = None
        /\ \A h \in GoalIds : timeout[h] # t
        /\ timers' = [timers EXCEPT ![t] = [goal |-> g, due |-> now + delay]]
        /\ timeout' = [timeout EXCEPT ![g] = t]
  BY DEF ArmTimer
<1>2. [goal |-> g, due |-> now + delay] \in [goal : GoalIds, due : Int]
  OBVIOUS
<1>3. TimersOK'
  BY <1>1, <1>2 DEF TimersOK
<1> QED BY <1>1, <1>3 DEF TimersOK

----------------------------------------------------------------------------
(* Type correctness                                                         *)

\* A process that is down holds nothing.
DownIsEmpty ==
  proc = "down" =>
    /\ \A g \in GoalIds : goals[g] = NoRow /\ timeout[g] = None
    /\ \A t \in TimerIds : timers[t] = None
    /\ \A r \in Requests : reads[r] = None

\* The goal of an armed timeout is in the map: its callback uses the entry.
ArmedHasGoal ==
  \A t \in TimerIds : timers[t] # None => goals[timers[t].goal] # NoRow

\* TypeOK alone is not inductive: a callback of a timeout of an absent goal
\* would write to nothing.
TypeInv == TypeOK /\ DownIsEmpty /\ ArmedHasGoal

LEMMA TypeInvInit == Init => TypeInv
  BY DEF Init, TypeInv, TypeOK, DownIsEmpty, ArmedHasGoal, GoalsOK, TimersOK,
     ReadsOK, RowsOK, QueriesOK, Lineage

\* The columns the handlers change are typed.
LEMMA RequestColumns ==
  ASSUME NEW data \in CreateInputs \cup UpdateInputs
  PROVE  /\ IsColumns(data)
         /\ DOMAIN data \subseteq OptionColumns
         /\ "timerDuration" \in DOMAIN data => data["timerDuration"] \in Nat
         /\ "maxVotesValue" \in DOMAIN data => data["maxVotesValue"] \in Nat
  BY InputsAssumption DEF IsColumns, ColumnType

LEMMA IdleStatusType ==
  ASSUME NEW n PROVE IdleStatusFor(n) \in ChatGoalStatus
  BY DEF IdleStatusFor, ChatGoalStatus, IdleStatus

LEMMA UpdateChangesType ==
  ASSUME NEW row, NEW data, NEW v
  PROVE  /\ IsColumns(UpdateChanges(row, data, v))
         /\ DOMAIN UpdateChanges(row, data, v) \subseteq {"status"}
  BY IdleStatusType, StatusIsColumns, NoColumnsIsColumns
     DEF UpdateChanges, NoColumns, ChatGoalStatus

LEMMA VoteChangesType ==
  ASSUME NEW g, NEW v \in Int
  PROVE  IsColumns(VoteChanges(g, v))
  BY TimerColumns DEF VoteChanges, ChatGoalStatus

\* What a handler has to keep: typed variables, and the goals of armed timeouts.
LEMMA HandlerTypeInv ==
  ASSUME TypeInv, Running,
         GoalsOK', TimersOK', ReadsOK', QueriesOK',
         votesCountByUser' \in [GoalIds -> [Users -> Nat]],
         joined' \subseteq GoalIds,
         history' \in [GoalIds -> Lineage],
         adrift' \subseteq GoalIds,
         UNCHANGED <<proc, rows, now>>,
         \A h \in GoalIds : goals[h] # NoRow => goals'[h] # NoRow,
         \A t \in TimerIds :
           \/ timers'[t] = None
           \/ timers'[t] = timers[t]
           \/ goals'[timers'[t].goal] # NoRow
  PROVE  TypeInv'
<1>1. TypeOK'
  BY DEF TypeInv, TypeOK, RowsOK
<1>2. DownIsEmpty'
  BY DEF Running, DownIsEmpty
<1>3. ArmedHasGoal'
  BY DEF TypeInv, TypeOK, TimersOK, ArmedHasGoal
<1> QED BY <1>1, <1>2, <1>3 DEF TypeInv

\* Whoever finds a goal in the map finds the process running.
LEMMA GoalMeansRunning ==
  ASSUME DownIsEmpty, NEW g \in GoalIds, goals[g] # NoRow
  PROVE  Running
  BY DEF DownIsEmpty, Running

LEMMA TypeInvNext == TypeInv /\ [Next]_vars => TypeInv'
<1> SUFFICES ASSUME TypeInv, [Next]_vars PROVE TypeInv'
  OBVIOUS
<1> USE DEF TypeInv
<1>1. CASE ModuleInit
  <2>1. ASSUME NEW g \in GoalIds, rows[g] # NoRow
        PROVE  IsRow(Assign(rows[g], [status |-> RestoredStatus(rows[g])]))
    <3>1. IsRow(rows[g])
      BY <2>1 DEF TypeOK, RowsOK
    <3>2. RestoredStatus(rows[g]) \in ChatGoalStatus
      BY <3>1, RowTypes DEF RestoredStatus, ChatGoalStatus
    <3> QED BY <3>1, <3>2, StatusIsColumns, AssignType
  <2>2. GoalsOK'
    BY <1>1, <2>1 DEF ModuleInit, Restored, GoalsOK
  <2>3. votesCountByUser' \in [GoalIds -> [Users -> Nat]]
    BY <1>1 DEF ModuleInit, StoredVotesCount
  <2>4. TimersOK' /\ ReadsOK' /\ RowsOK' /\ QueriesOK'
    BY <1>1 DEF ModuleInit, TypeOK, TimersOK, ReadsOK, RowsOK, QueriesOK
  <2>5. history' \in [GoalIds -> Lineage] /\ joined' \subseteq GoalIds
    BY <1>1 DEF ModuleInit, Lineage
  <2>6. proc' = "up" /\ now' \in Nat /\ adrift' \subseteq GoalIds
    BY <1>1 DEF ModuleInit, TypeOK
  <2>7. ArmedHasGoal'
    BY <1>1 DEF ModuleInit, DownIsEmpty, ArmedHasGoal
  <2> QED BY <2>2, <2>3, <2>4, <2>5, <2>6, <2>7 DEF TypeOK, DownIsEmpty
<1>2. CASE ModuleDestroy
  <2> DEFINE saved == [g \in {x \in GoalIds : goals[x] # NoRow} |->
                         [c \in StateColumns |-> goals[g][c]]]
  <2>1. DOMAIN saved \subseteq GoalIds
    OBVIOUS
  <2>2. ASSUME NEW g \in DOMAIN saved PROVE IsColumns(saved[g])
    <3>1. IsRow(goals[g])
      BY <2>2 DEF TypeOK, GoalsOK
    <3> QED BY <2>2, <3>1 DEF IsColumns, IsRow, Columns
  <2>3. Issue("save", saved, FALSE, FALSE)
    BY <1>2 DEF ModuleDestroy
  <2> HIDE DEF saved
  <2>4. QueriesOK' /\ adrift' \subseteq GoalIds
    BY <2>1, <2>2, <2>3, IssueType DEF TypeOK
  <2> QED BY <1>2, <2>4 DEF ModuleDestroy, memory, TypeOK, GoalsOK, TimersOK,
             ReadsOK, RowsOK, DownIsEmpty, ArmedHasGoal
<1>3. ASSUME ProcessEnds, QueriesOK', RowsOK', now' = now PROVE TypeInv'
  BY <1>3, ProcessEndsType DEF TypeOK, DownIsEmpty, ArmedHasGoal
<1>4. CASE Exit
  BY <1>3, <1>4 DEF Exit, TypeOK, QueriesOK, RowsOK
<1>5. CASE Crash
  BY <1>3, <1>5 DEF Crash, TypeOK, QueriesOK, RowsOK
<1>6. CASE Tick
  BY <1>6 DEF Tick, memory, TypeOK, GoalsOK, TimersOK, ReadsOK, RowsOK, QueriesOK,
     DownIsEmpty, ArmedHasGoal
<1>7. ASSUME QueriesOK', RowsOK', now' = now, UNCHANGED <<proc, memory, history>>,
             adrift' \subseteq GoalIds
      PROVE  TypeInv'
  BY <1>7 DEF memory, TypeOK, GoalsOK, TimersOK, ReadsOK, DownIsEmpty, ArmedHasGoal
<1>8. ASSUME NEW c \in Connections, Commits(c) PROVE TypeInv'
  <2>1. IsStatement(queries[c]) /\ QueriesOK'
    BY <1>8, SettleType DEF Commits, TypeOK, QueriesOK
  <2>2. RowsOK'
    BY <1>8, <2>1, WrittenType DEF Commits, TypeOK, RowsOK
  <2> QED BY <1>3, <1>7, <1>8, <2>1, <2>2 DEF Commits, TypeOK
<1>9. ASSUME NEW c \in Connections, Fails(c) PROVE TypeInv'
  <2>1. QueriesOK' /\ RowsOK' /\ now' = now
    BY <1>9, SettleType DEF Fails, TypeOK, RowsOK
  <2>2. CASE ProcessEnds
    BY <1>3, <2>1, <2>2
  <2>3. CASE ~ProcessEnds
    <3>1. DOMAIN queries[c].cols \subseteq GoalIds
      BY <1>9 DEF Fails, TypeOK, QueriesOK, IsStatement
    <3>2. adrift' \subseteq GoalIds /\ UNCHANGED <<proc, memory, history>>
      BY <1>9, <2>3, <3>1 DEF Fails, TypeOK
    <3> QED BY <1>7, <2>1, <3>2
  <2> QED BY <2>2, <2>3
<1>10. ASSUME NEW t \in TimerIds, TimerFires(t) PROVE TypeInv'
  <2> DEFINE g == timers[t].goal
  <2>1. g \in GoalIds /\ goals[g] # NoRow
    BY <1>10 DEF TimerFires, TypeOK, TimersOK, ArmedHasGoal
  <2>2. UpdateGoalState(g, [status |-> "VotingRunning"], TRUE, FALSE)
    BY <1>10 DEF TimerFires
  <2>3. IsColumns([status |-> "VotingRunning"])
    BY StatusIsColumns DEF ChatGoalStatus
  <2> HIDE DEF g
  <2>4. GoalsOK' /\ QueriesOK' /\ adrift' \subseteq GoalIds
        /\ \A h \in GoalIds : goals[h] # NoRow => goals'[h] # NoRow
    BY <2>1, <2>2, <2>3, UpdateGoalStateEffect DEF TypeOK
  <2>5. TimersOK' /\ \A x \in TimerIds : timers'[x] = None \/ timers'[x] = timers[x]
    BY <1>10 DEF TimerFires, TypeOK, TimersOK
  <2>6. UNCHANGED <<proc, votesCountByUser, joined, reads, rows, now, history>>
    BY <1>10 DEF TimerFires
  <2>7. ReadsOK' /\ Running
    BY <2>1, <2>6, GoalMeansRunning DEF TypeOK, ReadsOK
  <2> QED BY <2>4, <2>5, <2>6, <2>7, HandlerTypeInv DEF TypeOK
<1>11. ASSUME NEW g \in GoalIds, NEW data \in CreateInputs, CreateGoal(g, data)
       PROVE  TypeInv'
  <2> DEFINE options == Assign(GoalDefault, data)
             st      == [status |-> IdleStatusFor(options.timerDuration)]
  <2>1. IsColumns(data) /\ IsColumns(st)
    BY RequestColumns, IdleStatusType, StatusIsColumns
  <2>2. IsRow(Assign(options, st)) /\ IsColumns(Assign(data, st))
    BY <2>1, DefaultIsRow, AssignType
  <2>3. goals' = [goals EXCEPT ![g] = Assign(options, st)]
        /\ Issue("save", Only(g, Assign(data, st)), FALSE, FALSE)
    BY <1>11 DEF CreateGoal
  <2> HIDE DEF options, st
  <2>4. GoalsOK' /\ \A h \in GoalIds : goals[h] # NoRow => goals'[h] # NoRow
    BY <2>2, <2>3, RowIsPresent DEF TypeOK, GoalsOK
  <2>5. QueriesOK' /\ adrift' \subseteq GoalIds
    BY <2>2, <2>3, OnlyType, IssueType DEF TypeOK
  <2>6. TimersOK' /\ ReadsOK'
    BY <1>11 DEF CreateGoal, TypeOK, TimersOK, ReadsOK
  <2>7. votesCountByUser' \in [GoalIds -> [Users -> Nat]]
        /\ history' \in [GoalIds -> Lineage]
    BY <1>11 DEF CreateGoal, TypeOK, Lineage
  <2>8. Running /\ UNCHANGED <<proc, timers, joined, rows, now>>
    BY <1>11 DEF CreateGoal
  <2> QED BY <2>4, <2>5, <2>6, <2>7, <2>8, HandlerTypeInv DEF TypeOK
<1>12. ASSUME NEW r \in Requests, NEW g \in GoalIds, UpdateReads(r, g) PROVE TypeInv'
  <2>1. Running /\ UNCHANGED <<proc, goals, votesCountByUser, timeout, timers,
                               joined, rows, queries, now, history, adrift>>
    BY <1>12 DEF UpdateReads
  <2>2. IsRow(rows[g]) /\ reads' = [reads EXCEPT ![r] = [goal |-> g, row |-> rows[g]]]
    BY <1>12 DEF UpdateReads, TypeOK, RowsOK
  <2>3. ReadsOK'
    BY <2>2 DEF TypeOK, ReadsOK
  <2>4. GoalsOK' /\ TimersOK' /\ QueriesOK'
    BY <2>1 DEF TypeOK, GoalsOK, TimersOK, QueriesOK
  <2> QED BY <2>1, <2>3, <2>4, HandlerTypeInv DEF TypeOK
<1>13. ASSUME NEW r \in Requests, NEW data \in UpdateInputs, UpdateApplies(r, data)
       PROVE  TypeInv'
  <2> DEFINE g       == reads[r].goal
             row     == reads[r].row
             changes == UpdateChanges(row, data, goals[g].votesValue)
  <2>1. g \in GoalIds /\ IsRow(row) /\ IsRow(goals[g])
    BY <1>13 DEF UpdateApplies, TypeOK, ReadsOK, GoalsOK
  <2>2. IsColumns(data) /\ IsColumns(changes)
    BY RequestColumns, UpdateChangesType
  <2>3. IsRow(Assign(Assign(goals[g], changes), data))
        /\ IsRow(Assign(Assign(row, data), changes))
    BY <2>1, <2>2, AssignType
  <2>4. goals' = [goals EXCEPT ![g] = Assign(Assign(goals[g], changes), data)]
        /\ Issue("save", Only(g, Assign(Assign(row, data), changes)), FALSE, FALSE)
    BY <1>13 DEF UpdateApplies
  <2>5. /\ Running
        /\ reads' = [reads EXCEPT ![r] = None]
        /\ joined' \subseteq joined \cup {g}
        /\ history' = history \/ history' = [history EXCEPT ![g] = "clobbered"]
                              \/ history' = [history EXCEPT ![g] = history[g]]
        /\ UNCHANGED <<proc, votesCountByUser, timeout, timers, rows, now>>
    BY <1>13 DEF UpdateApplies
  <2> HIDE DEF g, row, changes
  <2>6. GoalsOK' /\ \A h \in GoalIds : goals[h] # NoRow => goals'[h] # NoRow
    BY <2>1, <2>3, <2>4, RowIsPresent DEF TypeOK, GoalsOK
  <2>7. QueriesOK' /\ adrift' \subseteq GoalIds
    BY <2>1, <2>3, <2>4, OnlyType, IssueType DEF TypeOK, IsRow
  <2>8. TimersOK' /\ ReadsOK'
    BY <2>5 DEF TypeOK, TimersOK, ReadsOK
  <2>9. joined' \subseteq GoalIds /\ history' \in [GoalIds -> Lineage]
    BY <2>1, <2>5 DEF TypeOK, Lineage
  <2> QED BY <2>5, <2>6, <2>7, <2>8, <2>9, HandlerTypeInv DEF TypeOK
<1>14. ASSUME NEW g \in GoalIds, DeleteGoal(g) PROVE TypeInv'
  <2>1. Running /\ UNCHANGED <<proc, memory, rows, now, history>>
        /\ Issue("delete", Only(g, NoColumns), FALSE, FALSE)
    BY <1>14 DEF DeleteGoal
  <2>2. QueriesOK' /\ adrift' \subseteq GoalIds
    BY <2>1, NoColumnsIsColumns, OnlyType, IssueType DEF TypeOK
  <2> QED BY <1>7, <2>1, <2>2 DEF TypeOK, RowsOK
<1>15. ASSUME NEW g \in GoalIds, StartGoal(g) PROVE TypeInv'
  <2>1. /\ goals[g] # NoRow
        /\ UNCHANGED <<proc, votesCountByUser, joined, reads, rows, now, history>>
    BY <1>15 DEF StartGoal
  <2>2. Running /\ IsRow(goals[g]) /\ ReadsOK'
    BY <2>1, GoalMeansRunning DEF TypeOK, GoalsOK, ReadsOK
  <2>3. CASE StartTimer(g)
    <3> DEFINE delay == IF goals[g].status = "TimerIdle"
                        THEN goals[g].timerDuration ELSE goals[g].remainingTimerDuration
    <3>1. delay \in Int
      BY <2>2, RowTypes
    <3>2. ArmTimer(g, delay)
          /\ UpdateGoalState(g, [status |-> "TimerRunning",
                                 endTimerTimestamp |-> now + delay], FALSE, FALSE)
      BY <2>3 DEF StartTimer
    <3> HIDE DEF delay
    <3>3. IsColumns([status |-> "TimerRunning", endTimerTimestamp |-> now + delay])
      <4>1. now + delay \in Int /\ "TimerRunning" \in ChatGoalStatus
        BY <3>1 DEF TypeOK, ChatGoalStatus
      <4> QED BY <4>1, TimerColumns
    <3>4. GoalsOK' /\ QueriesOK' /\ IsRow(goals'[g]) /\ adrift' \subseteq GoalIds
          /\ \A h \in GoalIds : goals[h] # NoRow => goals'[h] # NoRow
      BY <2>1, <3>2, <3>3, UpdateGoalStateEffect DEF TypeOK
    <3>5. TimersOK' /\ \A x \in TimerIds : timers'[x] = timers[x] \/ timers'[x].goal = g
      <4>1. now \in Nat /\ TimersOK /\ ArmTimer(g, delay)
        BY <3>2 DEF TypeOK
      <4>2. TimersOK' /\ \E t \in TimerIds :
              /\ timers'[t] = [goal |-> g, due |-> now + delay]
              /\ \A x \in TimerIds \ {t} : timers'[x] = timers[x]
        BY <3>1, <4>1, ArmTimerEffect
      <4> QED BY <4>2
    <3>6. goals'[g] # NoRow
      BY <3>4, RowIsPresent
    <3> QED BY <2>1, <2>2, <3>4, <3>5, <3>6, HandlerTypeInv DEF TypeOK
  <2>4. CASE StartVoting(g)
    <3>1. UpdateGoalState(g, [status |-> "VotingRunning"], FALSE, FALSE)
          /\ UNCHANGED <<timeout, timers>>
      BY <2>4 DEF StartVoting
    <3>2. IsColumns([status |-> "VotingRunning"])
      BY StatusIsColumns DEF ChatGoalStatus
    <3>3. GoalsOK' /\ QueriesOK' /\ adrift' \subseteq GoalIds
          /\ \A h \in GoalIds : goals[h] # NoRow => goals'[h] # NoRow
      BY <2>1, <3>1, <3>2, UpdateGoalStateEffect DEF TypeOK
    <3>4. TimersOK'
      BY <3>1 DEF TypeOK, TimersOK
    <3> QED BY <2>1, <2>2, <3>1, <3>3, <3>4, HandlerTypeInv DEF TypeOK
  <2> QED BY <1>15, <2>3, <2>4 DEF StartGoal
<1>16. ASSUME NEW g \in GoalIds, PauseGoal(g) PROVE TypeInv'
  <2>1. /\ goals[g] # NoRow
        /\ UNCHANGED <<proc, votesCountByUser, timeout, joined, reads, rows, now, history>>
    BY <1>16 DEF PauseGoal
  <2>2. Running /\ IsRow(goals[g]) /\ ReadsOK'
    BY <2>1, GoalMeansRunning DEF TypeOK, GoalsOK, ReadsOK
  <2>3. CASE PauseTimer(g)
    <3> DEFINE left == goals[g].endTimerTimestamp - now
    <3>1. left \in Int
      BY <2>2, RowTypes DEF TypeOK
    <3>2. ClearTimer(g) /\ UpdateGoalState(g, [status |-> "TimerPaused",
                                    remainingTimerDuration |-> left], FALSE, FALSE)
      BY <2>3 DEF PauseTimer
    <3> HIDE DEF left
    <3>3. IsColumns([status |-> "TimerPaused", remainingTimerDuration |-> left])
      BY <3>1, TimerColumns DEF ChatGoalStatus
    <3>4. GoalsOK' /\ QueriesOK' /\ adrift' \subseteq GoalIds
          /\ \A h \in GoalIds : goals[h] # NoRow => goals'[h] # NoRow
      BY <2>1, <3>2, <3>3, UpdateGoalStateEffect DEF TypeOK
    <3>5. TimersOK' /\ \A x \in TimerIds : timers'[x] = None \/ timers'[x] = timers[x]
      BY <2>1, <3>2, ClearTimerEffect DEF TypeOK
    <3> QED BY <2>1, <2>2, <3>4, <3>5, HandlerTypeInv DEF TypeOK
  <2>4. CASE PauseVoting(g)
    <3>1. UpdateGoalState(g, [status |-> "VotingPaused"], FALSE, FALSE)
          /\ UNCHANGED timers
      BY <2>4 DEF PauseVoting
    <3>2. IsColumns([status |-> "VotingPaused"])
      BY StatusIsColumns DEF ChatGoalStatus
    <3>3. GoalsOK' /\ QueriesOK' /\ adrift' \subseteq GoalIds
          /\ \A h \in GoalIds : goals[h] # NoRow => goals'[h] # NoRow
      BY <2>1, <3>1, <3>2, UpdateGoalStateEffect DEF TypeOK
    <3>4. TimersOK'
      BY <2>1, <3>1 DEF TypeOK, TimersOK
    <3> QED BY <2>1, <2>2, <3>1, <3>3, <3>4, HandlerTypeInv DEF TypeOK
  <2> QED BY <1>16, <2>3, <2>4 DEF PauseGoal
<1>17. ASSUME NEW g \in GoalIds, ResetGoal(g) PROVE TypeInv'
  <2> DEFINE st == IdleStatusFor(goals[g].timerDuration)
  <2>1. /\ goals[g] # NoRow
        /\ UNCHANGED <<proc, votesCountByUser, timeout, joined, reads, rows, now, history>>
        /\ ClearTimer(g)
        /\ UpdateGoalState(g, [status |-> st, endTimerTimestamp |-> 0,
                   remainingTimerDuration |-> 0, votesValue |-> 0], FALSE, FALSE)
    BY <1>17 DEF ResetGoal
  <2>2. Running /\ ReadsOK'
    BY <2>1, GoalMeansRunning DEF TypeOK, ReadsOK
  <2>3. st \in ChatGoalStatus
    BY IdleStatusType
  <2> HIDE DEF st
  <2>4. IsColumns([status |-> st, endTimerTimestamp |-> 0,
                   remainingTimerDuration |-> 0, votesValue |-> 0])
    BY <2>3, 0 \in Int, TimerColumns
  <2>5. GoalsOK' /\ QueriesOK' /\ adrift' \subseteq GoalIds
        /\ \A h \in GoalIds : goals[h] # NoRow => goals'[h] # NoRow
    BY <2>1, <2>4, UpdateGoalStateEffect DEF TypeOK
  <2>6. TimersOK' /\ \A x \in TimerIds : timers'[x] = None \/ timers'[x] = timers[x]
    BY <2>1, ClearTimerEffect DEF TypeOK
  <2> QED BY <2>1, <2>2, <2>5, <2>6, HandlerTypeInv DEF TypeOK
<1>18. ASSUME NEW g \in GoalIds, ResetVotes(g) PROVE TypeInv'
  <2>1. /\ goals[g] # NoRow
        /\ UNCHANGED <<proc, goals, timeout, timers, joined, reads, rows, now, history>>
        /\ Issue("save", NoColumns, FALSE, FALSE)
    BY <1>18 DEF ResetVotes
  <2>2. DOMAIN NoColumns = {}
    BY DEF NoColumns
  <2>3. QueriesOK' /\ adrift' \subseteq GoalIds
    BY <2>1, <2>2, IssueType DEF TypeOK
  <2>4. Running /\ GoalsOK' /\ TimersOK' /\ ReadsOK'
    BY <2>1, GoalMeansRunning DEF TypeOK, GoalsOK, TimersOK, ReadsOK
  <2>5. votesCountByUser' \in [GoalIds -> [Users -> Nat]]
    BY <1>18 DEF ResetVotes, TypeOK
  <2> QED BY <2>1, <2>3, <2>4, <2>5, HandlerTypeInv DEF TypeOK
<1>19. ASSUME NEW g \in GoalIds, NEW u \in Users, NEW type \in EventType,
              ChatMessage(g, u, type)
       PROVE  TypeInv'
  <2> DEFINE value == VotesAfter(goals[g].votesValue, type)
  <2>1. /\ goals[g] # NoRow
        /\ UNCHANGED <<proc, timeout, timers, joined, reads, rows, now, history>>
        /\ UpdateGoalState(g, VoteChanges(g, value), TRUE, TRUE)
        /\ votesCountByUser' = [votesCountByUser EXCEPT ![g][u] = @ + 1]
    BY <1>19 DEF ChatMessage
  <2>2. Running /\ TimersOK' /\ ReadsOK'
    BY <2>1, GoalMeansRunning DEF TypeOK, TimersOK, ReadsOK
  <2>3. value \in Int
    BY <2>1, RowTypes DEF TypeOK, GoalsOK, VotesAfter
  <2> HIDE DEF value
  <2>4. GoalsOK' /\ QueriesOK' /\ adrift' \subseteq GoalIds
        /\ \A h \in GoalIds : goals[h] # NoRow => goals'[h] # NoRow
    BY <2>1, <2>3, VoteChangesType, UpdateGoalStateEffect DEF TypeOK
  <2>5. votesCountByUser' \in [GoalIds -> [Users -> Nat]]
    BY <2>1 DEF TypeOK
  <2> QED BY <2>1, <2>2, <2>4, <2>5, HandlerTypeInv DEF TypeOK
<1>20. CASE UNCHANGED vars
  BY <1>7, <1>20 DEF vars, TypeOK, QueriesOK, RowsOK
<1> QED BY <1>1, <1>2, <1>4, <1>5, <1>6, <1>8, <1>9, <1>10, <1>11, <1>12, <1>13, <1>14,
           <1>15, <1>16, <1>17, <1>18, <1>19, <1>20 DEF Next

\* The variables hold what the entities declare, whatever the constants are, and
\* no callback of a timeout meets a goal that is not in the map.
THEOREM TypeCorrect == Spec => []TypeOK
<1>1. Spec => []TypeInv
  BY TypeInvInit, TypeInvNext, PTL DEF Spec
<1> QED BY <1>1, PTL DEF TypeInv
=============================================================================
