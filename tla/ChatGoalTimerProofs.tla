------------------------ MODULE ChatGoalTimerProofs ------------------------
(* Theorems about the countdown of a goal: its timeout is armed, no timeout *)
(* outlives its countdown, and no vote opens early.                         *)
EXTENDS ChatGoalProofs

\* Two goals never hold one Timeout object.
HeldApart ==
  \A g, h \in GoalIds : timeout[g] # None /\ timeout[g] = timeout[h] => g = h

\* An armed timeout that a goal holds is a timeout of that goal, so that clearing
\* it disarms no other countdown.
HeldIsOwn ==
  \A g \in GoalIds :
    timeout[g] # None /\ timers[timeout[g]] # None => timers[timeout[g]].goal = g

\* The inductive invariant.  RunningTimerArmed needs NoStrayTimer (a stray timeout
\* of the same goal would be the armed one's twin), and both need to know whose
\* timeout a handler clears.
TimerInv == TypeInv /\ HeldApart /\ HeldIsOwn /\ RunningTimerArmed /\ NoStrayTimer

LEMMA TimerInvInit == Init => TimerInv
<1> SUFFICES ASSUME Init PROVE TimerInv
  OBVIOUS
<1>1. TypeInv
  BY TypeInvInit
<1>2. HeldApart /\ HeldIsOwn
  BY DEF Init, HeldApart, HeldIsOwn
<1>3. RunningTimerArmed /\ NoStrayTimer
  BY DEF Init, RunningTimerArmed, NoStrayTimer, HasStatus
<1> QED BY <1>1, <1>2, <1>3 DEF TimerInv

\* Once nothing is armed or held, there is little to show.
LEMMA EmptyTimerInv ==
  ASSUME TypeInv',
         \A t \in TimerIds : timers'[t] = None,
         \A g \in GoalIds : timeout'[g] = None,
         \A g \in GoalIds : HasStatus(g, "TimerRunning")' => history'[g] # "clean"
  PROVE  TimerInv'
<1>1. HeldApart' /\ HeldIsOwn'
  BY DEF HeldApart, HeldIsOwn
<1>2. RunningTimerArmed' /\ NoStrayTimer'
  BY DEF RunningTimerArmed, NoStrayTimer
<1> QED BY <1>1, <1>2 DEF TimerInv

\* The goal counts down to the same instant as before, or does not count down.
SameCountdown(h) ==
  /\ timeout'[h] = timeout[h]
  /\ goals'[h].endTimerTimestamp = goals[h].endTimerTimestamp
  /\ HasStatus(h, "TimerRunning")

\* A step that leaves the armed timeouts alone: a goal still counting down is
\* counting down as before, and one that is not clobbered was not before, and
\* stops counting down in no such step.
LEMMA UntimedTimerInv ==
  ASSUME TimerInv, TypeInv', timers' = timers,
         NEW g \in GoalIds,
         \A h \in GoalIds \ {g} :
           /\ goals'[h] = goals[h]
           /\ timeout'[h] = timeout[h]
           /\ history'[h] = history[h],
         timeout'[g] \in {timeout[g], None},
         goals[g] # NoRow => goals'[g] # NoRow,
         HasStatus(g, "TimerRunning")' =>
           SameCountdown(g) /\ (history'[g] = "clean" => history[g] = "clean"),
         history'[g] # "clobbered" /\ goals[g] # NoRow =>
           /\ history[g] # "clobbered"
           /\ HasStatus(g, "TimerRunning") =>
                HasStatus(g, "TimerRunning")' /\ SameCountdown(g)
  PROVE  TimerInv'
<1>1. HeldApart'
  BY DEF TimerInv, HeldApart
<1>2. HeldIsOwn'
  BY DEF TimerInv, HeldIsOwn
<1>3. RunningTimerArmed'
  <2> SUFFICES ASSUME NEW h \in GoalIds, HasStatus(h, "TimerRunning")'
               PROVE  (IF timeout[h] = None THEN history[h] # "clean"
                       ELSE timers[timeout[h]] =
                              [goal |-> h, due |-> goals[h].endTimerTimestamp])'
    BY DEF RunningTimerArmed
  <2>1. /\ HasStatus(h, "TimerRunning")
        /\ timeout'[h] = timeout[h]
        /\ goals'[h].endTimerTimestamp = goals[h].endTimerTimestamp
        /\ history'[h] = "clean" => history[h] = "clean"
    BY DEF HasStatus, SameCountdown
  <2> QED BY <2>1 DEF TimerInv, RunningTimerArmed
<1>4. NoStrayTimer'
  <2> SUFFICES ASSUME NEW t \in TimerIds, timers[t] # None, NEW h, h = timers[t].goal
               PROVE  /\ goals'[h] # NoRow
                      /\ history'[h] # "clobbered" =>
                           /\ timeout'[h] = t
                           /\ goals'[h].status = "TimerRunning"
                           /\ goals'[h].endTimerTimestamp = timers[t].due
    BY DEF NoStrayTimer
  <2>1. /\ h \in GoalIds /\ goals[h] # NoRow
        /\ history[h] # "clobbered" =>
             /\ timeout[h] = t
             /\ goals[h].status = "TimerRunning"
             /\ goals[h].endTimerTimestamp = timers[t].due
    BY DEF TimerInv, TypeInv, TypeOK, TimersOK, NoStrayTimer
  <2>2. CASE h # g
    BY <2>1, <2>2
  <2>3. CASE h = g
    BY <2>1, <2>3 DEF HasStatus, SameCountdown
  <2> QED BY <2>2, <2>3
<1> QED BY <1>1, <1>2, <1>3, <1>4 DEF TimerInv

\* A step that disarms every timeout of a goal which is not clobbered, and after
\* which that goal does not count down.
LEMMA DisarmedTimerInv ==
  ASSUME TimerInv, TypeInv', timeout' = timeout, history' = history,
         NEW g \in GoalIds,
         goals'[g] # NoRow,
         ~HasStatus(g, "TimerRunning")',
         \A h \in GoalIds \ {g} : goals'[h] = goals[h],
         \A t \in TimerIds :
           \/ timers'[t] = timers[t]
           \/ timers'[t] = None /\ (timers[t] # None => timers[t].goal = g),
         \A t \in TimerIds :
           timers'[t] # None /\ timers[t].goal = g => history[g] = "clobbered"
  PROVE  TimerInv'
<1>1. HeldApart'
  BY DEF TimerInv, HeldApart
<1>2. HeldIsOwn'
  <2> SUFFICES ASSUME NEW h \in GoalIds, timeout[h] # None, timers'[timeout[h]] # None
               PROVE  timers'[timeout[h]].goal = h
    BY DEF HeldIsOwn
  <2>1. timeout[h] \in TimerIds
    BY DEF TimerInv, TypeInv, TypeOK, TimersOK
  <2>2. timers'[timeout[h]] = timers[timeout[h]]
    BY <2>1
  <2> QED BY <2>2 DEF TimerInv, HeldIsOwn
<1>3. RunningTimerArmed'
  <2> SUFFICES ASSUME NEW h \in GoalIds, HasStatus(h, "TimerRunning")'
               PROVE  (IF timeout[h] = None THEN history[h] # "clean"
                       ELSE timers[timeout[h]] =
                              [goal |-> h, due |-> goals[h].endTimerTimestamp])'
    BY DEF RunningTimerArmed
  <2>1. h # g /\ goals'[h] = goals[h] /\ HasStatus(h, "TimerRunning")
    BY DEF HasStatus
  <2>2. CASE timeout[h] = None
    BY <2>1, <2>2 DEF TimerInv, RunningTimerArmed
  <2>3. CASE timeout[h] # None
    <3>1. timeout[h] \in TimerIds
          /\ timers[timeout[h]] = [goal |-> h, due |-> goals[h].endTimerTimestamp]
      BY <2>1, <2>3 DEF TimerInv, TypeInv, TypeOK, TimersOK, RunningTimerArmed
    <3>2. timers'[timeout[h]] = timers[timeout[h]]
      BY <2>1, <3>1
    <3> QED BY <2>1, <2>3, <3>1, <3>2
  <2> QED BY <2>2, <2>3
<1>4. NoStrayTimer'
  <2> SUFFICES ASSUME NEW t \in TimerIds, timers'[t] # None,
                      NEW h, h = timers'[t].goal
               PROVE  /\ goals'[h] # NoRow
                      /\ history'[h] # "clobbered" =>
                           /\ timeout'[h] = t
                           /\ goals'[h].status = "TimerRunning"
                           /\ goals'[h].endTimerTimestamp = timers'[t].due
    BY DEF NoStrayTimer
  <2>1. /\ timers'[t] = timers[t]
        /\ h \in GoalIds /\ goals[h] # NoRow
        /\ history[h] # "clobbered" =>
             /\ timeout[h] = t
             /\ goals[h].status = "TimerRunning"
             /\ goals[h].endTimerTimestamp = timers[t].due
    BY DEF TimerInv, TypeInv, TypeOK, TimersOK, NoStrayTimer
  <2> QED BY <2>1
<1> QED BY <1>1, <1>2, <1>3, <1>4 DEF TimerInv

\* A step that arms a fresh timeout for a goal that was not counting down.
LEMMA ArmedTimerInv ==
  ASSUME TimerInv, TypeInv', history' = history,
         NEW g \in GoalIds, NEW t \in TimerIds, NEW due,
         goals[g] # NoRow,
         ~HasStatus(g, "TimerRunning"),
         \A h \in GoalIds \ {g} : goals'[h] = goals[h] /\ timeout'[h] = timeout[h],
         goals'[g] # NoRow,
         goals'[g].status = "TimerRunning",
         goals'[g].endTimerTimestamp = due,
         timers[t] = None,
         \A h \in GoalIds : timeout[h] # t,
         timeout'[g] = t,
         timers'[t] = [goal |-> g, due |-> due],
         \A x \in TimerIds \ {t} : timers'[x] = timers[x]
  PROVE  TimerInv'
<1>1. t # None
  BY EnvironmentAssumption
<1>2. \A h \in GoalIds : timeout[h] = None \/ timeout[h] \in TimerIds \ {t}
  BY DEF TimerInv, TypeInv, TypeOK, TimersOK
<1>3. HeldApart'
  BY DEF TimerInv, HeldApart
<1>4. HeldIsOwn'
  BY <1>2 DEF TimerInv, HeldIsOwn
<1>5. RunningTimerArmed'
  <2> SUFFICES ASSUME NEW h \in GoalIds, HasStatus(h, "TimerRunning")'
               PROVE  (IF timeout[h] = None THEN history[h] # "clean"
                       ELSE timers[timeout[h]] =
                              [goal |-> h, due |-> goals[h].endTimerTimestamp])'
    BY DEF RunningTimerArmed
  <2>1. CASE h = g
    BY <1>1, <2>1
  <2>2. CASE h # g
    BY <1>2, <2>2 DEF TimerInv, RunningTimerArmed, HasStatus
  <2> QED BY <2>1, <2>2
<1>6. NoStrayTimer'
  <2> SUFFICES ASSUME NEW x \in TimerIds, timers'[x] # None,
                      NEW h, h = timers'[x].goal
               PROVE  /\ goals'[h] # NoRow
                      /\ history'[h] # "clobbered" =>
                           /\ timeout'[h] = x
                           /\ goals'[h].status = "TimerRunning"
                           /\ goals'[h].endTimerTimestamp = timers'[x].due
    BY DEF NoStrayTimer
  <2>1. CASE x = t
    BY <2>1
  <2>2. CASE x # t
    <3>1. /\ timers'[x] = timers[x]
          /\ h \in GoalIds /\ goals[h] # NoRow
          /\ history[h] # "clobbered" =>
               /\ timeout[h] = x
               /\ goals[h].status = "TimerRunning"
               /\ goals[h].endTimerTimestamp = timers[x].due
      BY <2>2 DEF TimerInv, TypeInv, TypeOK, TimersOK, NoStrayTimer
    <3>2. h = g => history[h] = "clobbered"
      BY <3>1 DEF HasStatus
    <3> QED BY <3>1, <3>2
  <2> QED BY <2>1, <2>2
<1> QED BY <1>3, <1>4, <1>5, <1>6 DEF TimerInv

\* What clearing the timeout of a goal leaves of its armed timeouts.
LEMMA ClearedTimers ==
  ASSUME TimerInv, NEW g \in GoalIds, goals[g] # NoRow, ClearTimer(g)
  PROVE  /\ \A t \in TimerIds :
              \/ timers'[t] = timers[t]
              \/ timers'[t] = None /\ (timers[t] # None => timers[t].goal = g)
         /\ \A t \in TimerIds :
              timers'[t] # None /\ timers[t].goal = g => history[g] = "clobbered"
<1>1. \A t \in TimerIds : timers'[t] = IF t = timeout[g] THEN None ELSE timers[t]
  BY DEF ClearTimer
<1>2. \A t \in TimerIds :
        \/ timers'[t] = timers[t]
        \/ timers'[t] = None /\ (timers[t] # None => timers[t].goal = g)
  BY <1>1, EnvironmentAssumption DEF TimerInv, HeldIsOwn
<1>3. ASSUME NEW t \in TimerIds, timers'[t] # None, timers[t].goal = g
      PROVE  history[g] = "clobbered"
  <2>1. timers[t] # None /\ timeout[g] # t
    BY <1>1, <1>3
  <2> QED BY <1>3, <2>1 DEF TimerInv, NoStrayTimer
<1> QED BY <1>2, <1>3

LEMMA StillTimerInv ==
  ASSUME TimerInv, TypeInv', UNCHANGED <<goals, timeout, timers, history>>
  PROVE  TimerInv'
  BY DEF TimerInv, HeldApart, HeldIsOwn, RunningTimerArmed, NoStrayTimer, HasStatus

LEMMA TimerInvNext == TimerInv /\ [Next]_vars => TimerInv'
<1> SUFFICES ASSUME TimerInv, [Next]_vars PROVE TimerInv'
  OBVIOUS
<1>1. TypeInv /\ TypeInv' /\ TypeOK /\ GoalsOK /\ QueriesOK
  BY TypeInvNext DEF TimerInv, TypeInv, TypeOK
<1>0. GoalsOK /\ QueriesOK
  BY <1>1
<1>2. CASE ModuleInit
  <2>1. \A t \in TimerIds : timers'[t] = None
    BY <1>1, <1>2 DEF ModuleInit, TypeInv, DownIsEmpty
  <2>2. \A g \in GoalIds : timeout'[g] = None
    BY <1>2 DEF ModuleInit
  <2>3. ASSUME NEW g \in GoalIds, HasStatus(g, "TimerRunning")'
        PROVE  history'[g] # "clean"
    BY <1>2, <2>3 DEF ModuleInit, HasStatus
  <2> QED BY <1>1, <2>1, <2>2, <2>3, EmptyTimerInv
<1>3. ASSUME ProcessEnds PROVE TimerInv'
  <2>1. /\ \A t \in TimerIds : timers'[t] = None
        /\ \A g \in GoalIds : timeout'[g] = None /\ goals'[g] = NoRow
    BY <1>3, ProcessEndsType
  <2>2. \A g \in GoalIds : ~HasStatus(g, "TimerRunning")'
    BY <2>1 DEF HasStatus
  <2> QED BY <1>1, <2>1, <2>2, EmptyTimerInv
<1>4. CASE Exit \/ Crash
  BY <1>3, <1>4 DEF Exit, Crash
<1>5. CASE ModuleDestroy \/ Tick \/ UNCHANGED vars
  BY <1>1, <1>5, StillTimerInv DEF ModuleDestroy, Tick, vars, memory
<1>6. ASSUME NEW c \in Connections, Commits(c) \/ Fails(c) PROVE TimerInv'
  <2>1. ProcessEnds \/ UNCHANGED <<proc, memory, history>>
    BY <1>6 DEF Commits, Fails
  <2> QED BY <1>1, <1>3, <2>1, StillTimerInv DEF memory
<1>7. ASSUME NEW t \in TimerIds, TimerFires(t) PROVE TimerInv'
  <2>1. PICK g \in GoalIds : g = timers[t].goal /\ goals[g] # NoRow
    BY <1>1, <1>7 DEF TimerFires, TypeInv, TypeOK, TimersOK, ArmedHasGoal
  <2>2. /\ UpdateGoalState(g, [status |-> "VotingRunning"], TRUE, FALSE)
        /\ timers[t] # None
        /\ timers' = [timers EXCEPT ![t] = None]
        /\ UNCHANGED <<timeout, history>>
    BY <1>7, <2>1 DEF TimerFires
  <2>3. \A x \in TimerIds : timers'[x] = IF x = t THEN None ELSE timers[x]
    BY <1>1, <2>2 DEF TypeOK, TimersOK
  <2>4. \A x \in TimerIds :
          \/ timers'[x] = timers[x]
          \/ timers'[x] = None /\ (timers[x] # None => timers[x].goal = g)
    BY <2>1, <2>3
  <2>5. ASSUME NEW x \in TimerIds, timers'[x] # None, timers[x].goal = g
        PROVE  history[g] = "clobbered"
    <3>1. timers[x] # None /\ x # t
      BY <2>3, <2>5
    <3> QED BY <2>1, <2>2, <2>5, <3>1 DEF TimerInv, NoStrayTimer
  <2>6. IsColumns([status |-> "VotingRunning"])
    BY StatusIsColumns DEF ChatGoalStatus
  <2>7. /\ goals'[g] # NoRow /\ goals'[g].status = "VotingRunning"
        /\ \A h \in GoalIds \ {g} : goals'[h] = goals[h]
    <3> DEFINE changes == [status |-> "VotingRunning"]
    <3>1. "status" \in DOMAIN changes /\ changes["status"] = "VotingRunning"
      OBVIOUS
    <3>2. IsColumns(changes)
          /\ \E d, e \in BOOLEAN : UpdateGoalState(g, changes, d, e)
      BY <2>2, <2>6
    <3> HIDE DEF changes
    <3>3. /\ IsRow(goals'[g])
          /\ \A h \in GoalIds \ {g} : goals'[h] = goals[h]
          /\ \A c \in DOMAIN changes : goals'[g][c] = changes[c]
      BY <1>0, <2>1, <3>2, UpdateGoalStateEffect
    <3> QED BY <3>1, <3>3, RowIsPresent
  <2>8. ~HasStatus(g, "TimerRunning")'
    BY <2>7 DEF HasStatus
  <2> QED BY <1>1, <2>1, <2>2, <2>4, <2>5, <2>7, <2>8, DisarmedTimerInv
\* Handlers that leave the timeouts alone and set a status other than TimerRunning
\* on a goal that does not have it.
<1>8. ASSUME NEW g \in GoalIds, goals[g] # NoRow, goals[g].status # "TimerRunning",
             NEW changes, IsColumns(changes),
             "status" \in DOMAIN changes => changes["status"] # "TimerRunning",
             NEW detached \in BOOLEAN, NEW event \in BOOLEAN,
             UpdateGoalState(g, changes, detached, event),
             UNCHANGED <<timeout, timers, history>>
      PROVE  TimerInv'
  <2>1. /\ goals'[g] # NoRow
        /\ \A h \in GoalIds \ {g} : goals'[h] = goals[h]
        /\ \A c \in DOMAIN changes : goals'[g][c] = changes[c]
        /\ \A c \in Columns \ DOMAIN changes : goals'[g][c] = goals[g][c]
    BY <1>1, <1>8, UpdateGoalStateEffect
  <2>2. goals'[g].status # "TimerRunning"
    <3>1. "status" \in Columns
      BY DEF Columns, StateColumns
    <3> QED BY <1>8, <2>1, <3>1
  <2>3. ~HasStatus(g, "TimerRunning") /\ ~HasStatus(g, "TimerRunning")'
    BY <1>8, <2>2 DEF HasStatus
  <2>4. \/ history'[g] = "clobbered" \/ history[g] # "clobbered"
    BY <1>8
  <2> QED BY <1>1, <1>8, <2>1, <2>3, <2>4, UntimedTimerInv
\* Handlers that clear the timeout and end the countdown.
<1>9. ASSUME NEW g \in GoalIds, goals[g] # NoRow, ClearTimer(g),
             NEW changes, IsColumns(changes), "status" \in DOMAIN changes,
             changes["status"] # "TimerRunning",
             NEW detached \in BOOLEAN, NEW event \in BOOLEAN,
             UpdateGoalState(g, changes, detached, event),
             UNCHANGED <<timeout, history>>
      PROVE  TimerInv'
  <2>1. /\ goals'[g] # NoRow
        /\ \A h \in GoalIds \ {g} : goals'[h] = goals[h]
        /\ \A c \in DOMAIN changes : goals'[g][c] = changes[c]
    <3>1. /\ IsRow(goals'[g])
          /\ \A h \in GoalIds \ {g} : goals'[h] = goals[h]
          /\ \A c \in DOMAIN changes : goals'[g][c] = changes[c]
      BY <1>0, <1>9, UpdateGoalStateEffect
    <3> QED BY <3>1, RowIsPresent
  <2>2. ~HasStatus(g, "TimerRunning")'
    BY <1>9, <2>1 DEF HasStatus
  <2> QED BY <1>1, <1>9, <2>1, <2>2, ClearedTimers, DisarmedTimerInv
<1>10. ASSUME NEW g \in GoalIds, StartGoal(g) PROVE TimerInv'
  <2>1. goals[g] # NoRow /\ history' = history
    BY <1>10 DEF StartGoal
  <2>2. CASE StartTimer(g)
    <3> DEFINE delay == IF goals[g].status = "TimerIdle"
                        THEN goals[g].timerDuration ELSE goals[g].remainingTimerDuration
               changes == [status |-> "TimerRunning", endTimerTimestamp |-> now + delay]
    <3>1. IsRow(goals[g])
      BY <1>1, <2>1 DEF GoalsOK
    <3>2. delay \in Int /\ now \in Nat /\ TimersOK
      BY <1>1, <3>1, RowTypes DEF TypeOK
    <3>3. /\ goals[g].status \in {"TimerIdle", "TimerPaused"}
          /\ ArmTimer(g, delay)
          /\ \E d, e \in BOOLEAN : UpdateGoalState(g, changes, d, e)
      BY <2>2 DEF StartTimer
    <3>4. ~HasStatus(g, "TimerRunning")
      BY <3>3 DEF HasStatus
    <3> HIDE DEF delay
    <3>5. PICK t \in TimerIds :
            /\ timers[t] = None
            /\ \A h \in GoalIds : timeout[h] # t
            /\ timers'[t] = [goal |-> g, due |-> now + delay]
            /\ \A x \in TimerIds \ {t} : timers'[x] = timers[x]
            /\ timeout'[g] = t
            /\ \A h \in GoalIds \ {g} : timeout'[h] = timeout[h]
      BY <3>2, <3>3, ArmTimerEffect
    <3>6. IsColumns(changes)
      <4>1. now + delay \in Int /\ "TimerRunning" \in ChatGoalStatus
        BY <3>2 DEF ChatGoalStatus
      <4> QED BY <4>1, TimerColumns
    <3> HIDE DEF changes
    <3>7. /\ IsRow(goals'[g])
          /\ \A h \in GoalIds \ {g} : goals'[h] = goals[h]
          /\ \A c \in DOMAIN changes : goals'[g][c] = changes[c]
      BY <1>0, <2>1, <3>3, <3>6, UpdateGoalStateEffect
    <3>8. /\ goals'[g] # NoRow
          /\ goals'[g].status = "TimerRunning"
          /\ goals'[g].endTimerTimestamp = now + delay
      BY <3>7, RowIsPresent DEF changes
    <3> QED BY <1>1, <2>1, <3>4, <3>5, <3>7, <3>8, ArmedTimerInv
  <2>3. CASE StartVoting(g)
    <3>1. IsColumns([status |-> "VotingRunning"])
      BY StatusIsColumns DEF ChatGoalStatus
    <3> QED BY <1>8, <2>1, <2>3, <3>1 DEF StartVoting
  <2> QED BY <1>10, <2>2, <2>3 DEF StartGoal
<1>11. ASSUME NEW g \in GoalIds, PauseGoal(g) PROVE TimerInv'
  <2>1. goals[g] # NoRow /\ UNCHANGED <<timeout, history>>
    BY <1>11 DEF PauseGoal
  <2>2. CASE PauseTimer(g)
    <3> DEFINE left == goals[g].endTimerTimestamp - now
    <3>1. left \in Int
      BY <1>1, <2>1, RowTypes DEF GoalsOK, TypeOK
    <3>2. ClearTimer(g) /\ UpdateGoalState(g, [status |-> "TimerPaused",
                                    remainingTimerDuration |-> left], FALSE, FALSE)
      BY <2>2 DEF PauseTimer
    <3> HIDE DEF left
    <3>3. IsColumns([status |-> "TimerPaused", remainingTimerDuration |-> left])
      BY <3>1, TimerColumns DEF ChatGoalStatus
    <3> QED BY <1>9, <2>1, <3>2, <3>3
  <2>3. CASE PauseVoting(g)
    <3>1. IsColumns([status |-> "VotingPaused"])
      BY StatusIsColumns DEF ChatGoalStatus
    <3> QED BY <1>8, <2>1, <2>3, <3>1 DEF PauseVoting
  <2> QED BY <1>11, <2>2, <2>3 DEF PauseGoal
<1>12. ASSUME NEW g \in GoalIds, ResetGoal(g) PROVE TimerInv'
  <2> DEFINE st == IdleStatusFor(goals[g].timerDuration)
  <2>1. st \in ChatGoalStatus /\ st # "TimerRunning"
    BY IdleStatusType DEF IdleStatusFor
  <2>2. /\ goals[g] # NoRow /\ UNCHANGED <<timeout, history>> /\ ClearTimer(g)
        /\ UpdateGoalState(g, [status |-> st, endTimerTimestamp |-> 0,
                   remainingTimerDuration |-> 0, votesValue |-> 0], FALSE, FALSE)
    BY <1>12 DEF ResetGoal
  <2> HIDE DEF st
  <2>3. IsColumns([status |-> st, endTimerTimestamp |-> 0,
                   remainingTimerDuration |-> 0, votesValue |-> 0])
    BY <2>1, 0 \in Int, TimerColumns
  <2> QED BY <1>9, <2>1, <2>2, <2>3
<1>13. ASSUME NEW g \in GoalIds, NEW u \in Users, NEW type \in EventType,
              ChatMessage(g, u, type)
       PROVE  TimerInv'
  <2> DEFINE value == VotesAfter(goals[g].votesValue, type)
  <2>1. /\ goals[g] # NoRow /\ goals[g].status = "VotingRunning"
        /\ UNCHANGED <<timeout, timers, history>>
        /\ UpdateGoalState(g, VoteChanges(g, value), TRUE, TRUE)
    BY <1>13 DEF ChatMessage
  <2>2. value \in Int
    BY <1>1, <2>1, RowTypes DEF GoalsOK, VotesAfter
  <2> HIDE DEF value
  <2>3. IsColumns(VoteChanges(g, value))
    BY <2>2, VoteChangesType
  <2>4. "status" \in DOMAIN VoteChanges(g, value) =>
          VoteChanges(g, value)["status"] # "TimerRunning"
    BY DEF VoteChanges
  <2> QED BY <1>8, <2>1, <2>3, <2>4
<1>14. ASSUME NEW g \in GoalIds, NEW data \in CreateInputs, CreateGoal(g, data)
       PROVE  TimerInv'
  <2> DEFINE options == Assign(GoalDefault, data)
             st      == [status |-> IdleStatusFor(options.timerDuration)]
  <2>1. /\ goals' = [goals EXCEPT ![g] = Assign(options, st)]
        /\ timeout' = [timeout EXCEPT ![g] = None]
        /\ timers' = timers
        /\ history' = [history EXCEPT ![g] =
                         IF goals[g] = NoRow THEN "clean" ELSE "clobbered"]
    BY <1>14 DEF CreateGoal
  <2>2. st.status # "TimerRunning" /\ DOMAIN st = {"status"}
    BY DEF IdleStatusFor
  <2> HIDE DEF options, st
  <2>3. Assign(options, st).status = st.status
        /\ "status" \in DOMAIN Assign(options, st)
    BY <2>2 DEF Assign
  <2>4. goals'[g] = Assign(options, st)
        /\ \A h \in GoalIds \ {g} : /\ goals'[h] = goals[h]
                                    /\ timeout'[h] = timeout[h]
                                    /\ history'[h] = history[h]
    BY <1>1, <2>1 DEF TypeOK, TimersOK, GoalsOK
  <2>5. goals'[g] # NoRow /\ ~HasStatus(g, "TimerRunning")'
    BY <2>2, <2>3, <2>4 DEF HasStatus, NoRow, NoColumns
  <2>6. timeout'[g] = None
        /\ history'[g] = IF goals[g] = NoRow THEN "clean" ELSE "clobbered"
    BY <1>1, <2>1 DEF TypeOK, TimersOK
  <2> QED BY <1>1, <2>1, <2>4, <2>5, <2>6, UntimedTimerInv
<1>15. ASSUME NEW r \in Requests, NEW data \in UpdateInputs, UpdateApplies(r, data)
       PROVE  TimerInv'
  <2> PICK g \in GoalIds : g = reads[r].goal /\ goals[g] # NoRow
    BY <1>1, <1>15 DEF UpdateApplies, TypeOK, ReadsOK
  <2> DEFINE row     == reads[r].row
             changes == UpdateChanges(row, data, goals[g].votesValue)
             before  == Assign(goals[g], changes)
  <2>1. /\ goals' = [goals EXCEPT ![g] = Assign(before, data)]
        /\ UNCHANGED <<timeout, timers>>
    BY <1>15 DEF UpdateApplies
  <2>2. g \in GoalIds /\ goals[g] # NoRow /\ IsRow(goals[g])
    BY <1>1 DEF GoalsOK
  <2>3. /\ IsColumns(data) /\ DOMAIN data \subseteq OptionColumns
        /\ IsColumns(changes) /\ DOMAIN changes \subseteq {"status"}
    BY RequestColumns, UpdateChangesType
  <2>4. "status" \in DOMAIN changes => changes["status"] # "TimerRunning"
    BY DEF UpdateChanges, IdleStatusFor, NoColumns
  <2>5. \/ history' = [history EXCEPT ![g] = "clobbered"]
        \/ /\ history' = [history EXCEPT ![g] = history[g]]
           /\ ~(goals[g].status = "TimerRunning" /\ "status" \in DOMAIN changes)
    BY <1>15 DEF UpdateApplies
  <2> HIDE DEF row, changes
  <2>6. /\ Assign(before, data).endTimerTimestamp = goals[g].endTimerTimestamp
        /\ Assign(before, data).status =
             IF "status" \in DOMAIN changes THEN changes["status"] ELSE goals[g].status
        /\ "status" \in DOMAIN Assign(before, data)
    BY <2>2, <2>3 DEF Assign, IsRow, Columns, StateColumns, OptionColumns
  <2>7. goals'[g] = Assign(before, data)
        /\ \A h \in GoalIds \ {g} : goals'[h] = goals[h] /\ timeout'[h] = timeout[h]
    BY <1>1, <2>1, <2>2 DEF GoalsOK
  <2>8. /\ \A h \in GoalIds \ {g} : history'[h] = history[h]
        /\ \/ history'[g] = "clobbered"
           \/ /\ history'[g] = history[g]
              /\ goals[g].status = "TimerRunning" => "status" \notin DOMAIN changes
    BY <1>1, <2>2, <2>5 DEF TypeOK
  <2> HIDE DEF before
  <2>9. goals'[g] # NoRow
    BY <2>6, <2>7 DEF NoRow, NoColumns
  <2>10. HasStatus(g, "TimerRunning")' =>
           /\ "status" \notin DOMAIN changes
           /\ SameCountdown(g)
           /\ history'[g] = "clean" => history[g] = "clean"
    BY <2>1, <2>2, <2>4, <2>6, <2>7, <2>8 DEF HasStatus, SameCountdown
  <2>11. history'[g] # "clobbered" =>
           /\ history[g] # "clobbered"
           /\ HasStatus(g, "TimerRunning") =>
                HasStatus(g, "TimerRunning")' /\ SameCountdown(g)
    BY <2>1, <2>6, <2>7, <2>8, <2>9 DEF HasStatus, SameCountdown
  <2> QED BY <1>1, <2>1, <2>2, <2>7, <2>8, <2>9, <2>10, <2>11, UntimedTimerInv
<1>16. ASSUME NEW g \in GoalIds,
              \/ \E r \in Requests : UpdateReads(r, g)
              \/ DeleteGoal(g)
              \/ ResetVotes(g)
       PROVE  TimerInv'
  BY <1>1, <1>16, StillTimerInv DEF UpdateReads, DeleteGoal, ResetVotes, memory
<1> QED BY <1>2, <1>4, <1>5, <1>6, <1>7, <1>10, <1>11, <1>12, <1>13, <1>14, <1>15, <1>16
        DEF Next

LEMMA TimerInvHolds == Spec => []TimerInv
  BY TimerInvInit, TimerInvNext, PTL DEF Spec

\* A running countdown has its timeout armed and due at the stored end timestamp,
\* unless it was restored (then it has none), in every sequence of starts, pauses,
\* resets, updates, expiries and restarts.
THEOREM CountdownsArmed == Spec => []RunningTimerArmed
  BY TimerInvHolds, PTL DEF TimerInv

\* No timeout outlives its countdown, unless the goal was created twice or updated
\* from a row that no longer described it.
THEOREM TimeoutsHeld == Spec => []NoStrayTimer
  BY TimerInvHolds, PTL DEF TimerInv

----------------------------------------------------------------------------
(* What a step does to the status of a goal                                 *)

\* Every change of the status of a goal that stays in the map: a callback, a new
\* beginning (create, reset), an update, a start, a pause, or the last vote.
StatusStep(g) ==
  \/ \E t \in TimerIds : TimerFires(t) /\ timers[t].goal = g
  \/ goals'[g].status \in IdleStatus /\ goals'[g].votesValue = 0
  \/ \E r \in Requests, data \in UpdateInputs :
       UpdateApplies(r, data) /\ reads[r].goal = g
  \/ goals[g].status \in IdleStatus \cup {"TimerPaused", "VotingPaused"}
  \/ goals[g].status = "TimerRunning" /\ goals'[g].status = "TimerPaused"
  \/ goals[g].status = "VotingRunning"

LEMMA StatusSteps ==
  ASSUME TypeInv, [Next]_vars, NEW g \in GoalIds,
         goals[g] # NoRow, goals'[g] # NoRow, goals'[g].status # goals[g].status
  PROVE  StatusStep(g)
<1>1. GoalsOK /\ QueriesOK /\ ReadsOK /\ TimersOK /\ now \in Nat /\ ArmedHasGoal
  BY DEF TypeInv, TypeOK
<1>2. CASE ModuleInit \/ Exit \/ Crash
  BY <1>2 DEF ModuleInit, Exit, Crash, ProcessEnds, TypeInv, DownIsEmpty
<1>3. CASE ModuleDestroy \/ Tick \/ UNCHANGED vars
  BY <1>3 DEF ModuleDestroy, Tick, vars, memory
<1>4. ASSUME NEW c \in Connections, Commits(c) \/ Fails(c) PROVE StatusStep(g)
  BY <1>4 DEF Commits, Fails, ProcessEnds, memory
<1>5. ASSUME NEW t \in TimerIds, TimerFires(t) PROVE StatusStep(g)
  <2>1. PICK h \in GoalIds : h = timers[t].goal /\ goals[h] # NoRow
    BY <1>1, <1>5 DEF TimerFires, TimersOK, ArmedHasGoal
  <2>2. goals' = [goals EXCEPT ![h] = Assign(goals[h], [status |-> "VotingRunning"])]
    BY <1>5, <2>1 DEF TimerFires, UpdateGoalState
  <2>3. g = h
    BY <1>1, <2>2 DEF GoalsOK
  <2> QED BY <1>5, <2>1, <2>3 DEF StatusStep
<1>6. ASSUME NEW h \in GoalIds, NEW data \in CreateInputs, CreateGoal(h, data)
      PROVE  StatusStep(g)
  <2> DEFINE options == Assign(GoalDefault, data)
             st      == [status |-> IdleStatusFor(options.timerDuration)]
  <2>1. goals' = [goals EXCEPT ![h] = Assign(options, st)]
    BY <1>6 DEF CreateGoal
  <2>2. options.votesValue = 0 /\ "votesValue" \in DOMAIN options
    BY RequestColumns DEF GoalDefault, Assign, OptionColumns
  <2>3. DOMAIN st = {"status"} /\ st.status \in IdleStatus
    BY DEF IdleStatusFor, IdleStatus
  <2> HIDE DEF options, st
  <2>4. Assign(options, st).votesValue = 0 /\ Assign(options, st).status \in IdleStatus
    BY <2>2, <2>3 DEF Assign
  <2> QED BY <1>1, <2>1, <2>4 DEF StatusStep, GoalsOK
<1>7. ASSUME NEW r \in Requests, NEW data \in UpdateInputs, UpdateApplies(r, data)
      PROVE  StatusStep(g)
  <2>1. g = reads[r].goal
    BY <1>1, <1>7 DEF UpdateApplies, GoalsOK
  <2> QED BY <1>7, <2>1 DEF StatusStep
<1>8. ASSUME NEW h \in GoalIds, StartGoal(h) PROVE StatusStep(g)
  <2>1. /\ goals[h].status \in IdleStatus \cup {"TimerPaused", "VotingPaused"}
        /\ goals[h] # NoRow
    BY <1>8 DEF StartGoal, StartTimer, StartVoting, IdleStatus
  <2>2. PICK changes : goals' = [goals EXCEPT ![h] = Assign(goals[h], changes)]
    BY <1>8 DEF StartGoal, StartTimer, StartVoting, UpdateGoalState
  <2> QED BY <1>1, <2>1, <2>2 DEF StatusStep, GoalsOK
<1>9. ASSUME NEW h \in GoalIds, PauseGoal(h) PROVE StatusStep(g)
  <2>1. goals[h] # NoRow
    BY <1>9 DEF PauseGoal
  <2>2. CASE PauseTimer(h)
    <3> DEFINE left == goals[h].endTimerTimestamp - now
               changes == [status |-> "TimerPaused", remainingTimerDuration |-> left]
    <3>1. goals' = [goals EXCEPT ![h] = Assign(goals[h], changes)]
          /\ goals[h].status = "TimerRunning"
      BY <2>2 DEF PauseTimer, UpdateGoalState
    <3>2. Assign(goals[h], changes).status = "TimerPaused"
      BY DEF Assign
    <3> HIDE DEF changes
    <3> QED BY <1>1, <3>1, <3>2 DEF StatusStep, GoalsOK
  <2>3. CASE PauseVoting(h)
    <3>1. PICK changes : goals' = [goals EXCEPT ![h] = Assign(goals[h], changes)]
      BY <2>3 DEF PauseVoting, UpdateGoalState
    <3> QED BY <1>1, <2>3, <3>1 DEF StatusStep, GoalsOK, PauseVoting
  <2> QED BY <1>9, <2>2, <2>3 DEF PauseGoal
<1>10. ASSUME NEW h \in GoalIds, ResetGoal(h) PROVE StatusStep(g)
  <2> DEFINE changes == [status |-> IdleStatusFor(goals[h].timerDuration),
                         endTimerTimestamp |-> 0, remainingTimerDuration |-> 0,
                         votesValue |-> 0]
  <2>1. goals' = [goals EXCEPT ![h] = Assign(goals[h], changes)]
    BY <1>10 DEF ResetGoal, UpdateGoalState
  <2>2. Assign(goals[h], changes).status \in IdleStatus
        /\ Assign(goals[h], changes).votesValue = 0
    BY DEF Assign, IdleStatusFor, IdleStatus
  <2> HIDE DEF changes
  <2> QED BY <1>1, <2>1, <2>2 DEF StatusStep, GoalsOK
<1>11. ASSUME NEW h \in GoalIds, NEW u \in Users, NEW type \in EventType,
              ChatMessage(h, u, type)
       PROVE  StatusStep(g)
  <2>1. PICK changes : goals' = [goals EXCEPT ![h] = Assign(goals[h], changes)]
    BY <1>11 DEF ChatMessage, UpdateGoalState
  <2>2. goals[h].status = "VotingRunning"
    BY <1>11 DEF ChatMessage
  <2> QED BY <1>1, <2>1, <2>2 DEF StatusStep, GoalsOK
<1>12. ASSUME NEW h \in GoalIds,
              \/ \E r \in Requests : UpdateReads(r, h)
              \/ DeleteGoal(h)
              \/ ResetVotes(h)
       PROVE  StatusStep(g)
  BY <1>12 DEF UpdateReads, DeleteGoal, ResetVotes, memory
<1> QED BY <1>2, <1>3, <1>4, <1>5, <1>6, <1>7, <1>8, <1>9, <1>10, <1>11, <1>12 DEF Next

\* The status an update leaves: the one its changes bring, if they bring one.
LEMMA UpdateStatus ==
  ASSUME TypeInv, NEW r \in Requests, NEW data \in UpdateInputs, UpdateApplies(r, data),
         NEW g \in GoalIds, g = reads[r].goal,
         goals'[g].status # goals[g].status
  PROVE  /\ goals'[g].status \in IdleStatus \cup {"VotingFinished"}
         /\ history'[g] # "clobbered" =>
              goals[g].status \in IdleStatus \/ goals'[g].status = "VotingFinished"
<1> DEFINE row     == reads[r].row
           changes == UpdateChanges(row, data, goals[g].votesValue)
           before  == Assign(goals[g], changes)
<1>1. goals' = [goals EXCEPT ![g] = Assign(before, data)]
  BY DEF UpdateApplies
<1>2. IsRow(goals[g]) /\ GoalsOK /\ history \in [GoalIds -> Lineage]
  BY DEF UpdateApplies, TypeInv, TypeOK, GoalsOK
<1>3. DOMAIN data \subseteq OptionColumns /\ DOMAIN changes \subseteq {"status"}
  BY RequestColumns, UpdateChangesType
<1>4. "status" \in DOMAIN changes =>
        \/ changes["status"] = "VotingFinished"
        \/ changes["status"] \in IdleStatus /\ row.status \in IdleStatus
  BY DEF UpdateChanges, IdleStatusFor, NoColumns, IdleStatus
<1>5. history'[g] # "clobbered" => row.status = goals[g].status
  BY <1>2 DEF UpdateApplies, Columns, StateColumns
<1> HIDE DEF changes, row
<1>6. Assign(before, data).status =
        IF "status" \in DOMAIN changes THEN changes["status"] ELSE goals[g].status
  BY <1>2, <1>3 DEF Assign, IsRow, Columns, StateColumns, OptionColumns
<1> HIDE DEF before
<1>7. goals'[g].status =
        IF "status" \in DOMAIN changes THEN changes["status"] ELSE goals[g].status
  BY <1>1, <1>2, <1>6 DEF GoalsOK
<1> QED BY <1>4, <1>5, <1>7

\* A process that is down makes no goal but by starting.
LEMMA DownMakesNothing ==
  ASSUME TypeInv, [Next]_vars, ~Running, NEW g \in GoalIds, goals'[g] # NoRow
  PROVE  ModuleInit
<1>1. /\ \A h \in GoalIds : goals[h] = NoRow
      /\ \A t \in TimerIds : timers[t] = None
  BY DEF TypeInv, DownIsEmpty, Running
<1>2. goals' # goals
  BY <1>1
<1>3. ~(Exit \/ Crash \/ ModuleDestroy \/ Tick \/ UNCHANGED vars)
  BY <1>2 DEF Exit, Crash, ModuleDestroy, Tick, vars, memory, Running
<1>4. ASSUME NEW c \in Connections PROVE ~(Commits(c) \/ Fails(c))
  BY <1>2 DEF Commits, Fails, memory, Running
<1>5. ASSUME NEW t \in TimerIds PROVE ~TimerFires(t)
  BY <1>1 DEF TimerFires
<1>6. ASSUME NEW h \in GoalIds
      PROVE  ~ \/ \E data \in CreateInputs : CreateGoal(h, data)
               \/ \E r \in Requests : UpdateReads(r, h)
               \/ DeleteGoal(h) \/ StartGoal(h) \/ PauseGoal(h) \/ ResetGoal(h)
               \/ ResetVotes(h)
               \/ \E u \in Users, type \in EventType : ChatMessage(h, u, type)
  BY <1>1 DEF CreateGoal, UpdateReads, DeleteGoal, StartGoal, PauseGoal, ResetGoal,
              ResetVotes, ChatMessage
<1>7. ASSUME NEW r \in Requests, NEW data \in UpdateInputs PROVE ~UpdateApplies(r, data)
  BY DEF UpdateApplies
<1> QED BY <1>3, <1>4, <1>5, <1>6, <1>7 DEF Next

\* The vote of a goal that counts down does not open before the end timestamp its
\* viewers are shown, in whatever order it is paused, resumed, reset and updated,
\* and in whatever way the process ends and starts again on the way.
THEOREM VotesOpenOnTime == Spec => VoteNotEarly
<1>1. TimerInv /\ [Next]_vars =>
        [\A g \in GoalIds :
           /\ Shown(g) # NoRow
           /\ Shown(g).status = "TimerRunning"
           /\ Running => history[g] # "clobbered"
           /\ goals'[g] # NoRow
           /\ goals'[g].status = "VotingRunning"
           => now >= Shown(g).endTimerTimestamp]_vars
  <2> SUFFICES ASSUME TimerInv, [Next]_vars, NEW g \in GoalIds,
                      Shown(g) # NoRow, Shown(g).status = "TimerRunning",
                      Running => history[g] # "clobbered",
                      goals'[g] # NoRow, goals'[g].status = "VotingRunning"
               PROVE  now >= Shown(g).endTimerTimestamp
    OBVIOUS
  <2>1. TypeInv
    BY DEF TimerInv
  <2>2. CASE Running
    <3>1. /\ Shown(g) = goals[g] /\ history[g] # "clobbered"
          /\ goals[g] # NoRow /\ goals[g].status = "TimerRunning"
      BY <2>2 DEF Shown
    <3>2. StatusStep(g)
      BY <2>1, <3>1, StatusSteps
    <3>3. CASE \E t \in TimerIds : TimerFires(t) /\ timers[t].goal = g
      BY <3>1, <3>3 DEF TimerFires, TimerInv, NoStrayTimer
    <3>4. CASE \E r \in Requests, data \in UpdateInputs :
                 UpdateApplies(r, data) /\ reads[r].goal = g
      BY <2>1, <3>1, <3>4, UpdateStatus DEF IdleStatus
    <3> QED BY <3>1, <3>2, <3>3, <3>4 DEF StatusStep, IdleStatus
  <2>3. CASE ~Running
    <3>1. ModuleInit
      BY <2>1, <2>3, DownMakesNothing
    <3>2. Shown(g) = rows[g] /\ rows[g] # NoRow /\ rows[g].status = "TimerRunning"
      BY <2>3 DEF Shown
    <3>3. goals'[g] = Assign(rows[g], [status |-> RestoredStatus(rows[g])])
      BY <3>1, <3>2 DEF ModuleInit, Restored
    <3>4. goals'[g].status = RestoredStatus(rows[g])
      BY <3>3 DEF Assign
    <3> QED BY <3>2, <3>4 DEF RestoredStatus
  <2> QED BY <2>2, <2>3
<1>2. Spec => [][\A g \in GoalIds :
                   /\ Shown(g) # NoRow
                   /\ Shown(g).status = "TimerRunning"
                   /\ Running => history[g] # "clobbered"
                   /\ goals'[g] # NoRow
                   /\ goals'[g].status = "VotingRunning"
                   => now >= Shown(g).endTimerTimestamp]_vars
  BY <1>1, TimerInvHolds, PTL DEF Spec
<1> QED BY <1>2 DEF VoteNotEarly

\* A finished goal leaves that status only with its votes set back to zero, unless
\* it was created twice or updated from a stale row: no late timeout, start or
\* update reopens the vote.
THEOREM FinishedStaysFinished == Spec => FinishedReopensEmpty
<1>1. TimerInv /\ [Next]_vars =>
        [\A g \in GoalIds :
           /\ HasStatus(g, "VotingFinished")
           /\ goals'[g] # NoRow
           /\ goals'[g].status # "VotingFinished"
           /\ history'[g] # "clobbered"
           => goals'[g].votesValue = 0]_vars
  <2> SUFFICES ASSUME TimerInv, [Next]_vars, NEW g \in GoalIds,
                      HasStatus(g, "VotingFinished"), goals'[g] # NoRow,
                      goals'[g].status # "VotingFinished",
                      history'[g] # "clobbered"
               PROVE  goals'[g].votesValue = 0
    OBVIOUS
  <2>1. TypeInv /\ goals[g] # NoRow /\ goals[g].status = "VotingFinished"
    BY DEF TimerInv, HasStatus
  <2>2. StatusStep(g)
    BY <2>1, StatusSteps
  <2>3. CASE \E t \in TimerIds : TimerFires(t) /\ timers[t].goal = g
    BY <2>1, <2>3 DEF TimerFires, TimerInv, NoStrayTimer
  <2>4. CASE \E r \in Requests, data \in UpdateInputs :
               UpdateApplies(r, data) /\ reads[r].goal = g
    BY <2>1, <2>4, UpdateStatus DEF IdleStatus
  <2> QED BY <2>1, <2>2, <2>3, <2>4 DEF StatusStep, IdleStatus
<1>2. Spec => [][\A g \in GoalIds :
                   /\ HasStatus(g, "VotingFinished")
                   /\ goals'[g] # NoRow
                   /\ goals'[g].status # "VotingFinished"
                   /\ history'[g] # "clobbered"
                   => goals'[g].votesValue = 0]_vars
  BY <1>1, TimerInvHolds, PTL DEF Spec
<1> QED BY <1>2 DEF FinishedReopensEmpty
=============================================================================
