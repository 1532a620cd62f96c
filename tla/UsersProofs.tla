----------------------------- MODULE UsersProofs -----------------------------
(* Theorems about the users: tokens are refreshed once for all who need     *)
(* them, the server does not revoke what it keeps, and roles come from      *)
(* Twitch.                                                                  *)
EXTENDS UsersService, TLAPS

Promises == Calls \X Side

----------------------------------------------------------------------------
(* Types                                                                    *)

CallsOK == calls \in [Calls -> Call \cup {None}]

MemoryOK ==
  /\ cache \in [CacheKeys -> CacheEntry \cup {None}]
  /\ lookups \in [Slots -> Lookup \cup {None}]
  /\ refreshes \in [Promises -> Refresh \cup {None}]
  /\ refreshingTokens \in [UserIds -> Promises \cup {None, Rejected}]
  /\ logins \in [Logins -> Login \cup {None}]

OutsideOK ==
  /\ users \in [UserIds -> User]
  /\ issued \in [UserIds -> 1 .. MaxPairs]
  /\ live \in [UserIds -> SUBSET Pair]
  /\ ago \in [Facts -> (0 .. LongAgo) \cup {None}]
  /\ revoked \subseteq UserIds \X Pair
  /\ halfStored \subseteq UserIds
  /\ refused \subseteq UserIds

LEMMA TypeParts == TypeOK <=> CallsOK /\ MemoryOK /\ OutsideOK
BY DEF TypeOK, CallsOK, MemoryOK, OutsideOK, Promises

LEMMA PairFacts ==
  /\ EMPTY_TOKEN \in Pair
  /\ \A n \in 1 .. MaxPairs : n \in Pair /\ n # EMPTY_TOKEN
  /\ \A n \in 1 .. MaxPairs : n < MaxPairs => n + 1 \in 1 .. MaxPairs
  /\ MaxPairs \in Nat \ {0} /\ CACHE_TTL \in Nat \ {0} /\ MaxDelay \in Nat
  /\ LongAgo = CACHE_TTL + 2 * MaxDelay /\ LongAgo \in Nat \ {0}
BY UsersAssumption DEF Pair, EMPTY_TOKEN, LongAgo

LEMMA PromiseParts ==
  ASSUME NEW p \in Promises
  PROVE  p[1] \in Calls /\ p[2] \in Side /\ p = <<p[1], p[2]>>
BY DEF Promises

LEMMA DoneIsBranch == Done \in Branch /\ Done.stage = "done"
BY PairFacts DEF Done, Branch

LEMMA StartsIsBranch ==
  ASSUME NEW user \in User, NEW claims
  PROVE  Starts(user, claims) \in Branch /\ Starts(user, claims).stage # "wait"
<1>1. user.pair \in Pair
  BY DEF User
<1> QED BY <1>1, DoneIsBranch DEF Starts, Branch

LEMMA ResumesIsBranch ==
  ASSUME NEW branch \in Branch, NEW token \in Pair
  PROVE  Resumes(branch, token) \in Branch /\ Resumes(branch, token).stage # "wait"
BY DoneIsBranch DEF Resumes, Branch

\* A call as it is, with other branches and more roles.
SameCall(c) ==
  /\ calls'[c] # None
  /\ calls'[c].channel = calls[c].channel /\ calls'[c].user = calls[c].user
  /\ calls'[c].claims = calls[c].claims

LEMMA SubjectType ==
  ASSUME CallsOK, NEW p \in Promises, calls[p[1]] # None
  PROVE  Subject(p) \in UserIds
<1>1. calls[p[1]] \in Call
  BY PromiseParts DEF CallsOK
<1>2. CASE p[2] = "channel"
  BY <1>1, <1>2 DEF Subject, Call
<1>3. CASE p[2] = "user"
  BY <1>1, <1>3 DEF Subject, Call
<1> QED BY <1>2, <1>3, PromiseParts DEF Side

LEMMA SubjectSame ==
  ASSUME CallsOK, CallsOK', NEW p \in Promises, calls[p[1]] # None, SameCall(p[1])
  PROVE  Subject(p)' = Subject(p)
<1>1. calls[p[1]] \in Call /\ calls'[p[1]] \in Call
  BY PromiseParts DEF CallsOK, SameCall
<1>2. CASE p[2] = "channel"
  BY <1>1, <1>2 DEF Subject, Call, SameCall
<1>3. CASE p[2] = "user"
  BY <1>1, <1>3 DEF Subject, Call, SameCall
<1> QED BY <1>2, <1>3, PromiseParts DEF Side

\* One branch changes, and the call may gain roles.
LEMMA BranchChanges ==
  ASSUME CallsOK, NEW p \in Promises, calls[p[1]] # None, NEW b \in Branch,
         NEW gains \in SUBSET Role,
         \/ calls' = [calls EXCEPT ![p[1]].at[p[2]] = b]
         \/ calls' = [calls EXCEPT ![p[1]].roles = @ \cup gains, ![p[1]].at[p[2]] = b]
  PROVE  /\ CallsOK'
         /\ SameCall(p[1]) /\ BranchOf(p)' = b
         /\ \A side \in Side : side # p[2] => calls'[p[1]].at[side] = calls[p[1]].at[side]
         /\ \A c \in Calls : c # p[1] => calls'[c] = calls[c]
<1>1. p[1] \in Calls /\ p[2] \in Side
  BY PromiseParts
<1>2. calls[p[1]] \in Call
  BY <1>1 DEF CallsOK
<1> DEFINE at == [calls[p[1]].at EXCEPT ![p[2]] = b]
           same == [calls[p[1]] EXCEPT !.at = at]
           more == [calls[p[1]] EXCEPT !.roles = @ \cup gains, !.at = at]
<1>3. at \in [Side -> Branch] /\ at[p[2]] = b
      /\ \A side \in Side : side # p[2] => at[side] = calls[p[1]].at[side]
  BY <1>1, <1>2 DEF Call
<1>4. calls' = [calls EXCEPT ![p[1]] = same] \/ calls' = [calls EXCEPT ![p[1]] = more]
  BY <1>1, <1>2 DEF CallsOK, Call
<1> HIDE DEF at
<1>5. /\ same \in Call /\ more \in Call /\ same.at = at /\ more.at = at
      /\ same.channel = calls[p[1]].channel /\ more.channel = calls[p[1]].channel
      /\ same.user = calls[p[1]].user /\ more.user = calls[p[1]].user
      /\ same.claims = calls[p[1]].claims /\ more.claims = calls[p[1]].claims
  BY <1>2, <1>3 DEF Call
<1> HIDE DEF same, more
<1>6. same # None /\ more # None
  BY <1>5, UsersAssumption
<1>7. calls'[p[1]] \in {same, more}
  BY <1>1, <1>4 DEF CallsOK
<1>8. CallsOK'
  BY <1>4, <1>5 DEF CallsOK
<1>9. \A c \in Calls : c # p[1] => calls'[c] = calls[c]
  BY <1>4 DEF CallsOK
<1> QED BY <1>3, <1>5, <1>6, <1>7, <1>8, <1>9 DEF SameCall, BranchOf

\* A promise is settled, and all calls stay what they are.
LEMMA PromiseSettled ==
  ASSUME CallsOK, NEW p \in Promises, NEW token \in Pair, Resolves(p, token)
  PROVE  /\ CallsOK'
         /\ \A c \in Calls : IF calls[c] = None THEN calls'[c] = None ELSE SameCall(c)
         /\ \A q \in Promises :
              calls[q[1]] # None =>
                IF Waiting(q[1], q[2], p) THEN BranchOf(q)'.stage # "wait"
                ELSE BranchOf(q)' = BranchOf(q)
<1> DEFINE new(c) ==
      [calls[c] EXCEPT !.at = [side \in Side |->
         IF Waiting(c, side, p) THEN Resumes(calls[c].at[side], token) ELSE calls[c].at[side]]]
<1>1. \A c \in Calls : calls'[c] = IF calls[c] = None THEN None ELSE new(c)
  BY DEF Resolves
<1>2. ASSUME NEW c \in Calls, calls[c] # None
      PROVE  /\ new(c) \in Call
             /\ new(c).channel = calls[c].channel /\ new(c).user = calls[c].user
             /\ new(c).claims = calls[c].claims
             /\ \A side \in Side :
                  IF Waiting(c, side, p) THEN new(c).at[side].stage # "wait"
                  ELSE new(c).at[side] = calls[c].at[side]
  <2> DEFINE at == [side \in Side |->
         IF Waiting(c, side, p) THEN Resumes(calls[c].at[side], token) ELSE calls[c].at[side]]
  <2>1. calls[c] \in Call
    BY <1>2 DEF CallsOK
  <2>2. at \in [Side -> Branch]
    BY <2>1, ResumesIsBranch DEF Call
  <2>3. \A side \in Side : IF Waiting(c, side, p) THEN at[side].stage # "wait"
                           ELSE at[side] = calls[c].at[side]
    BY <2>1, ResumesIsBranch DEF Call
  <2>4. new(c) = [calls[c] EXCEPT !.at = at]
    OBVIOUS
  <2> HIDE DEF at
  <2> QED BY <2>1, <2>2, <2>3, <2>4 DEF Call
<1> HIDE DEF new
<1>3. calls' = [c \in Calls |-> IF calls[c] = None THEN None ELSE new(c)]
  BY DEF Resolves, new
<1>4. CallsOK'
  BY <1>2, <1>3 DEF CallsOK
<1>5. \A c \in Calls : calls[c] # None => new(c) # None
  BY <1>2, UsersAssumption
<1> QED BY <1>1, <1>2, <1>4, <1>5, PromiseParts DEF SameCall, BranchOf

\* The calls there are, and whose tokens their branches use.
CallsStay ==
  /\ \A q \in Promises :
       /\ calls'[q[1]] # None <=> calls[q[1]] # None
       /\ calls[q[1]] # None => Subject(q)' = Subject(q)
  /\ \A c \in Calls : calls'[c] # None =>
       /\ calls[c] # None
       /\ calls'[c].channel = calls[c].channel /\ calls'[c].user = calls[c].user

\* What is called is one of CallsOf.
CallsKnown ==
  \A c \in Calls : calls[c] # None =>
    \E call \in CallsOf :
      /\ calls[c].channel = call.channel /\ calls[c].user = call.user
      /\ calls[c].claims = call.claims

LEMMA SameCallsStay ==
  ASSUME CallsOK, CallsOK', CallsKnown,
         \A c \in Calls : calls'[c] = calls[c] \/ (calls[c] # None /\ SameCall(c))
  PROVE  CallsStay /\ CallsKnown'
<1>1. ASSUME NEW q \in Promises
      PROVE  /\ calls'[q[1]] # None <=> calls[q[1]] # None
             /\ calls[q[1]] # None => Subject(q)' = Subject(q)
  <2>1. q[1] \in Calls
    BY PromiseParts
  <2>2. CASE calls'[q[1]] = calls[q[1]]
    BY <2>2 DEF Subject
  <2>3. CASE calls[q[1]] # None /\ SameCall(q[1])
    BY <2>3, SubjectSame DEF SameCall
  <2> QED BY <2>1, <2>2, <2>3
<1>2. CallsKnown'
  BY DEF CallsKnown, SameCall
<1>3. \A c \in Calls : calls'[c] # None =>
        /\ calls[c] # None
        /\ calls'[c].channel = calls[c].channel /\ calls'[c].user = calls[c].user
  BY DEF SameCall
<1> QED BY <1>1, <1>2, <1>3 DEF CallsStay

\* The same, seen from the branches.
LEMMA OneBranchChanges ==
  ASSUME CallsOK, CallsKnown, NEW p \in Promises, calls[p[1]] # None, NEW b \in Branch,
         NEW gains \in SUBSET Role,
         \/ calls' = [calls EXCEPT ![p[1]].at[p[2]] = b]
         \/ calls' = [calls EXCEPT ![p[1]].roles = @ \cup gains, ![p[1]].at[p[2]] = b]
  PROVE  /\ CallsOK' /\ CallsStay /\ CallsKnown' /\ BranchOf(p)' = b
         /\ \A q \in Promises \ {p} : BranchOf(q)' = BranchOf(q)
<1>1. /\ CallsOK' /\ SameCall(p[1]) /\ BranchOf(p)' = b
      /\ \A side \in Side : side # p[2] => calls'[p[1]].at[side] = calls[p[1]].at[side]
      /\ \A c \in Calls : c # p[1] => calls'[c] = calls[c]
  BY BranchChanges
<1>2. CallsStay /\ CallsKnown'
  BY <1>1, SameCallsStay
<1>3. ASSUME NEW q \in Promises, q # p PROVE BranchOf(q)' = BranchOf(q)
  <2>1. q[1] \in Calls /\ q[2] \in Side /\ (q[1] # p[1] \/ q[2] # p[2])
    BY <1>3 DEF Promises
  <2> QED BY <1>1, <2>1 DEF BranchOf
<1> QED BY <1>1, <1>2, <1>3

----------------------------------------------------------------------------
(* Promises                                                                 *)

\* A branch that refreshes waits for itself, and is the one in the map.
Running ==
  \A p \in Promises : refreshes[p] # None =>
    /\ calls[p[1]] # None /\ BranchOf(p).stage = "wait" /\ BranchOf(p).promise = p
    /\ refreshingTokens[Subject(p)] = p

\* The map holds refreshes that are running.
Held ==
  \A u \in UserIds, p \in Promises : refreshingTokens[u] = p =>
    refreshes[p] # None /\ Subject(p) = u

\* Whoever waits, waits for what is in the map.
Served ==
  \A p \in Promises : calls[p[1]] # None /\ BranchOf(p).stage = "wait" =>
    /\ BranchOf(p).promise \in Promises
    /\ refreshingTokens[Subject(p)] = BranchOf(p).promise

Kept == Running /\ Held /\ Served

\* A branch that does not wait goes on, or joins a refresh.
LEMMA BranchGoesOn ==
  ASSUME CallsOK, Kept, NEW p \in Promises, calls[p[1]] # None, BranchOf(p).stage # "wait", NEW b, CallsStay, BranchOf(p)' = b,
         \A q \in Promises \ {p} : BranchOf(q)' = BranchOf(q),
         \/ b.stage # "wait"
         \/ b.promise \in Promises /\ refreshingTokens[Subject(p)] = b.promise,
         UNCHANGED <<refreshes, refreshingTokens>>
  PROVE  Kept'
<1>1. refreshes[p] = None
  BY DEF Kept, Running
<1>2. ASSUME NEW q \in Promises, refreshes'[q] # None
      PROVE  /\ calls'[q[1]] # None /\ BranchOf(q)'.stage = "wait" /\ BranchOf(q)'.promise = q
             /\ refreshingTokens'[Subject(q)'] = q
  BY <1>1, <1>2 DEF Kept, Running, CallsStay
<1>3. ASSUME NEW u \in UserIds, NEW q \in Promises, refreshingTokens'[u] = q
      PROVE  refreshes'[q] # None /\ Subject(q)' = u
  BY <1>3 DEF Kept, Held, Running, CallsStay
<1>4. ASSUME NEW q \in Promises, calls'[q[1]] # None, BranchOf(q)'.stage = "wait"
      PROVE  /\ BranchOf(q)'.promise \in Promises
             /\ refreshingTokens'[Subject(q)'] = BranchOf(q)'.promise
  BY <1>4 DEF Kept, Served, CallsStay
<1>5. Running'
  BY <1>2 DEF Running
<1>6. Held'
  BY <1>3 DEF Held
<1>7. Served'
  BY <1>4 DEF Served
<1> QED BY <1>5, <1>6, <1>7 DEF Kept

\* A branch starts a refresh, with nobody at it.
LEMMA BranchRefreshes ==
  ASSUME CallsOK, MemoryOK, Kept, NEW p \in Promises, calls[p[1]] # None, NEW b, CallsStay,
         BranchOf(p)' = b, \A q \in Promises \ {p} : BranchOf(q)' = BranchOf(q),
         b.stage = "wait", b.promise = p,
         refreshingTokens[Subject(p)] = None,
         refreshingTokens' = [refreshingTokens EXCEPT ![Subject(p)] = p],
         NEW refresh \in Refresh, refreshes' = [refreshes EXCEPT ![p] = refresh]
  PROVE  Kept'
<1>1. calls[p[1]] # None /\ Subject(p) \in UserIds /\ Subject(p)' = Subject(p)
  BY SubjectType DEF CallsStay
<1>2. refresh # None /\ None \notin Promises
  BY UsersAssumption DEF Promises
<1>3. ASSUME NEW q \in Promises, refreshes'[q] # None
      PROVE  /\ calls'[q[1]] # None /\ BranchOf(q)'.stage = "wait" /\ BranchOf(q)'.promise = q
             /\ refreshingTokens'[Subject(q)'] = q
  <2>1. CASE q = p
    BY <1>1, <2>1 DEF CallsStay, MemoryOK
  <2>2. CASE q # p
    <3>1. refreshes[q] # None
      BY <1>3, <2>2 DEF MemoryOK
    <3>2. refreshingTokens[Subject(q)] = q /\ Subject(q)' = Subject(q) /\ calls[q[1]] # None
      BY <3>1 DEF Kept, Running, CallsStay
    <3>3. Subject(q) \in UserIds /\ Subject(q) # Subject(p)
      BY <1>2, <3>2, SubjectType
    <3> QED BY <2>2, <3>1, <3>2, <3>3 DEF Kept, Running, CallsStay, MemoryOK
  <2> QED BY <2>1, <2>2
<1>4. ASSUME NEW u \in UserIds, NEW q \in Promises, refreshingTokens'[u] = q
      PROVE  refreshes'[q] # None /\ Subject(q)' = u
  <2>1. CASE u = Subject(p)
    BY <1>1, <1>2, <1>4, <2>1 DEF MemoryOK
  <2>2. CASE u # Subject(p)
    <3>1. refreshingTokens[u] = q
      BY <1>4, <2>2 DEF MemoryOK
    <3>2. refreshes[q] # None /\ Subject(q) = u /\ q # p
      BY <2>2, <3>1 DEF Kept, Held
    <3>3. Subject(q)' = u
      BY <3>2 DEF Kept, Running, CallsStay
    <3> QED BY <3>2, <3>3 DEF MemoryOK
  <2> QED BY <2>1, <2>2
<1>5. ASSUME NEW q \in Promises, calls'[q[1]] # None, BranchOf(q)'.stage = "wait"
      PROVE  /\ BranchOf(q)'.promise \in Promises
             /\ refreshingTokens'[Subject(q)'] = BranchOf(q)'.promise
  <2>1. CASE q = p
    BY <1>1, <2>1 DEF MemoryOK
  <2>2. CASE q # p
    <3>1. /\ calls[q[1]] # None /\ Subject(q)' = Subject(q) /\ BranchOf(q)' = BranchOf(q)
      BY <1>5, <2>2 DEF CallsStay
    <3>2. BranchOf(q).promise \in Promises /\ refreshingTokens[Subject(q)] = BranchOf(q).promise
      BY <1>5, <3>1 DEF Kept, Served
    <3>3. Subject(q) \in UserIds /\ Subject(q) # Subject(p)
      BY <1>2, <3>1, <3>2, SubjectType
    <3> QED BY <3>1, <3>2, <3>3 DEF MemoryOK
  <2> QED BY <2>1, <2>2
<1>6. Running'
  BY <1>3 DEF Running
<1>7. Held'
  BY <1>4 DEF Held
<1>8. Served'
  BY <1>5 DEF Served
<1> QED BY <1>6, <1>7, <1>8 DEF Kept

\* A promise is settled: those who wait for it are the branches that need the tokens of
\* its user.
LEMMA RefreshEnds ==
  ASSUME CallsOK, MemoryOK, Kept, NEW p \in Promises, refreshes[p] # None, CallsStay,
         \A q \in Promises : calls[q[1]] # None =>
           IF Waiting(q[1], q[2], p) THEN BranchOf(q)'.stage # "wait"
           ELSE BranchOf(q)' = BranchOf(q),
         NEW outcome \in {None, Rejected},
         refreshes' = [refreshes EXCEPT ![p] = None],
         refreshingTokens' = [refreshingTokens EXCEPT ![Subject(p)] = outcome]
  PROVE  Kept'
<1>1. calls[p[1]] # None /\ Subject(p) \in UserIds /\ refreshingTokens[Subject(p)] = p
  BY SubjectType DEF Kept, Running
<1>2. outcome \notin Promises
  BY UsersAssumption DEF Promises
<1>3. ASSUME NEW q \in Promises, refreshes'[q] # None
      PROVE  /\ calls'[q[1]] # None /\ BranchOf(q)'.stage = "wait" /\ BranchOf(q)'.promise = q
             /\ refreshingTokens'[Subject(q)'] = q
  <2>1. refreshes[q] # None /\ q # p
    BY <1>3 DEF MemoryOK
  <2>2. /\ calls[q[1]] # None /\ BranchOf(q).stage = "wait" /\ BranchOf(q).promise = q
        /\ refreshingTokens[Subject(q)] = q /\ Subject(q)' = Subject(q)
    BY <2>1 DEF Kept, Running, CallsStay
  <2>3. BranchOf(q)' = BranchOf(q)
    BY <2>1, <2>2 DEF Waiting, BranchOf
  <2>4. Subject(q) \in UserIds /\ Subject(q) # Subject(p)
    BY <1>1, <2>1, <2>2, SubjectType
  <2> QED BY <2>2, <2>3, <2>4 DEF CallsStay, MemoryOK
<1>4. ASSUME NEW u \in UserIds, NEW q \in Promises, refreshingTokens'[u] = q
      PROVE  refreshes'[q] # None /\ Subject(q)' = u
  <2>1. u # Subject(p) /\ refreshingTokens[u] = q
    BY <1>2, <1>4 DEF MemoryOK
  <2>2. refreshes[q] # None /\ Subject(q) = u /\ q # p
    BY <2>1 DEF Kept, Held
  <2>3. Subject(q)' = u
    BY <2>2 DEF Kept, Running, CallsStay
  <2> QED BY <2>2, <2>3 DEF MemoryOK
<1>5. ASSUME NEW q \in Promises, calls'[q[1]] # None, BranchOf(q)'.stage = "wait"
      PROVE  /\ BranchOf(q)'.promise \in Promises
             /\ refreshingTokens'[Subject(q)'] = BranchOf(q)'.promise
  <2>1. calls[q[1]] # None /\ Subject(q)' = Subject(q)
    BY <1>5 DEF CallsStay
  <2>2. ~Waiting(q[1], q[2], p) /\ BranchOf(q)' = BranchOf(q)
    BY <1>5, <2>1
  <2>3. BranchOf(q).promise \in Promises /\ refreshingTokens[Subject(q)] = BranchOf(q).promise
    BY <1>5, <2>1, <2>2 DEF Kept, Served
  <2>4. BranchOf(q).promise # p
    BY <1>5, <2>1, <2>2 DEF Waiting, BranchOf
  <2>5. Subject(q) \in UserIds /\ Subject(q) # Subject(p)
    BY <1>1, <2>1, <2>3, <2>4, SubjectType
  <2> QED BY <2>1, <2>2, <2>3, <2>5 DEF MemoryOK
<1>6. Running'
  BY <1>3 DEF Running
<1>7. Held'
  BY <1>4 DEF Held
<1>8. Served'
  BY <1>5 DEF Served
<1> QED BY <1>6, <1>7, <1>8 DEF Kept

\* A refresh goes on, and nothing else.
LEMMA RefreshGoesOn ==
  ASSUME MemoryOK, Kept, NEW p \in Promises, refreshes[p] # None, NEW refresh,
         refreshes' = [refreshes EXCEPT ![p] = refresh], refresh # None,
         UNCHANGED <<calls, refreshingTokens>>
  PROVE  Kept'
<1>1. \A q \in Promises : refreshes'[q] # None <=> refreshes[q] # None
  BY DEF MemoryOK
<1>2. Running'
  BY <1>1 DEF Kept, Running, Subject, BranchOf
<1>3. Held'
  BY <1>1 DEF Kept, Held, Subject
<1>4. Served'
  BY DEF Kept, Served, Subject, BranchOf
<1> QED BY <1>2, <1>3, <1>4 DEF Kept

LEMMA RefreshesStay ==
  ASSUME Kept, UNCHANGED <<calls, refreshes, refreshingTokens>>
  PROVE  Kept'
BY DEF Kept, Running, Held, Served, Subject, BranchOf

----------------------------------------------------------------------------
(* The first invariant                                                      *)

\* A request is about a fact, and while its call is in progress it is one of the call's.
LookupsKnown ==
  \A s \in Slots : lookups[s] # None =>
    /\ <<s[3], lookups[s].channel, lookups[s].user>> \in Facts
    /\ calls[s[1][1]] # None =>
         /\ lookups[s].channel = calls[s[1][1]].channel
         /\ lookups[s].user = calls[s[1][1]].user

Inv == CallsOK /\ CallsKnown /\ MemoryOK /\ OutsideOK /\ LookupsKnown /\ Kept

LEMMA InvInit == Init => Inv
<1> SUFFICES ASSUME Init PROVE Inv
  OBVIOUS
<1>1. \A u \in UserIds : [pair |-> 1, valid |-> TRUE] \in User /\ {1} \in SUBSET Pair
  BY PairFacts DEF User, Pair, EMPTY_TOKEN
<1>2. OutsideOK
  BY <1>1, PairFacts DEF Init, OutsideOK
<1>3. MemoryOK
  BY DEF Init, MemoryOK, Promises
<1>4. CallsOK /\ CallsKnown
  BY DEF Init, CallsOK, CallsKnown
<1>5. None \notin Promises
  BY UsersAssumption DEF Promises
<1>6. Kept
  BY <1>5, PromiseParts DEF Init, Kept, Running, Held, Served, Promises
<1>7. LookupsKnown
  BY DEF Init, LookupsKnown
<1> QED BY <1>2, <1>3, <1>4, <1>6, <1>7 DEF Inv

\* What is called, typed; and what is asked about is a fact.
LEMMA KnownCall ==
  ASSUME CallsOK, CallsKnown, NEW c \in Calls, calls[c] # None
  PROVE  /\ calls[c].channel \in UserIds /\ calls[c].user \in UserIds
         /\ calls[c].claims \in SUBSET Role
         /\ \A role \in calls[c].claims : <<role, calls[c].channel, calls[c].user>> \in Facts
<1>1. calls[c] \in Call
  BY DEF CallsOK
<1> QED BY <1>1 DEF Call, CallsKnown, Facts

LEMMA SlotParts ==
  ASSUME NEW s \in Slots
  PROVE  /\ s[1] \in Promises /\ s[1][1] \in Calls /\ s[1][2] \in Side
         /\ s[2] \in 1 .. 2 /\ s[3] \in Role
BY DEF Slots, Promises

\* Requests end, or go on; calls stay what they are, or begin when nothing is under way.
LEMMA LookupsStayKnown ==
  ASSUME LookupsKnown,
         \A s \in Slots : lookups'[s] # None =>
           /\ lookups[s] # None
           /\ lookups'[s].channel = lookups[s].channel /\ lookups'[s].user = lookups[s].user,
         \A c \in Calls : calls'[c] # None =>
           \/ /\ calls[c] # None
              /\ calls'[c].channel = calls[c].channel /\ calls'[c].user = calls[c].user
           \/ \A s \in Slots : s[1][1] = c => lookups[s] = None
  PROVE  LookupsKnown'
<1>1. ASSUME NEW s \in Slots, lookups'[s] # None
      PROVE  /\ <<s[3], lookups'[s].channel, lookups'[s].user>> \in Facts
             /\ calls'[s[1][1]] # None =>
                  /\ lookups'[s].channel = calls'[s[1][1]].channel
                  /\ lookups'[s].user = calls'[s[1][1]].user
  <2>1. s[1][1] \in Calls
    BY SlotParts
  <2>2. /\ lookups[s] # None
        /\ lookups'[s].channel = lookups[s].channel /\ lookups'[s].user = lookups[s].user
    BY <1>1
  <2>3. <<s[3], lookups[s].channel, lookups[s].user>> \in Facts
    BY <2>2 DEF LookupsKnown
  <2>4. CASE calls'[s[1][1]] # None
    <3>1. /\ calls[s[1][1]] # None
          /\ calls'[s[1][1]].channel = calls[s[1][1]].channel
          /\ calls'[s[1][1]].user = calls[s[1][1]].user
      BY <2>1, <2>2, <2>4
    <3>2. /\ lookups[s].channel = calls[s[1][1]].channel
          /\ lookups[s].user = calls[s[1][1]].user
      BY <2>2, <3>1 DEF LookupsKnown
    <3> QED BY <2>2, <2>3, <3>1, <3>2
  <2> QED BY <2>2, <2>3, <2>4
<1> QED BY <1>1 DEF LookupsKnown

LEMMA SameLookupsKnown ==
  ASSUME LookupsKnown, CallsStay, UNCHANGED lookups
  PROVE  LookupsKnown'
BY LookupsStayKnown DEF CallsStay

LEMMA LeavesType ==
  ASSUME MemoryOK, NEW s \in Slots, Leaves(s)
  PROVE  /\ lookups' \in [Slots -> Lookup \cup {None}]
         /\ \A t \in Slots : lookups'[t] \in {None, lookups[t]}
BY DEF MemoryOK, Leaves

LeftKnown == LookupsKnown' /\ lookups' \in [Slots -> Lookup \cup {None}]

LEMMA LeavesKeeps ==
  ASSUME MemoryOK, LookupsKnown, CallsStay, NEW s \in Slots, Leaves(s)
  PROVE  LeftKnown
<1>1. /\ lookups' \in [Slots -> Lookup \cup {None}]
      /\ \A t \in Slots : lookups'[t] \in {None, lookups[t]}
  BY LeavesType
<1>2. \A t \in Slots : lookups'[t] # None =>
        /\ lookups[t] # None
        /\ lookups'[t].channel = lookups[t].channel /\ lookups'[t].user = lookups[t].user
  BY <1>1
<1>3. LookupsKnown'
  BY <1>2, LookupsStayKnown DEF CallsStay
<1> QED BY <1>1, <1>3 DEF LeftKnown

\* What a branch finds in the cache.
CachedFor(p, role) ==
  Cached(p, role) # None =>
    /\ Cached(p, role) \in CacheEntry /\ role \in ReadFromCache
    /\ CacheKey(role, calls[p[1]].channel, calls[p[1]].user) \in CacheKeys
    /\ Cached(p, role) = cache[CacheKey(role, calls[p[1]].channel, calls[p[1]].user)]

LEMMA CachedType ==
  ASSUME Inv, NEW p \in Promises, calls[p[1]] # None, NEW role \in Claims(p)
  PROVE  CachedFor(p, role)
<1> DEFINE f == <<role, calls[p[1]].channel, calls[p[1]].user>>
           k == CacheKey(role, calls[p[1]].channel, calls[p[1]].user)
<1>1. f \in Facts
  BY KnownCall, PromiseParts DEF Inv, Claims
<1>2. f[1] = role /\ f[2] = calls[p[1]].channel /\ f[3] = calls[p[1]].user
  OBVIOUS
<1> HIDE DEF f
<1>3. role \in ReadFromCache => k \in CacheKeys
  BY <1>1, <1>2 DEF CacheKeys
<1>4. Cached(p, role) # None => role \in ReadFromCache /\ Cached(p, role) = cache[k]
  BY DEF Cached
<1> HIDE DEF k
<1>5. Cached(p, role) # None => Cached(p, role) \in CacheEntry
  BY <1>3, <1>4 DEF Inv, MemoryOK
<1> QED BY <1>3, <1>4, <1>5 DEF CachedFor, k

\* A branch goes on with what it has got, or without.
LEMMA GoesOnKeeps ==
  ASSUME Inv, NEW p \in Promises, calls[p[1]] # None, BranchOf(p).stage # "wait",
         NEW gains \in SUBSET Role, GoesOn(p, gains), UNCHANGED <<refreshes, refreshingTokens>>
  PROVE  CallsOK' /\ CallsKnown' /\ CallsStay /\ Kept'
<1>1. calls' = [calls EXCEPT ![p[1]].roles = @ \cup gains, ![p[1]].at[p[2]] = Done]
  BY DEF GoesOn
<1>2. /\ CallsOK' /\ CallsStay /\ CallsKnown' /\ BranchOf(p)' = Done
      /\ \A q \in Promises \ {p} : BranchOf(q)' = BranchOf(q)
  BY <1>1, DoneIsBranch, OneBranchChanges DEF Inv
<1>3. Kept'
  BY <1>2, DoneIsBranch, BranchGoesOn DEF Inv
<1> QED BY <1>2, <1>3

\* A branch sends its requests.
LEMMA AsksKeeps ==
  ASSUME Inv, NEW p \in Promises, BranchAt(p, "ask"),
         calls' = [calls EXCEPT ![p[1]].at[p[2]].stage = "asked"],
         UNCHANGED <<refreshes, refreshingTokens>>
  PROVE  CallsOK' /\ CallsKnown' /\ CallsStay /\ Kept'
<1> DEFINE b == [BranchOf(p) EXCEPT !.stage = "asked"]
<1>1. calls[p[1]] # None /\ BranchOf(p).stage # "wait"
  BY DEF BranchAt
<1>2. calls[p[1]] \in Call /\ p[1] \in Calls /\ p[2] \in Side /\ BranchOf(p) \in Branch
  BY <1>1, PromiseParts DEF Inv, CallsOK, Call, BranchOf
<1>3. b \in Branch /\ b.stage # "wait"
  BY <1>2 DEF Branch
<1>4. calls' = [calls EXCEPT ![p[1]].at[p[2]] = b]
  BY <1>2 DEF BranchOf, Inv, CallsOK, Call
<1> HIDE DEF b
<1>5. {} \in SUBSET Role
  OBVIOUS
<1>6. /\ CallsOK' /\ CallsStay /\ CallsKnown' /\ BranchOf(p)' = b
      /\ \A q \in Promises \ {p} : BranchOf(q)' = BranchOf(q)
  BY <1>1, <1>3, <1>4, <1>5, OneBranchChanges DEF Inv
<1>7. Kept'
  BY <1>1, <1>3, <1>6, BranchGoesOn DEF Inv
<1> QED BY <1>6, <1>7

\* A branch waits for a refresh of its tokens: what the branch becomes.
LEMMA WaitsKeeps ==
  ASSUME Inv, NEW p \in Promises, calls[p[1]] # None, NEW q \in Promises, WaitsFor(p, q)
  PROVE  /\ CallsOK' /\ CallsKnown' /\ CallsStay
         /\ \E b \in Branch : /\ BranchOf(p)' = b /\ b.stage = "wait" /\ b.promise = q
                              /\ \A x \in Promises \ {p} : BranchOf(x)' = BranchOf(x)
<1> DEFINE b == [BranchOf(p) EXCEPT !.stage = "wait", !.token = EMPTY_TOKEN, !.promise = q]
<1>1. calls[p[1]] \in Call /\ p[1] \in Calls /\ p[2] \in Side /\ BranchOf(p) \in Branch
  BY PromiseParts DEF Inv, CallsOK, Call, BranchOf
<1>2. b \in Branch /\ b.stage = "wait" /\ b.promise = q
  BY <1>1, PairFacts DEF Branch, Promises
<1>3. calls' = [calls EXCEPT ![p[1]].at[p[2]] = b]
  BY <1>1 DEF WaitsFor, BranchOf, Inv, CallsOK, Call
<1> HIDE DEF b
<1>4. {} \in SUBSET Role
  OBVIOUS
<1>5. /\ CallsOK' /\ CallsStay /\ CallsKnown' /\ BranchOf(p)' = b
      /\ \A x \in Promises \ {p} : BranchOf(x)' = BranchOf(x)
  BY <1>2, <1>3, <1>4, OneBranchChanges DEF Inv
<1> QED BY <1>2, <1>5

LEMMA BranchStepKeepsInv ==
  ASSUME Inv, NEW p \in Promises, BranchStep(p)
  PROVE  Inv' /\ CallsStay
<1>1. BranchAt(p, "ask") /\ calls[p[1]] # None /\ BranchOf(p).stage # "wait"
  BY DEF BranchStep, ReadsCache, Asks, BranchAt
<1>2. calls[p[1]] \in Call /\ p[1] \in Calls /\ p[2] \in Side /\ BranchOf(p) \in Branch
  BY <1>1, PromiseParts DEF Inv, CallsOK, Call, BranchOf
<1>3. CASE ReadsCache(p)
  <2>1. PICK gains : /\ GoesOn(p, gains) /\ gains \subseteq Claims(p)
                     /\ UNCHANGED <<users, cache, lookups, refreshes, refreshingTokens, logins,
                                    twitchVars, historyVars>>
    BY <1>3 DEF ReadsCache
  <2>2. gains \in SUBSET Role
    BY <1>2, <2>1 DEF Claims, Call
  <2>3. CallsOK' /\ CallsKnown' /\ CallsStay /\ Kept'
    BY <1>1, <2>1, <2>2, GoesOnKeeps
  <2>4. LookupsKnown'
    BY <2>1, <2>3, SameLookupsKnown DEF Inv
  <2> QED BY <2>1, <2>3, <2>4 DEF Inv, MemoryOK, OutsideOK, twitchVars, historyVars
<1>4. CASE Asks(p)
  <2>1. /\ lookups' = [s \in Slots |->
             IF s[1] = p /\ s[2] = BranchOf(p).attempt /\ s[3] \in Claims(p) THEN LooksUp(p, s[3])
             ELSE lookups[s]]
        /\ calls' = [calls EXCEPT ![p[1]].at[p[2]].stage = "asked"]
        /\ UNCHANGED <<users, cache, refreshes, refreshingTokens, logins, twitchVars, historyVars>>
    BY <1>4 DEF Asks
  <2>2. CallsOK' /\ CallsKnown' /\ CallsStay /\ Kept'
    BY <1>1, <2>1, AsksKeeps
  <2>3. ASSUME NEW s \in Slots, s[1] = p, s[3] \in Claims(p)
        PROVE  /\ LooksUp(p, s[3]) \in Lookup
               /\ LooksUp(p, s[3]).channel = calls[s[1][1]].channel
               /\ LooksUp(p, s[3]).user = calls[s[1][1]].user
               /\ <<s[3], LooksUp(p, s[3]).channel, LooksUp(p, s[3]).user>> \in Facts
    <3>1. calls[p[1]].channel \in UserIds /\ calls[p[1]].user \in UserIds
          /\ <<s[3], calls[p[1]].channel, calls[p[1]].user>> \in Facts
      BY <1>1, <1>2, <2>3, KnownCall DEF Inv, Claims
    <3>2. CachedFor(p, s[3])
      BY <1>1, <2>3, CachedType
    <3>3. BranchOf(p).token \in Pair /\ 0 \in 0 .. MaxDelay
      BY <1>2, PairFacts DEF Branch
    <3>4. LooksUp(p, s[3]) \in Lookup
      BY <3>1, <3>2, <3>3 DEF LooksUp, Lookup, CachedFor, CacheEntry
    <3> QED BY <2>3, <3>1, <3>4 DEF LooksUp
  <2>4. MemoryOK'
    BY <2>1, <2>3 DEF Inv, MemoryOK
  <2>5. LookupsKnown'
    <3>1. ASSUME NEW s \in Slots, lookups'[s] # None
          PROVE  /\ <<s[3], lookups'[s].channel, lookups'[s].user>> \in Facts
                 /\ calls'[s[1][1]] # None =>
                      /\ lookups'[s].channel = calls'[s[1][1]].channel
                      /\ lookups'[s].user = calls'[s[1][1]].user
      <4>1. s[1][1] \in Calls
        BY SlotParts
      <4>2. calls'[s[1][1]] # None =>
              /\ calls[s[1][1]] # None
              /\ calls'[s[1][1]].channel = calls[s[1][1]].channel
              /\ calls'[s[1][1]].user = calls[s[1][1]].user
        BY <2>2, <4>1 DEF CallsStay
      <4>3. CASE s[1] = p /\ s[2] = BranchOf(p).attempt /\ s[3] \in Claims(p)
        <5>1. lookups'[s] = LooksUp(p, s[3])
          BY <2>1, <4>3
        <5> QED BY <2>3, <4>2, <4>3, <5>1
      <4>4. CASE ~(s[1] = p /\ s[2] = BranchOf(p).attempt /\ s[3] \in Claims(p))
        <5>1. lookups'[s] = lookups[s]
          BY <2>1, <4>4
        <5> QED BY <3>1, <4>2, <5>1 DEF Inv, LookupsKnown
      <4> QED BY <4>3, <4>4
    <3> QED BY <3>1 DEF LookupsKnown
  <2> QED BY <2>1, <2>2, <2>4, <2>5 DEF Inv, OutsideOK, twitchVars, historyVars
<1> QED BY <1>3, <1>4 DEF BranchStep

\* A request and its call, typed.
LEMMA LookupFields ==
  ASSUME Inv, NEW s \in Slots, lookups[s] # None
  PROVE  /\ lookups[s] \in Lookup /\ lookups[s].channel \in UserIds /\ lookups[s].user \in UserIds
         /\ lookups[s].users \in SUBSET UserIds /\ lookups[s].age \in 0 .. MaxDelay
         /\ lookups[s].token \in Pair
         /\ s[1] \in Promises /\ s[1][1] \in Calls
BY SlotParts DEF Inv, MemoryOK, Lookup

LEMMA AwaitedCall ==
  ASSUME Inv, NEW s \in Slots, Awaited(s)
  PROVE  /\ calls[s[1][1]] # None /\ BranchOf(s[1]).stage # "wait" /\ s[1] \in Promises
         /\ Subject(s[1]) \in UserIds
BY SlotParts, SubjectType DEF Awaited, BranchAt, Inv

LEMMA ArrivesKeepsInv ==
  ASSUME Inv, NEW s \in Slots, lookups[s] # None, NEW who \in SUBSET UserIds, Arrives(s, who)
  PROVE  Inv' /\ CallsStay
<1>1. UNCHANGED <<users, refreshes, refreshingTokens, logins, twitchVars, historyVars>>
  BY DEF Arrives
<1>2. cache' \in [CacheKeys -> CacheEntry \cup {None}]
  <2> DEFINE entry == [users |-> who, age |-> 0]
             k == CacheKey(s[3], lookups[s].channel, lookups[s].user)
  <2>1. 0 \in 0 .. CACHE_TTL - 1
    BY PairFacts
  <2>2. entry \in CacheEntry
    BY <2>1 DEF CacheEntry
  <2>3. cache' = [cache EXCEPT ![k] = entry] \/ cache' = cache
    BY DEF Arrives
  <2> HIDE DEF entry, k
  <2> QED BY <2>2, <2>3 DEF Inv, MemoryOK
<1>3. /\ lookups' \in [Slots -> Lookup \cup {None}]
      /\ \A t \in Slots : lookups'[t] # None =>
           /\ lookups[t] # None
           /\ lookups'[t].channel = lookups[t].channel /\ lookups'[t].user = lookups[t].user
  <2>1. CASE Leaves(s)
    BY <2>1, LeavesType DEF Inv
  <2>2. CASE lookups' = [lookups EXCEPT ![s].stage = "got", ![s].users = who]
    <3> DEFINE got == [lookups[s] EXCEPT !.stage = "got", !.users = who]
    <3>1. /\ got \in Lookup
          /\ got.channel = lookups[s].channel /\ got.user = lookups[s].user
      BY LookupFields DEF Lookup
    <3>2. lookups' = [lookups EXCEPT ![s] = got]
      BY <2>2 DEF Inv, MemoryOK
    <3> HIDE DEF got
    <3> QED BY <3>1, <3>2 DEF Inv, MemoryOK
  <2> QED BY <2>1, <2>2 DEF Arrives
<1>4. CallsOK' /\ CallsKnown' /\ CallsStay /\ Kept'
  <2>1. CASE UNCHANGED calls
    BY <1>1, <2>1, RefreshesStay DEF Inv, CallsOK, CallsKnown, CallsStay, Subject
  <2>2. CASE ~UNCHANGED calls
    <3>1. PICK gains \in SUBSET Role : Awaited(s) /\ GoesOn(s[1], gains)
      <4>1. \A t \in Others(s) : t[3] \in Role
        BY SlotParts DEF Others
      <4>2. s[3] \in Role
        BY SlotParts
      <4> QED BY <2>2, <4>1, <4>2 DEF Arrives
    <3> QED BY <1>1, <3>1, AwaitedCall, GoesOnKeeps
  <2> QED BY <2>1, <2>2
<1>5. LookupsKnown'
  BY <1>3, <1>4, LookupsStayKnown DEF Inv, CallsStay
<1>6. MemoryOK' /\ OutsideOK'
  BY <1>1, <1>2, <1>3 DEF Inv, MemoryOK, OutsideOK, twitchVars, historyVars
<1> QED BY <1>4, <1>5, <1>6 DEF Inv

LEMMA LookupStepKeepsInv ==
  ASSUME Inv, NEW s \in Slots, LookupStep(s)
  PROVE  Inv' /\ CallsStay
<1>1. lookups[s] # None
  BY DEF LookupStep, TwitchAnswers, AnswerArrives, ErrorArrives, TwitchUnreachable, RefreshStarts,
         RefreshJoined, Unauthorized, LookupAt
<1>2. CASE TwitchAnswers(s)
  <2> DEFINE holders == Holders(s[3], lookups[s].channel, lookups[s].user)
             answer == [lookups[s] EXCEPT !.stage = "answered", !.users = holders]
  <2>1. holders \in SUBSET UserIds
    BY <1>1, LookupFields DEF Holders
  <2>2. /\ lookups' = [lookups EXCEPT ![s].stage = "answered", ![s].users = holders]
        /\ UNCHANGED <<users, cache, calls, refreshes, refreshingTokens, logins, twitchVars,
                       historyVars>>
    BY <1>2 DEF TwitchAnswers
  <2> HIDE DEF holders
  <2>3. /\ answer \in Lookup
        /\ answer.channel = lookups[s].channel /\ answer.user = lookups[s].user
    BY <1>1, <2>1, LookupFields DEF Lookup
  <2>4. lookups' = [lookups EXCEPT ![s] = answer]
    BY <2>2 DEF Inv, MemoryOK
  <2> HIDE DEF answer
  <2>5. CallsOK' /\ CallsKnown' /\ CallsStay /\ Kept'
    BY <2>2, RefreshesStay DEF Inv, CallsOK, CallsKnown, CallsStay, Subject
  <2>6. \A t \in Slots : lookups'[t] # None =>
          /\ lookups[t] # None
          /\ lookups'[t].channel = lookups[t].channel /\ lookups'[t].user = lookups[t].user
    BY <1>1, <2>3, <2>4 DEF Inv, MemoryOK
  <2>7. LookupsKnown'
    BY <2>5, <2>6, LookupsStayKnown DEF Inv, CallsStay
  <2>8. MemoryOK' /\ OutsideOK'
    BY <2>2, <2>3, <2>4 DEF Inv, MemoryOK, OutsideOK, twitchVars, historyVars
  <2> QED BY <2>5, <2>7, <2>8 DEF Inv
<1>3. CASE AnswerArrives(s)
  BY <1>1, <1>3, LookupFields, ArrivesKeepsInv DEF AnswerArrives
<1>4. CASE ErrorArrives(s)
  <2>1. PICK who \in SUBSET UserIds : who = {}
    OBVIOUS
  <2> QED BY <1>1, <1>4, <2>1, ArrivesKeepsInv DEF ErrorArrives
<1>5. CASE \/ TwitchUnreachable(s)
           \/ RefreshJoined(s) /\ refreshingTokens[Subject(s[1])] = Rejected
  <2>1. /\ Leaves(s)
        /\ (Awaited(s) /\ GoesOn(s[1], {})) \/ UNCHANGED calls
        /\ UNCHANGED <<users, cache, refreshes, refreshingTokens, logins, twitchVars, historyVars>>
    BY <1>5 DEF TwitchUnreachable, RefreshJoined, Unauthorized
  <2>2. CallsOK' /\ CallsKnown' /\ CallsStay /\ Kept'
    <3>1. PICK gains \in SUBSET Role : gains = {}
      OBVIOUS
    <3>2. CASE Awaited(s) /\ GoesOn(s[1], gains)
      BY <2>1, <3>2, AwaitedCall, GoesOnKeeps
    <3>3. CASE UNCHANGED calls
      BY <2>1, <3>3, RefreshesStay DEF Inv, CallsOK, CallsKnown, CallsStay, Subject
    <3> QED BY <2>1, <3>1, <3>2, <3>3
  <2>3. LeftKnown
    BY <2>1, <2>2, LeavesKeeps DEF Inv
  <2> QED BY <2>1, <2>2, <2>3 DEF Inv, MemoryOK, OutsideOK, twitchVars, historyVars, LeftKnown
<1>6. CASE RefreshJoined(s) /\ refreshingTokens[Subject(s[1])] # Rejected
  <2> DEFINE q == refreshingTokens[Subject(s[1])]
             p == s[1]
  <2>1. Awaited(s)
    BY <1>6 DEF RefreshJoined, Unauthorized
  <2>2. calls[p[1]] # None /\ BranchOf(p).stage # "wait" /\ p \in Promises /\ Subject(p) \in UserIds
    BY <2>1, AwaitedCall
  <2>3. q \in Promises
    BY <1>6, <2>2 DEF RefreshJoined, Inv, MemoryOK
  <2>4. /\ Leaves(s) /\ WaitsFor(p, q)
        /\ UNCHANGED <<users, cache, refreshes, refreshingTokens, logins, twitchVars, historyVars>>
    BY <1>6 DEF RefreshJoined
  <2>5. refreshingTokens[Subject(p)] = q
    OBVIOUS
  <2> HIDE DEF q, p
  <2>6. PICK b \in Branch :
          /\ CallsOK' /\ CallsKnown' /\ CallsStay
          /\ BranchOf(p)' = b /\ b.stage = "wait" /\ b.promise = q
          /\ \A x \in Promises \ {p} : BranchOf(x)' = BranchOf(x)
    BY <2>2, <2>3, <2>4, WaitsKeeps
  <2>7. Kept'
    BY <2>2, <2>3, <2>4, <2>5, <2>6, BranchGoesOn DEF Inv
  <2>8. LeftKnown
    BY <2>4, <2>6, LeavesKeeps DEF Inv
  <2> QED BY <2>4, <2>6, <2>7, <2>8 DEF Inv, MemoryOK, OutsideOK, twitchVars, historyVars, LeftKnown
<1>7. CASE RefreshStarts(s)
  <2> DEFINE refresh == [stage |-> "ask", pair |-> EMPTY_TOKEN, failed |-> FALSE,
                         replaces |-> EMPTY_TOKEN]
             p == s[1]
  <2>1. refresh \in Refresh
    BY PairFacts DEF Refresh
  <2>2. Awaited(s)
    BY <1>7 DEF RefreshStarts, Unauthorized
  <2>3. calls[p[1]] # None /\ p \in Promises /\ Subject(p) \in UserIds
    BY <2>2, AwaitedCall
  <2>4. /\ Leaves(s) /\ WaitsFor(p, p) /\ refreshingTokens[Subject(p)] = None
        /\ refreshingTokens' = [refreshingTokens EXCEPT ![Subject(p)] = p]
        /\ refreshes' = [refreshes EXCEPT ![p] = refresh]
        /\ UNCHANGED <<users, cache, logins, twitchVars, historyVars>>
    BY <1>7 DEF RefreshStarts, RefreshBegins
  <2> HIDE DEF refresh, p
  <2>5. PICK b \in Branch :
          /\ CallsOK' /\ CallsKnown' /\ CallsStay
          /\ BranchOf(p)' = b /\ b.stage = "wait" /\ b.promise = p
          /\ \A x \in Promises \ {p} : BranchOf(x)' = BranchOf(x)
    BY <2>3, <2>4, WaitsKeeps
  <2>6. Kept'
    BY <2>1, <2>3, <2>4, <2>5, BranchRefreshes DEF Inv
  <2>7. LeftKnown
    BY <2>4, <2>5, LeavesKeeps DEF Inv
  <2>8. MemoryOK'
    BY <2>1, <2>3, <2>4, <2>7 DEF Inv, MemoryOK, LeftKnown
  <2> QED BY <2>4, <2>5, <2>6, <2>7, <2>8 DEF Inv, OutsideOK, twitchVars, historyVars, LeftKnown
<1> QED BY <1>2, <1>3, <1>4, <1>5, <1>6, <1>7 DEF LookupStep

\* What store does to the tables.
LEMMA RevokesType ==
  ASSUME Inv, NEW u \in UserIds, Revokes(u)
  PROVE  revoked' \subseteq UserIds \X Pair
BY DEF Revokes, Inv, OutsideOK, User

LEMMA SavesType ==
  ASSUME Inv, NEW u \in UserIds, NEW pair \in Pair, NEW valid \in BOOLEAN, Saves(u, pair, valid)
  PROVE  users' \in [UserIds -> User] /\ halfStored' \subseteq UserIds
BY DEF Saves, Inv, OutsideOK, User

LEMMA IssuesType ==
  ASSUME Inv, NEW u \in UserIds, issued[u] < MaxPairs,
         issued' = [issued EXCEPT ![u] = @ + 1],
         live' = [live EXCEPT ![u] = @ \cup {issued'[u]}]
  PROVE  /\ issued' \in [UserIds -> 1 .. MaxPairs] /\ live' \in [UserIds -> SUBSET Pair]
         /\ issued'[u] \in Pair /\ issued'[u] = issued[u] + 1
<1>1. issued[u] + 1 \in 1 .. MaxPairs /\ issued[u] \in 1 .. MaxPairs
  BY PairFacts DEF Inv, OutsideOK
<1>2. issued' \in [UserIds -> 1 .. MaxPairs] /\ issued'[u] = issued[u] + 1
  BY <1>1 DEF Inv, OutsideOK
<1>3. issued'[u] \in Pair
  BY <1>1, <1>2, PairFacts
<1> QED BY <1>2, <1>3 DEF Inv, OutsideOK

\* Fields of a refresh.
LEMMA RefreshFields ==
  ASSUME MemoryOK, NEW p \in Promises, refreshes[p] # None
  PROVE  /\ refreshes[p] \in Refresh /\ refreshes[p].pair \in Pair
         /\ refreshes[p].failed \in BOOLEAN /\ refreshes[p].replaces \in Pair
BY DEF MemoryOK, Refresh

LEMMA RefreshStepKeepsInv ==
  ASSUME Inv, NEW p \in Promises, RefreshStep(p)
  PROVE  Inv' /\ CallsStay
<1> DEFINE u == Subject(p)
<1>1. refreshes[p] # None
  BY DEF RefreshStep, RefreshIssued, RefreshReads, RefreshSaves, RefreshFails, RefreshRejected
<1>2. refreshes[p] \in Refresh /\ refreshes[p].pair \in Pair /\ refreshes[p].failed \in BOOLEAN
  BY <1>1, RefreshFields DEF Inv
<1>3. u \in UserIds /\ calls[p[1]] # None
  BY <1>1, SubjectType DEF Inv, Kept, Running
<1> HIDE DEF u
<1>4. CASE RefreshIssued(p)
  <2> DEFINE n == issued'[u]
             refresh == [refreshes[p] EXCEPT !.stage = "read", !.pair = n]
  <2>1. /\ issued[u] < MaxPairs /\ issued' = [issued EXCEPT ![u] = @ + 1]
        /\ live' = [live EXCEPT ![u] = @ \cup {issued'[u]}]
        /\ UNCHANGED <<users, cache, lookups, calls, refreshingTokens, logins, ago, historyVars>>
    BY <1>4 DEF RefreshIssued, u
  <2>2. /\ issued' \in [UserIds -> 1 .. MaxPairs] /\ live' \in [UserIds -> SUBSET Pair]
        /\ n \in Pair
    BY <1>3, <2>1, IssuesType
  <2>3. refreshes' = [refreshes EXCEPT ![p].stage = "read", ![p].pair = n]
    BY <1>4 DEF RefreshIssued, u
  <2> HIDE DEF n
  <2>4. refresh \in Refresh /\ refreshes' = [refreshes EXCEPT ![p] = refresh]
    BY <1>2, <2>2, <2>3 DEF Refresh, Inv, MemoryOK
  <2> HIDE DEF refresh
  <2>5. Kept'
    BY <1>1, <2>1, <2>4, RefreshGoesOn, UsersAssumption DEF Inv
  <2>6. MemoryOK'
    BY <2>1, <2>4 DEF Inv, MemoryOK
  <2>7. OutsideOK'
    BY <2>1, <2>2 DEF Inv, OutsideOK, historyVars
  <2> QED BY <2>1, <2>5, <2>6, <2>7 DEF Inv, LookupsKnown, CallsOK, CallsKnown, CallsStay, Subject
<1>5. CASE RefreshReads(p)
  <2> DEFINE refresh == [refreshes[p] EXCEPT !.stage = "save", !.replaces = users[u].pair]
  <2>1. /\ Revokes(u)
        /\ refreshes' = [refreshes EXCEPT ![p].stage = "save", ![p].replaces = users[u].pair]
        /\ UNCHANGED <<users, cache, lookups, calls, refreshingTokens, logins, twitchVars, halfStored, refused>>
    BY <1>5 DEF RefreshReads, u
  <2>2. users[u].pair \in Pair
    BY <1>3 DEF Inv, OutsideOK, User
  <2>3. refresh \in Refresh /\ refreshes' = [refreshes EXCEPT ![p] = refresh]
    BY <1>2, <2>1, <2>2 DEF Refresh, Inv, MemoryOK
  <2> HIDE DEF refresh
  <2>4. Kept'
    BY <1>1, <2>1, <2>3, RefreshGoesOn, UsersAssumption DEF Inv
  <2>5. MemoryOK'
    BY <2>1, <2>3 DEF Inv, MemoryOK
  <2>6. OutsideOK'
    BY <1>3, <2>1, RevokesType DEF Inv, OutsideOK, twitchVars
  <2> QED BY <2>1, <2>4, <2>5, <2>6 DEF Inv, LookupsKnown, CallsOK, CallsKnown, CallsStay, Subject
<1>6. CASE RefreshSaves(p) \/ RefreshRejected(p)
  <2>1. PICK token \in Pair, outcome \in {None, Rejected} :
          /\ Resolves(p, token)
          /\ refreshes' = [refreshes EXCEPT ![p] = None]
          /\ refreshingTokens' = [refreshingTokens EXCEPT ![u] = outcome]
    BY <1>2, <1>6, PairFacts DEF RefreshSaves, RefreshRejected, u
  <2>2. UNCHANGED <<cache, lookups, logins, twitchVars, revoked>>
    BY <1>6 DEF RefreshSaves, RefreshRejected
  <2>3. users' \in [UserIds -> User] /\ halfStored' \subseteq UserIds /\ refused' \subseteq UserIds
    <3>1. CASE RefreshSaves(p)
      BY <1>2, <1>3, <3>1, SavesType DEF RefreshSaves, u, Inv, OutsideOK
    <3>2. CASE RefreshRejected(p)
      BY <1>3, <3>2 DEF RefreshRejected, LeavesHalf, u, Inv, OutsideOK
    <3> QED BY <1>6, <3>1, <3>2
  <2>4. /\ CallsOK'
        /\ \A c \in Calls : IF calls[c] = None THEN calls'[c] = None ELSE SameCall(c)
        /\ \A q \in Promises :
             calls[q[1]] # None =>
               IF Waiting(q[1], q[2], p) THEN BranchOf(q)'.stage # "wait"
               ELSE BranchOf(q)' = BranchOf(q)
    BY <2>1, PromiseSettled DEF Inv
  <2>5. CallsStay /\ CallsKnown'
    BY <2>4, SameCallsStay DEF Inv
  <2>6. Kept'
    BY <1>1, <2>1, <2>4, <2>5, RefreshEnds DEF Inv, u
  <2>7. MemoryOK'
    BY <1>3, <2>1, <2>2 DEF Inv, MemoryOK
  <2>8. OutsideOK'
    BY <2>2, <2>3 DEF Inv, OutsideOK, twitchVars
  <2>9. LookupsKnown'
    BY <2>2, <2>5, SameLookupsKnown DEF Inv
  <2> QED BY <2>4, <2>5, <2>6, <2>7, <2>8, <2>9 DEF Inv
<1>7. CASE RefreshFails(p)
  <2> DEFINE refresh == [stage |-> "read", pair |-> EMPTY_TOKEN, failed |-> TRUE,
                         replaces |-> EMPTY_TOKEN]
  <2>1. refresh \in Refresh
    BY PairFacts DEF Refresh
  <2>2. /\ LeavesHalf(u, refreshes[p]) /\ refused' = refused \cup {u}
        /\ refreshes' = [refreshes EXCEPT ![p] = refresh]
        /\ UNCHANGED <<users, cache, lookups, calls, refreshingTokens, logins, twitchVars, revoked>>
    BY <1>7 DEF RefreshFails, u
  <2> HIDE DEF refresh
  <2>3. Kept'
    BY <1>1, <2>1, <2>2, RefreshGoesOn, UsersAssumption DEF Inv
  <2>4. MemoryOK'
    BY <2>1, <2>2 DEF Inv, MemoryOK
  <2>5. OutsideOK'
    BY <1>3, <2>2 DEF Inv, OutsideOK, LeavesHalf, twitchVars
  <2> QED BY <2>2, <2>3, <2>4, <2>5 DEF Inv, LookupsKnown, CallsOK, CallsKnown, CallsStay, Subject
<1> QED BY <1>4, <1>5, <1>6, <1>7 DEF RefreshStep

LEMMA LoginStepKeepsInv ==
  ASSUME Inv, NEW l \in Logins, LoginStep(l)
  PROVE  Inv'
<1>1. UNCHANGED <<calls, refreshes, refreshingTokens, cache, lookups, ago>>
  BY DEF LoginStep, LoginBegins, LoginReads, LoginSaves, LoginFails, twitchVars
<1>2. CallsOK' /\ CallsKnown' /\ LookupsKnown' /\ Kept'
  BY <1>1, RefreshesStay DEF Inv, CallsOK, CallsKnown, LookupsKnown
<1>3. ASSUME NEW u \in UserIds, LoginBegins(l, u) PROVE MemoryOK' /\ OutsideOK'
  <2> DEFINE login == [user |-> u, stage |-> "read", pair |-> issued'[u], replaces |-> EMPTY_TOKEN]
  <2>1. /\ issued' \in [UserIds -> 1 .. MaxPairs] /\ live' \in [UserIds -> SUBSET Pair]
        /\ issued'[u] \in Pair
    BY <1>3, IssuesType DEF LoginBegins
  <2>2. login \in Login
    BY <2>1, PairFacts DEF Login
  <2>3. logins' = [logins EXCEPT ![l] = login] /\ UNCHANGED <<users, historyVars>>
    BY <1>3 DEF LoginBegins
  <2> HIDE DEF login
  <2> QED BY <1>1, <2>1, <2>2, <2>3 DEF Inv, MemoryOK, OutsideOK, historyVars
<1>4. CASE LoginReads(l)
  <2> DEFINE login == [logins[l] EXCEPT !.stage = "save", !.replaces = users[logins[l].user].pair]
  <2>1. logins[l] \in Login /\ logins[l].user \in UserIds
    BY <1>4 DEF LoginReads, Inv, MemoryOK, Login
  <2>2. users[logins[l].user].pair \in Pair
    BY <2>1 DEF Inv, OutsideOK, User
  <2>3. login \in Login /\ logins' = [logins EXCEPT ![l] = login]
    BY <1>4, <2>1, <2>2 DEF LoginReads, Login, Inv, MemoryOK
  <2>4. revoked' \subseteq UserIds \X Pair
    BY <1>4, <2>1, RevokesType DEF LoginReads
  <2>5. UNCHANGED <<users, twitchVars, halfStored, refused>>
    BY <1>4 DEF LoginReads
  <2> HIDE DEF login
  <2>6. MemoryOK'
    BY <1>1, <2>3 DEF Inv, MemoryOK
  <2>7. OutsideOK'
    BY <1>1, <2>4, <2>5 DEF twitchVars, Inv, OutsideOK
  <2> QED BY <1>2, <2>6, <2>7 DEF Inv
<1>5. CASE LoginSaves(l)
  <2>1. logins[l].user \in UserIds /\ logins[l].pair \in Pair
    BY <1>5 DEF LoginSaves, Inv, MemoryOK, Login
  <2>2. users' \in [UserIds -> User] /\ halfStored' \subseteq UserIds
    BY <1>5, <2>1, SavesType DEF LoginSaves
  <2> QED BY <1>1, <1>2, <1>5, <2>2 DEF LoginSaves, twitchVars, Inv, MemoryOK, OutsideOK
<1>6. CASE LoginFails(l)
  <2>1. logins[l].user \in UserIds
    BY <1>6 DEF LoginFails, Inv, MemoryOK, Login
  <2> QED BY <1>1, <1>2, <1>6, <2>1 DEF LoginFails, LeavesHalf, twitchVars, Inv, MemoryOK, OutsideOK
<1> QED BY <1>2, <1>3, <1>4, <1>5, <1>6 DEF LoginStep, Inv

LEMMA CallStepKeepsInv ==
  ASSUME Inv, NEW c \in Calls
  PROVE  /\ \A call \in CallsOf : CallBegins(c, call) => Inv'
         /\ CallEnds(c) => Inv'
<1>1. ASSUME NEW call \in CallsOf, CallBegins(c, call) PROVE Inv'
  <2> DEFINE begun ==
       [channel |-> call.channel, user |-> call.user, claims |-> call.claims, roles |-> {},
        at |-> [side \in Side |-> Starts(users[call[side]], call.claims \cap RolesBy[side])]]
  <2>1. call.channel \in UserIds /\ call.user \in UserIds /\ call.claims \in SUBSET Role
    BY UsersAssumption
  <2>2. \A side \in Side : users[call[side]] \in User
    BY <2>1 DEF Inv, OutsideOK, Side
  <2>3. /\ begun.at \in [Side -> Branch]
        /\ \A side \in Side : begun.at[side].stage # "wait"
    BY <2>2, StartsIsBranch
  <2>4. begun \in Call
    BY <2>1, <2>3 DEF Call
  <2>5. /\ begun # None /\ begun.channel = call.channel /\ begun.user = call.user
        /\ begun.claims = call.claims
    BY <2>4, UsersAssumption
  <2>6. /\ calls[c] = None /\ calls' = [calls EXCEPT ![c] = begun]
        /\ UNCHANGED <<users, cache, lookups, refreshes, refreshingTokens, logins, twitchVars, historyVars>>
    BY <1>1 DEF CallBegins
  <2> HIDE DEF begun
  <2>7. calls'[c] = begun /\ \A d \in Calls : d # c => calls'[d] = calls[d]
    BY <2>6 DEF Inv, CallsOK
  <2>8. CallsOK' /\ CallsKnown'
    BY <2>4, <2>5, <2>6, <2>7 DEF Inv, CallsOK, CallsKnown
  <2>9. \A q \in Promises : calls[q[1]] # None => calls'[q[1]] = calls[q[1]]
    BY <2>6, <2>7, PromiseParts
  <2>10. Running' /\ Held'
    BY <2>6, <2>9 DEF Inv, Kept, Running, Held, BranchOf, Subject
  <2>11. ASSUME NEW q \in Promises, calls'[q[1]] # None, BranchOf(q)'.stage = "wait"
         PROVE  calls'[q[1]] = calls[q[1]]
    BY <2>3, <2>7, <2>11, PromiseParts DEF BranchOf
  <2>12. Served'
    BY <2>6, <2>11 DEF Inv, Kept, Served, BranchOf, Subject
  <2>13. \A s \in Slots : s[1][1] = c => lookups[s] = None
    BY <1>1 DEF CallBegins
  <2>14. LookupsKnown'
    BY <2>6, <2>7, <2>13, LookupsStayKnown DEF Inv
  <2> QED BY <2>6, <2>8, <2>10, <2>12, <2>14 DEF Inv, Kept, MemoryOK, OutsideOK, twitchVars, historyVars
<1>2. ASSUME CallEnds(c) PROVE Inv'
  <2>1. /\ \A side \in Side : calls[c].at[side].stage = "done"
        /\ calls' = [calls EXCEPT ![c] = None]
        /\ UNCHANGED <<users, cache, lookups, refreshes, refreshingTokens, logins, twitchVars, historyVars>>
    BY <1>2 DEF CallEnds
  <2>2. calls'[c] = None /\ \A d \in Calls : d # c => calls'[d] = calls[d]
    BY <2>1 DEF Inv, CallsOK
  <2>3. CallsOK' /\ CallsKnown'
    BY <2>1, <2>2 DEF Inv, CallsOK, CallsKnown
  <2>4. ASSUME NEW q \in Promises, refreshes[q] # None
        PROVE  q[1] # c /\ calls'[q[1]] = calls[q[1]]
    <3>1. BranchOf(q).stage = "wait"
      BY <2>4 DEF Inv, Kept, Running
    <3> QED BY <2>1, <2>2, <3>1, PromiseParts DEF BranchOf
  <2>5. Running' /\ Held'
    BY <2>1, <2>4 DEF Inv, Kept, Running, Held, BranchOf, Subject
  <2>6. \A q \in Promises : calls'[q[1]] # None => calls'[q[1]] = calls[q[1]]
    BY <2>2, PromiseParts
  <2>7. Served'
    BY <2>1, <2>6 DEF Inv, Kept, Served, BranchOf, Subject
  <2>8. LookupsKnown'
    BY <2>1, <2>2, LookupsStayKnown DEF Inv
  <2> QED BY <2>1, <2>3, <2>5, <2>7, <2>8 DEF Inv, Kept, MemoryOK, OutsideOK, twitchVars, historyVars
<1> QED BY <1>1, <1>2

LEMMA WorldKeepsInv ==
  ASSUME Inv
  PROVE  /\ \A u \in UserIds, n \in Pair : TokenExpires(u, n) => Inv'
         /\ \A f \in Facts : RoleChanges(f) => Inv'
         /\ ClockTicks => Inv'
         /\ Restart => Inv'
<1>1. ASSUME UNCHANGED <<calls, refreshes, refreshingTokens>>
      PROVE  CallsOK' /\ CallsKnown' /\ Kept'
  BY <1>1, RefreshesStay DEF Inv, CallsOK, CallsKnown
<1>2. ASSUME NEW u \in UserIds, NEW n \in Pair, TokenExpires(u, n) PROVE Inv'
  BY <1>1, <1>2 DEF TokenExpires, historyVars, Inv, MemoryOK, OutsideOK, LookupsKnown
<1>3. ASSUME NEW f \in Facts, RoleChanges(f) PROVE Inv'
  BY <1>1, <1>3, PairFacts DEF RoleChanges, historyVars, Inv, MemoryOK, OutsideOK, LookupsKnown
<1>4. ASSUME ClockTicks PROVE Inv'
  <2>1. cache' \in [CacheKeys -> CacheEntry \cup {None}]
    <3>1. ASSUME NEW k \in CacheKeys PROVE Older(cache[k]) \in CacheEntry \cup {None}
      <4>1. CASE cache[k] = None \/ cache[k].age = CACHE_TTL - 1
        BY <4>1 DEF Older
      <4>2. CASE ~(cache[k] = None \/ cache[k].age = CACHE_TTL - 1)
        <5>1. cache[k] \in CacheEntry
          BY <4>2 DEF Inv, MemoryOK
        <5>2. cache[k].age + 1 \in 0 .. CACHE_TTL - 1
          BY <4>2, <5>1, PairFacts DEF CacheEntry
        <5> QED BY <4>2, <5>1, <5>2 DEF CacheEntry, Older
      <4> QED BY <4>1, <4>2
    <3> QED BY <1>4, <3>1 DEF ClockTicks
  <2>2. ago' \in [Facts -> (0 .. LongAgo) \cup {None}]
    <3>1. \A f \in Facts : ago[f] \in 0 .. LongAgo - 1 => ago[f] + 1 \in 0 .. LongAgo
      BY PairFacts
    <3> QED BY <1>4, <3>1 DEF ClockTicks, Inv, OutsideOK
  <2>3. ASSUME NEW s \in Slots, lookups'[s] # None
        PROVE  /\ lookups[s] # None /\ lookups'[s] \in Lookup
               /\ lookups'[s].channel = lookups[s].channel /\ lookups'[s].user = lookups[s].user
    <3>1. /\ lookups[s] # None /\ lookups[s].age < MaxDelay
          /\ lookups'[s] = [lookups[s] EXCEPT !.age = @ + 1]
      BY <1>4, <2>3 DEF ClockTicks
    <3>2. lookups[s] \in Lookup
      BY <3>1 DEF Inv, MemoryOK
    <3>3. lookups[s].age + 1 \in 0 .. MaxDelay
      BY <3>1, <3>2, PairFacts DEF Lookup
    <3> QED BY <3>1, <3>2, <3>3 DEF Lookup
  <2>4. lookups' = [s \in Slots |-> lookups'[s]]
    BY <1>4 DEF ClockTicks
  <2>5. lookups' \in [Slots -> Lookup \cup {None}]
    BY <2>3, <2>4
  <2>6. UNCHANGED <<users, calls, refreshes, refreshingTokens, logins, issued, live, historyVars>>
    BY <1>4 DEF ClockTicks
  <2>7. LookupsKnown'
    BY <2>3, <2>6, LookupsStayKnown DEF Inv
  <2> QED BY <1>1, <2>1, <2>2, <2>5, <2>6, <2>7 DEF historyVars, Inv, MemoryOK, OutsideOK
<1>5. ASSUME Restart PROVE Inv'
  <2>1. None \notin Promises
    BY UsersAssumption DEF Promises
  <2>2. CallsOK' /\ CallsKnown' /\ MemoryOK' /\ LookupsKnown'
    BY <1>5 DEF Restart, CallsOK, CallsKnown, MemoryOK, LookupsKnown, Promises
  <2>3. Kept'
    BY <1>5, <2>1, PromiseParts DEF Restart, Kept, Running, Held, Served, Promises
  <2>4. OutsideOK'
    BY <1>5 DEF Restart, twitchVars, Inv, OutsideOK
  <2> QED BY <2>2, <2>3, <2>4 DEF Inv
<1> QED BY <1>2, <1>3, <1>4, <1>5

LEMMA InvStep == Inv /\ [Next]_vars => Inv'
<1> SUFFICES ASSUME Inv, [Next]_vars PROVE Inv'
  OBVIOUS
<1>1. ASSUME NEW c \in Calls, CallStep(c) PROVE Inv'
  <2>1. \A side \in Side : <<c, side>> \in Promises
    BY DEF Promises
  <2> QED BY <1>1, <2>1, BranchStepKeepsInv, LookupStepKeepsInv, RefreshStepKeepsInv,
     CallStepKeepsInv DEF CallStep
<1>2. CASE UNCHANGED vars
  BY <1>2, RefreshesStay DEF vars, twitchVars, historyVars, Inv, CallsOK, CallsKnown, MemoryOK,
     OutsideOK, LookupsKnown
<1> QED BY <1>1, <1>2, CallStepKeepsInv, LoginStepKeepsInv, WorldKeepsInv DEF Next

LEMMA SpecInv == Spec => []Inv
BY InvInit, InvStep, PTL DEF Spec

\* Whose tokens a refresh is about does not change while it runs.
SubjectsStay == \A p \in Promises : refreshes[p] # None => Subject(p)' = Subject(p)

LEMMA CallStepSubjects ==
  ASSUME Inv, NEW c \in Calls,
         CallStep(c) \/ \E call \in CallsOf : CallBegins(c, call)
  PROVE  SubjectsStay
<1>1. CallsStay => SubjectsStay
  BY DEF CallsStay, SubjectsStay, Inv, Kept, Running
<1>2. \A side \in Side : <<c, side>> \in Promises
  BY DEF Promises
<1>3. ASSUME NEW call \in CallsOf, CallBegins(c, call) PROVE SubjectsStay
  <2>1. ASSUME NEW q \in Promises, refreshes[q] # None PROVE calls'[q[1]] = calls[q[1]]
    BY <1>3, <2>1, PromiseParts DEF CallBegins, Inv, Kept, Running, CallsOK
  <2> QED BY <2>1 DEF SubjectsStay, Subject
<1>4. ASSUME CallEnds(c) PROVE SubjectsStay
  <2>1. ASSUME NEW q \in Promises, refreshes[q] # None PROVE calls'[q[1]] = calls[q[1]]
    <3>1. calls[q[1]].at[q[2]].stage = "wait" /\ q[1] \in Calls /\ q[2] \in Side
      BY <2>1, PromiseParts DEF Inv, Kept, Running, BranchOf
    <3>2. q[1] # c
      BY <1>4, <3>1 DEF CallEnds
    <3> QED BY <1>4, <3>1, <3>2 DEF CallEnds, Inv, CallsOK
  <2> QED BY <2>1 DEF SubjectsStay, Subject
<1> QED BY <1>1, <1>2, <1>3, <1>4, BranchStepKeepsInv, LookupStepKeepsInv, RefreshStepKeepsInv DEF CallStep

----------------------------------------------------------------------------
(* Tokens are empty when a refresh has failed                               *)

RefreshValid(refresh, u, gone) ==
  IF refresh.failed THEN refresh.pair = EMPTY_TOKEN /\ refresh.stage # "ask" /\ u \in gone
  ELSE refresh.stage # "ask" => refresh.pair # EMPTY_TOKEN

Valid ==
  /\ InvalidAfterRefusal
  /\ \A p \in Promises :
       refreshes[p] # None => RefreshValid(refreshes[p], Subject(p), refused)
  /\ \A l \in Logins : logins[l] # None => logins[l].pair # EMPTY_TOKEN

\* Users, logins and what has failed stay; one refresh may change, and be sound.
LEMMA RefreshKeepsValid ==
  ASSUME Inv, Valid, SubjectsStay, NEW p \in Promises, NEW refresh,
         refreshes' = [refreshes EXCEPT ![p] = refresh],
         refresh = None \/ RefreshValid(refresh, Subject(p)', refused'),
         refused \subseteq refused', InvalidAfterRefusal', UNCHANGED logins
  PROVE  Valid'
<1>1. ASSUME NEW q \in Promises, refreshes'[q] # None
      PROVE  RefreshValid(refreshes'[q], Subject(q)', refused')
  <2>1. CASE q = p
    BY <1>1, <2>1 DEF Inv, MemoryOK
  <2>2. CASE q # p
    <3>1. refreshes'[q] = refreshes[q]
      BY <2>2 DEF Inv, MemoryOK
    <3> QED BY <1>1, <3>1 DEF Valid, SubjectsStay, RefreshValid
  <2> QED BY <2>1, <2>2
<1> QED BY <1>1 DEF Valid

LEMMA QuietKeepsValid ==
  ASSUME Valid, SubjectsStay, UNCHANGED <<users, refreshes, logins, refused>>
  PROVE  Valid'
BY DEF Valid, InvalidAfterRefusal, SubjectsStay, RefreshValid

LEMMA LookupStepKeepsValid ==
  ASSUME Inv, Valid, SubjectsStay, NEW s \in Slots, LookupStep(s)
  PROVE  Valid'
<1>1. CASE RefreshStarts(s)
  <2> DEFINE refresh == [stage |-> "ask", pair |-> EMPTY_TOKEN, failed |-> FALSE,
                         replaces |-> EMPTY_TOKEN]
             p == s[1]
  <2>1. RefreshValid(refresh, Subject(p)', refused')
    BY DEF RefreshValid
  <2>2. /\ refreshes' = [refreshes EXCEPT ![p] = refresh] /\ p \in Promises
        /\ UNCHANGED <<users, logins, refused>>
    BY <1>1, SlotParts DEF RefreshStarts, RefreshBegins, historyVars
  <2> HIDE DEF refresh, p
  <2>3. InvalidAfterRefusal'
    BY <2>2 DEF Valid, InvalidAfterRefusal
  <2> QED BY <2>1, <2>2, <2>3, RefreshKeepsValid
<1>2. CASE LookupStep(s) /\ ~RefreshStarts(s)
  <2>1. UNCHANGED <<users, refreshes, logins, refused>>
    BY <1>2 DEF LookupStep, TwitchAnswers, AnswerArrives, ErrorArrives, Arrives, TwitchUnreachable,
       RefreshJoined, historyVars
  <2> QED BY <2>1, QuietKeepsValid
<1> QED BY <1>1, <1>2

LEMMA SavesKeepsInvalid ==
  ASSUME Inv, Valid, NEW u \in UserIds, NEW pair, NEW valid \in BOOLEAN, Saves(u, pair, valid),
         valid <=> pair # EMPTY_TOKEN, ~valid => u \in refused',
         refused' = refused \/ (valid /\ refused' = refused \ {u})
  PROVE  InvalidAfterRefusal'
<1>1. /\ users'[u].pair = pair /\ users'[u].valid = valid
      /\ \A w \in UserIds : w # u => users'[w] = users[w]
  BY DEF Saves, Inv, OutsideOK
<1>2. ASSUME NEW w \in UserIds
      PROVE  /\ users'[w].valid <=> users'[w].pair # EMPTY_TOKEN
             /\ ~users'[w].valid => w \in refused'
  <2>1. CASE w = u
    BY <1>1, <2>1
  <2>2. CASE w # u
    <3>1. users'[w] = users[w]
      BY <1>1, <2>2
    <3> QED BY <2>2, <3>1 DEF Valid, InvalidAfterRefusal
  <2> QED BY <2>1, <2>2
<1> QED BY <1>2 DEF InvalidAfterRefusal

LEMMA RefreshStepKeepsValid ==
  ASSUME Inv, Valid, SubjectsStay, NEW p \in Promises, RefreshStep(p)
  PROVE  Valid'
<1>1. refreshes[p] # None
  BY DEF RefreshStep, RefreshIssued, RefreshReads, RefreshSaves, RefreshFails, RefreshRejected
<1>2. /\ refreshes[p] \in Refresh /\ RefreshValid(refreshes[p], Subject(p), refused)
      /\ Subject(p)' = Subject(p)
  BY <1>1, RefreshFields DEF Inv, Valid, SubjectsStay
<1>3. Subject(p) \in UserIds
  BY <1>1, SubjectType DEF Inv, Kept, Running
<1>4. CASE RefreshIssued(p)
  <2> DEFINE n == issued'[Subject(p)]
             refresh == [refreshes[p] EXCEPT !.stage = "read", !.pair = n]
  <2>1. n \in Pair /\ n # EMPTY_TOKEN
    BY <1>3, <1>4, IssuesType, PairFacts DEF RefreshIssued
  <2>2. /\ refreshes' = [refreshes EXCEPT ![p].stage = "read", ![p].pair = n]
        /\ UNCHANGED <<users, logins, refused>>
    BY <1>4 DEF RefreshIssued, historyVars
  <2> HIDE DEF n
  <2>3. refreshes' = [refreshes EXCEPT ![p] = refresh]
    BY <1>2, <2>2 DEF Refresh, Inv, MemoryOK
  <2>4. ~refreshes[p].failed
    BY <1>2, <1>4 DEF RefreshIssued, RefreshValid
  <2>5. RefreshValid(refresh, Subject(p)', refused')
    BY <1>2, <2>1, <2>4 DEF RefreshValid, Refresh
  <2> HIDE DEF refresh
  <2>6. InvalidAfterRefusal'
    BY <2>2 DEF Valid, InvalidAfterRefusal
  <2> QED BY <2>2, <2>3, <2>5, <2>6, RefreshKeepsValid
<1>5. CASE RefreshReads(p)
  <2> DEFINE n == users[Subject(p)].pair
             refresh == [refreshes[p] EXCEPT !.stage = "save", !.replaces = n]
  <2>1. /\ refreshes[p].stage = "read"
        /\ refreshes' = [refreshes EXCEPT ![p].stage = "save", ![p].replaces = n]
        /\ UNCHANGED <<users, logins, refused>>
    BY <1>5 DEF RefreshReads
  <2> HIDE DEF n
  <2>2. refreshes' = [refreshes EXCEPT ![p] = refresh]
    BY <1>2, <2>1 DEF Refresh, Inv, MemoryOK
  <2>3. RefreshValid(refresh, Subject(p)', refused')
    BY <1>2, <2>1 DEF RefreshValid, Refresh
  <2> HIDE DEF refresh
  <2>4. InvalidAfterRefusal'
    BY <2>1 DEF Valid, InvalidAfterRefusal
  <2> QED BY <2>1, <2>2, <2>3, <2>4, RefreshKeepsValid
<1>6. CASE RefreshSaves(p)
  <2>1. /\ refreshes[p].stage = "save"
        /\ Saves(Subject(p), refreshes[p].pair, ~refreshes[p].failed)
        /\ refreshes' = [refreshes EXCEPT ![p] = None]
        /\ UNCHANGED <<logins, refused>>
    BY <1>6 DEF RefreshSaves
  <2>2. /\ ~refreshes[p].failed <=> refreshes[p].pair # EMPTY_TOKEN
        /\ refreshes[p].failed => Subject(p) \in refused
        /\ (~refreshes[p].failed) \in BOOLEAN
    BY <1>2, <2>1 DEF RefreshValid, Refresh
  <2>3. InvalidAfterRefusal'
    BY <1>3, <2>1, <2>2, SavesKeepsInvalid
  <2> QED BY <2>1, <2>3, RefreshKeepsValid
<1>7. CASE RefreshFails(p)
  <2> DEFINE refresh == [stage |-> "read", pair |-> EMPTY_TOKEN, failed |-> TRUE,
                         replaces |-> EMPTY_TOKEN]
  <2>1. /\ refused' = refused \cup {Subject(p)}
        /\ refreshes' = [refreshes EXCEPT ![p] = refresh]
        /\ UNCHANGED <<users, logins>>
    BY <1>7 DEF RefreshFails
  <2>2. RefreshValid(refresh, Subject(p)', refused')
    BY <1>2, <2>1 DEF RefreshValid
  <2> HIDE DEF refresh
  <2>3. InvalidAfterRefusal'
    BY <2>1 DEF Valid, InvalidAfterRefusal
  <2> QED BY <2>1, <2>2, <2>3, RefreshKeepsValid
<1>8. CASE RefreshRejected(p)
  <2>1. refreshes' = [refreshes EXCEPT ![p] = None] /\ UNCHANGED <<users, logins, refused>>
    BY <1>8 DEF RefreshRejected
  <2>2. InvalidAfterRefusal'
    BY <2>1 DEF Valid, InvalidAfterRefusal
  <2> QED BY <2>1, <2>2, RefreshKeepsValid
<1> QED BY <1>4, <1>5, <1>6, <1>7, <1>8 DEF RefreshStep

LEMMA LoginStepKeepsValid ==
  ASSUME Inv, Valid, NEW l \in Logins, LoginStep(l)
  PROVE  Valid'
<1>1. UNCHANGED <<calls, refreshes>>
  BY DEF LoginStep, LoginBegins, LoginReads, LoginSaves, LoginFails
<1>2. \A p \in Promises : Subject(p)' = Subject(p)
  BY <1>1 DEF Subject
<1>3. ASSUME UNCHANGED <<users, refused>>,
             \A m \in Logins : logins'[m] # None =>
               logins'[m].pair # EMPTY_TOKEN
      PROVE  Valid'
  BY <1>1, <1>2, <1>3 DEF Valid, InvalidAfterRefusal, RefreshValid
<1>4. ASSUME NEW u \in UserIds, LoginBegins(l, u) PROVE Valid'
  <2> DEFINE n == issued'[u]
             login == [user |-> u, stage |-> "read", pair |-> n, replaces |-> EMPTY_TOKEN]
  <2>1. n \in Pair /\ n # EMPTY_TOKEN
    BY <1>4, IssuesType, PairFacts DEF LoginBegins
  <2>2. logins' = [logins EXCEPT ![l] = login] /\ UNCHANGED <<users, refused>>
    BY <1>4 DEF LoginBegins, historyVars
  <2>3. login.pair = n
    OBVIOUS
  <2> HIDE DEF n, login
  <2>4. \A m \in Logins : logins'[m] # None => logins'[m].pair # EMPTY_TOKEN
    BY <2>1, <2>2, <2>3 DEF Inv, MemoryOK, Valid
  <2> QED BY <1>3, <2>2, <2>4
<1>5. CASE LoginReads(l)
  <2> DEFINE n == users[logins[l].user].pair
  <2>1. /\ logins[l] # None /\ logins' = [logins EXCEPT ![l].stage = "save", ![l].replaces = n]
        /\ UNCHANGED <<users, refused>>
    BY <1>5 DEF LoginReads
  <2> HIDE DEF n
  <2>2. logins[l] \in Login
    BY <2>1 DEF Inv, MemoryOK
  <2>3. logins'[l].pair = logins[l].pair
    BY <2>1, <2>2 DEF Inv, MemoryOK, Login
  <2>4. \A m \in Logins : logins'[m] # None => logins'[m].pair # EMPTY_TOKEN
    BY <2>1, <2>3 DEF Inv, MemoryOK, Valid
  <2> QED BY <1>3, <2>1, <2>4
<1>6. CASE LoginSaves(l)
  <2> DEFINE u == logins[l].user
  <2>1. u \in UserIds /\ logins[l].pair # EMPTY_TOKEN
    BY <1>6 DEF LoginSaves, Inv, MemoryOK, Login, Valid
  <2>2. /\ Saves(u, logins[l].pair, TRUE)
        /\ refused' = IF Failing(u) = {} THEN refused \ {u} ELSE refused
        /\ logins' = [logins EXCEPT ![l] = None]
    BY <1>6 DEF LoginSaves
  <2> HIDE DEF u
  <2>3. InvalidAfterRefusal'
    BY <2>1, <2>2, SavesKeepsInvalid
  <2>4. ASSUME NEW p \in Promises, refreshes'[p] # None
        PROVE  RefreshValid(refreshes'[p], Subject(p)', refused')
    <3>1. RefreshValid(refreshes[p], Subject(p), refused) /\ refreshes[p] # None
      BY <1>1, <2>4 DEF Valid
    <3>2. refreshes[p].failed /\ Subject(p) = u => p \in Failing(u)
      BY <3>1 DEF Failing, Promises
    <3> QED BY <1>1, <1>2, <2>2, <3>1, <3>2 DEF RefreshValid
  <2>5. \A m \in Logins : logins'[m] # None => logins'[m].pair # EMPTY_TOKEN
    BY <2>2 DEF Inv, MemoryOK, Valid
  <2> QED BY <2>3, <2>4, <2>5 DEF Valid
<1>7. CASE LoginFails(l)
  <2>1. logins' = [logins EXCEPT ![l] = None] /\ UNCHANGED <<users, refused>>
    BY <1>7 DEF LoginFails
  <2>2. \A m \in Logins : logins'[m] # None => logins'[m].pair # EMPTY_TOKEN
    BY <2>1 DEF Inv, MemoryOK, Valid
  <2> QED BY <1>3, <2>1, <2>2
<1> QED BY <1>4, <1>5, <1>6, <1>7 DEF LoginStep

LEMMA ValidInit == Init => Valid
<1> SUFFICES ASSUME Init PROVE Valid
  OBVIOUS
<1>1. \A u \in UserIds : users[u].valid = TRUE
  BY DEF Init
<1>2. \A u \in UserIds : users[u].pair = 1
  BY DEF Init
<1>3. \A u \in UserIds : users[u].pair # EMPTY_TOKEN
  <2>1. 1 \in 1 .. MaxPairs
    BY PairFacts
  <2>2. 1 # EMPTY_TOKEN
    BY <2>1, PairFacts
  <2> QED BY <1>2, <2>2, Zenon
<1>4. InvalidAfterRefusal
  BY <1>1, <1>3, Zenon DEF InvalidAfterRefusal
<1> QED BY <1>4 DEF Init, Valid, Promises

\* What happens to Twitch, to the cache and to calls that begin and end.
LEMMA WorldSubjects ==
  ASSUME Inv,
         \/ \E u \in UserIds, n \in Pair : TokenExpires(u, n)
         \/ \E f \in Facts : RoleChanges(f)
         \/ ClockTicks \/ UNCHANGED vars
  PROVE  UNCHANGED <<users, calls, refreshes, logins, refused, revoked, halfStored, issued>>
BY DEF TokenExpires, RoleChanges, ClockTicks, vars, historyVars, twitchVars

LEMMA ValidStep == Inv /\ Valid /\ [Next]_vars => Valid'
<1> SUFFICES ASSUME Inv, Valid, [Next]_vars PROVE Valid'
  OBVIOUS
<1>1. ASSUME NEW c \in Calls, CallStep(c) PROVE Valid'
  <2>1. SubjectsStay
    BY <1>1, CallStepSubjects
  <2>2. \A side \in Side : <<c, side>> \in Promises
    BY DEF Promises
  <2>3. CASE CallEnds(c)
    BY <2>1, <2>3, QuietKeepsValid DEF CallEnds, historyVars
  <2>4. ASSUME NEW p \in Promises, BranchStep(p) PROVE Valid'
    BY <2>1, <2>4, QuietKeepsValid DEF BranchStep, ReadsCache, Asks, historyVars
  <2> QED BY <1>1, <2>1, <2>2, <2>3, <2>4, LookupStepKeepsValid, RefreshStepKeepsValid DEF CallStep
<1>2. ASSUME NEW c \in Calls, NEW call \in CallsOf, CallBegins(c, call) PROVE Valid'
  <2>1. SubjectsStay
    BY <1>2, CallStepSubjects
  <2> QED BY <1>2, <2>1, QuietKeepsValid DEF CallBegins, historyVars
<1>3. CASE Restart
  BY <1>3 DEF Restart, Valid, InvalidAfterRefusal, Promises
<1>4. CASE \/ \E u \in UserIds, n \in Pair : TokenExpires(u, n)
           \/ \E f \in Facts : RoleChanges(f)
           \/ ClockTicks \/ UNCHANGED vars
  <2>1. UNCHANGED <<users, calls, refreshes, logins, refused>>
    BY <1>4, WorldSubjects
  <2>2. SubjectsStay
    BY <2>1 DEF SubjectsStay, Subject
  <2> QED BY <2>1, <2>2, QuietKeepsValid
<1> QED BY <1>1, <1>2, <1>3, <1>4, LoginStepKeepsValid DEF Next

----------------------------------------------------------------------------
(* Tokens that are kept are not revoked                                     *)

\* A refresh that has got its tokens from Twitch, and has not stored them yet.
InHand(p) == refreshes[p] # None /\ ~refreshes[p].failed /\ refreshes[p].stage # "ask"

\* A pair nobody has stored or revoked.
Fresh(n, u, us, is, rev) == n \in 1 .. is[u] /\ n # us[u].pair /\ <<u, n>> \notin rev

\* Refreshes and logins have fresh pairs in hand, each its own.
HandsFresh ==
  /\ \A p \in Promises : InHand(p) => Fresh(refreshes[p].pair, Subject(p), users, issued, revoked)
  /\ \A l \in Logins : logins[l] # None =>
       Fresh(logins[l].pair, logins[l].user, users, issued, revoked)

HandsApart ==
  /\ \A l, m \in Logins :
       logins[l] # None /\ logins[m] # None /\ logins[l].user = logins[m].user
         /\ logins[l].pair = logins[m].pair => l = m
  /\ \A l \in Logins, p \in Promises :
       logins[l] # None /\ InHand(p) /\ logins[l].user = Subject(p) =>
         logins[l].pair # refreshes[p].pair

StoredKnown ==
  /\ \A u \in UserIds : users[u].pair \in 0 .. issued[u]
  /\ \A r \in revoked : r[2] \in 1 .. issued[r[1]]

\* The token of u that is stored is being replaced, or that has failed.
BeingReplaced(u) ==
  \/ u \in halfStored
  \/ \E p \in Promises : refreshes[p] # None /\ Subject(p) = u /\ Half(u, refreshes[p])
  \/ \E l \in Logins : logins[l] # None /\ logins[l].user = u /\ Half(u, logins[l])

Tokens == HandsFresh /\ HandsApart /\ StoredKnown /\ StoredTokenNotRevoked

LEMMA StoredTokens ==
  /\ StoredTokenNotRevoked <=>
       \A u \in UserIds : <<u, users[u].pair>> \in revoked => BeingReplaced(u)
  /\ StoredTokenNotRevoked' <=>
       \A u \in UserIds : <<u, users'[u].pair>> \in revoked' => BeingReplaced(u)'
BY DEF StoredTokenNotRevoked, BeingReplaced, Promises

\* Nothing is issued: who has a pair in hand has had it, or has stored it.
LEMMA HandsKept ==
  ASSUME Inv, Tokens, UNCHANGED issued,
         \A q \in Promises : InHand(q)' =>
           InHand(q) /\ refreshes'[q].pair = refreshes[q].pair /\ Subject(q)' = Subject(q),
         \A m \in Logins : logins'[m] # None =>
           /\ logins[m] # None
           /\ logins'[m].pair = logins[m].pair /\ logins'[m].user = logins[m].user,
         \A u \in UserIds :
           \/ users'[u].pair \in {users[u].pair, 0}
           \/ /\ users'[u].pair \in 1 .. issued[u]
              /\ \A q \in Promises :
                   InHand(q)' /\ Subject(q)' = u => refreshes'[q].pair # users'[u].pair
              /\ \A m \in Logins :
                   logins'[m] # None /\ logins'[m].user = u => logins'[m].pair # users'[u].pair,
         \A r \in revoked' :
           \/ r \in revoked
           \/ \E u \in UserIds : r = <<u, users[u].pair>> /\ users[u].pair # 0
  PROVE  HandsFresh' /\ HandsApart' /\ StoredKnown'
<1>0. \A u \in UserIds : issued[u] \in 1 .. MaxPairs /\ MaxPairs \in Nat
  BY PairFacts DEF Inv, OutsideOK
<1>1. ASSUME NEW n, NEW u \in UserIds, Fresh(n, u, users, issued, revoked),
             users'[u].pair \in {users[u].pair, 0} \/ users'[u].pair # n
      PROVE  Fresh(n, u, users', issued', revoked')
  <2>1. n \in 1 .. issued[u] /\ n # users[u].pair /\ <<u, n>> \notin revoked /\ n # 0
    BY <1>0, <1>1 DEF Fresh
  <2>2. n # users'[u].pair
    BY <1>1, <2>1
  <2>3. <<u, n>> \notin revoked'
    BY <2>1
  <2> QED BY <2>1, <2>2, <2>3 DEF Fresh
<1>2. ASSUME NEW q \in Promises, InHand(q)'
      PROVE  Fresh(refreshes'[q].pair, Subject(q)', users', issued', revoked')
  <2>1. /\ InHand(q) /\ refreshes'[q].pair = refreshes[q].pair /\ Subject(q)' = Subject(q)
        /\ Fresh(refreshes[q].pair, Subject(q), users, issued, revoked)
    BY <1>2 DEF Tokens, HandsFresh
  <2>2. Subject(q) \in UserIds
    BY <2>1, SubjectType DEF InHand, Inv, Kept, Running
  <2> QED BY <1>1, <1>2, <2>1, <2>2
<1>3. ASSUME NEW m \in Logins, logins'[m] # None
      PROVE  Fresh(logins'[m].pair, logins'[m].user, users', issued', revoked')
  <2>1. /\ logins[m] # None
        /\ logins'[m].pair = logins[m].pair /\ logins'[m].user = logins[m].user
        /\ Fresh(logins[m].pair, logins[m].user, users, issued, revoked)
    BY <1>3 DEF Tokens, HandsFresh
  <2>2. logins[m].user \in UserIds
    BY <2>1 DEF Inv, MemoryOK, Login
  <2> QED BY <1>1, <1>3, <2>1, <2>2
<1>4. HandsFresh'
  BY <1>2, <1>3 DEF HandsFresh
<1>5. HandsApart'
  BY DEF Tokens, HandsApart
<1>6. \A u \in UserIds : users'[u].pair \in 0 .. issued'[u]
  BY <1>0 DEF Tokens, StoredKnown
<1>7. \A r \in revoked' : r[2] \in 1 .. issued'[r[1]]
  BY <1>0 DEF Tokens, StoredKnown
<1> QED BY <1>4, <1>5, <1>6, <1>7 DEF StoredKnown

\* A token that is being replaced still is, unless the row has got another.
LEMMA ReplacedStill ==
  ASSUME NEW u \in UserIds, BeingReplaced(u), users'[u].pair = users[u].pair,
         u \in halfStored => u \in halfStored',
         \A p \in Promises : refreshes[p] # None /\ Subject(p) = u /\ Half(u, refreshes[p]) =>
           \/ u \in halfStored'
           \/ /\ refreshes'[p] # None /\ Subject(p)' = u
              /\ refreshes'[p].stage = "save" /\ refreshes'[p].replaces = refreshes[p].replaces,
         \A l \in Logins : logins[l] # None /\ logins[l].user = u /\ Half(u, logins[l]) =>
           \/ u \in halfStored'
           \/ /\ logins'[l] # None /\ logins'[l].user = u
              /\ logins'[l].stage = "save" /\ logins'[l].replaces = logins[l].replaces
  PROVE  BeingReplaced(u)'
BY DEF BeingReplaced, Half

LEMMA QuietKeepsTokens ==
  ASSUME Inv, Tokens, SubjectsStay,
         UNCHANGED <<users, refreshes, logins, issued, revoked, halfStored>>
  PROVE  Tokens'
<1>1. HandsFresh' /\ HandsApart' /\ StoredKnown'
  BY DEF Tokens, HandsFresh, HandsApart, StoredKnown, InHand, SubjectsStay, Fresh
<1>2. \A u \in UserIds : BeingReplaced(u) => BeingReplaced(u)'
  BY DEF BeingReplaced, Half, SubjectsStay
<1>3. StoredTokenNotRevoked'
  BY <1>2, StoredTokens DEF Tokens
<1> QED BY <1>1, <1>3 DEF Tokens

LEMMA LookupStepKeepsTokens ==
  ASSUME Inv, Tokens, SubjectsStay, NEW s \in Slots, LookupStep(s)
  PROVE  Tokens'
<1>1. CASE RefreshStarts(s)
  <2> DEFINE refresh == [stage |-> "ask", pair |-> EMPTY_TOKEN, failed |-> FALSE,
                         replaces |-> EMPTY_TOKEN]
             p == s[1]
  <2>1. refresh.stage = "ask"
    OBVIOUS
  <2>2. /\ refreshes' = [refreshes EXCEPT ![p] = refresh] /\ p \in Promises
        /\ UNCHANGED <<users, logins, issued, revoked, halfStored>>
    BY <1>1, SlotParts DEF RefreshStarts, RefreshBegins, historyVars, twitchVars
  <2>3. refreshes[p] = None
    <3>1. Awaited(s)
      BY <1>1 DEF RefreshStarts, Unauthorized
    <3> QED BY <3>1, AwaitedCall DEF Inv, Kept, Running
  <2> HIDE DEF refresh, p
  <2>4. /\ refreshes'[p] = refresh
        /\ \A q \in Promises : q # p => refreshes'[q] = refreshes[q]
    BY <2>2 DEF Inv, MemoryOK
  <2>5. \A q \in Promises : InHand(q)' =>
          InHand(q) /\ refreshes'[q].pair = refreshes[q].pair /\ Subject(q)' = Subject(q)
    BY <2>1, <2>4 DEF InHand, SubjectsStay
  <2>6. HandsFresh' /\ HandsApart' /\ StoredKnown'
    BY <2>2, <2>5, HandsKept
  <2>7. ASSUME NEW u \in UserIds, BeingReplaced(u) PROVE BeingReplaced(u)'
    BY <2>2, <2>3, <2>4, <2>7, ReplacedStill DEF SubjectsStay, Half
  <2>8. StoredTokenNotRevoked'
    BY <2>2, <2>7, StoredTokens DEF Tokens
  <2> QED BY <2>6, <2>8 DEF Tokens
<1>2. CASE LookupStep(s) /\ ~RefreshStarts(s)
  <2>1. UNCHANGED <<users, refreshes, logins, issued, revoked, halfStored>>
    BY <1>2 DEF LookupStep, TwitchAnswers, AnswerArrives, ErrorArrives, Arrives, TwitchUnreachable,
       RefreshJoined, historyVars, twitchVars
  <2> QED BY <2>1, QuietKeepsTokens
<1> QED BY <1>1, <1>2

\* Tokens are issued, to a refresh or a login that has had none.
LEMMA IssueKeepsTokens ==
  ASSUME Inv, Tokens, NEW u \in UserIds, issued[u] < MaxPairs,
         issued' = [issued EXCEPT ![u] = @ + 1],
         UNCHANGED <<users, revoked, halfStored>>,
         \A p \in Promises : refreshes'[p] # None => Subject(p)' = Subject(p),
         \A p \in Promises : InHand(p)' =>
           \/ InHand(p) /\ refreshes'[p].pair = refreshes[p].pair
           \/ /\ Subject(p) = u /\ refreshes'[p].pair = issued'[u]
              /\ \A q \in Promises : refreshes'[q] # None /\ Subject(q) = u => q = p
              /\ \A l \in Logins : logins'[l] # None =>
                   /\ logins[l] # None
                   /\ logins'[l].user = logins[l].user /\ logins'[l].pair = logins[l].pair,
         \A l \in Logins : logins'[l] # None =>
           \/ /\ logins[l] # None
              /\ logins'[l].user = logins[l].user /\ logins'[l].pair = logins[l].pair
           \/ /\ logins'[l].user = u /\ logins'[l].pair = issued'[u]
              /\ \A p \in Promises : InHand(p)' =>
                   InHand(p) /\ refreshes'[p].pair = refreshes[p].pair
              /\ \A m \in Logins : m # l => logins'[m] = logins[m],
         \A p \in Promises : refreshes[p] # None /\ Subject(p) \in UserIds
             /\ Half(Subject(p), refreshes[p]) => refreshes'[p] = refreshes[p],
         \A l \in Logins : logins[l] # None => logins'[l] = logins[l]
  PROVE  Tokens'
<1>0. /\ \A w \in UserIds : issued[w] \in 1 .. MaxPairs /\ MaxPairs \in Nat
      /\ issued'[u] = issued[u] + 1
      /\ \A w \in UserIds : w # u => issued'[w] = issued[w]
  BY PairFacts DEF Inv, OutsideOK
<1>1. ASSUME NEW w \in UserIds, NEW n, Fresh(n, w, users, issued, revoked)
      PROVE  Fresh(n, w, users', issued', revoked') /\ (w = u => n # issued'[u])
  BY <1>0, <1>1 DEF Fresh
<1>2. Fresh(issued'[u], u, users', issued', revoked')
  <2>1. issued'[u] \in 1 .. issued'[u]
    BY <1>0
  <2>2. issued'[u] # users'[u].pair
    BY <1>0 DEF Tokens, StoredKnown
  <2>3. <<u, issued'[u]>> \notin revoked'
    BY <1>0 DEF Tokens, StoredKnown
  <2> QED BY <2>1, <2>2, <2>3 DEF Fresh
<1>3. ASSUME NEW p \in Promises, InHand(p)
      PROVE  Subject(p) \in UserIds /\ Fresh(refreshes[p].pair, Subject(p), users, issued, revoked)
  BY <1>3, SubjectType DEF InHand, Inv, Kept, Running, Tokens, HandsFresh
<1>4. ASSUME NEW l \in Logins, logins[l] # None
      PROVE  /\ logins[l].user \in UserIds
             /\ Fresh(logins[l].pair, logins[l].user, users, issued, revoked)
  BY <1>4 DEF Inv, MemoryOK, Login, Tokens, HandsFresh
<1>5. ASSUME NEW p \in Promises, InHand(p)'
      PROVE  Fresh(refreshes'[p].pair, Subject(p)', users', issued', revoked')
  <2>1. refreshes'[p] # None /\ Subject(p)' = Subject(p)
    BY <1>5 DEF InHand
  <2>2. CASE InHand(p) /\ refreshes'[p].pair = refreshes[p].pair
    BY <1>1, <1>3, <2>1, <2>2
  <2>3. CASE Subject(p) = u /\ refreshes'[p].pair = issued'[u]
    BY <1>2, <2>1, <2>3
  <2> QED BY <1>5, <2>2, <2>3
<1>6. ASSUME NEW l \in Logins, logins'[l] # None
      PROVE  Fresh(logins'[l].pair, logins'[l].user, users', issued', revoked')
  BY <1>1, <1>2, <1>4, <1>6
<1>7. HandsFresh'
  BY <1>5, <1>6 DEF HandsFresh
<1>8. ASSUME NEW l \in Logins, NEW m \in Logins, logins'[l] # None, logins'[m] # None,
             logins'[l].user = logins'[m].user, logins'[l].pair = logins'[m].pair, l # m
      PROVE  FALSE
  <2>1. CASE /\ logins[l] # None /\ logins'[l].user = logins[l].user
             /\ logins'[l].pair = logins[l].pair
             /\ logins[m] # None /\ logins'[m].user = logins[m].user
             /\ logins'[m].pair = logins[m].pair
    <3>1. HandsApart
      BY DEF Tokens
    <3>2. logins[l].user = logins[m].user /\ logins[l].pair = logins[m].pair
      BY <1>8, <2>1
    <3> QED BY <1>8, <2>1, <3>1, <3>2 DEF HandsApart
  <2>2. CASE logins'[l].user = u /\ logins'[l].pair = issued'[u] /\ logins'[m] = logins[m]
    <3>1. logins[m] # None /\ logins[m].user = u /\ logins[m].pair = issued'[u]
      BY <1>8, <2>2
    <3>2. Fresh(issued'[u], u, users, issued, revoked)
      BY <1>4, <3>1
    <3> QED BY <1>1, <3>2
  <2>3. CASE logins'[m].user = u /\ logins'[m].pair = issued'[u] /\ logins'[l] = logins[l]
    <3>1. logins[l] # None /\ logins[l].user = u /\ logins[l].pair = issued'[u]
      BY <1>8, <2>3
    <3>2. Fresh(issued'[u], u, users, issued, revoked)
      BY <1>4, <3>1
    <3> QED BY <1>1, <3>2
  <2>4. \/ logins[l] # None /\ logins'[l].user = logins[l].user /\ logins'[l].pair = logins[l].pair
        \/ logins'[l].user = u /\ logins'[l].pair = issued'[u] /\ logins'[m] = logins[m]
    BY <1>8
  <2>5. \/ logins[m] # None /\ logins'[m].user = logins[m].user /\ logins'[m].pair = logins[m].pair
        \/ logins'[m].user = u /\ logins'[m].pair = issued'[u] /\ logins'[l] = logins[l]
    BY <1>8
  <2> QED BY <2>1, <2>2, <2>3, <2>4, <2>5
<1>9. ASSUME NEW l \in Logins, NEW p \in Promises, logins'[l] # None, InHand(p)',
             logins'[l].user = Subject(p)', logins'[l].pair = refreshes'[p].pair
      PROVE  FALSE
  <2>1. Subject(p)' = Subject(p)
    BY <1>9 DEF InHand
  <2>2. CASE /\ InHand(p) /\ refreshes'[p].pair = refreshes[p].pair
             /\ logins[l] # None /\ logins'[l].user = logins[l].user
             /\ logins'[l].pair = logins[l].pair
    <3>1. HandsApart
      BY DEF Tokens
    <3>2. logins[l].user = Subject(p) /\ logins[l].pair = refreshes[p].pair
      BY <1>9, <2>1, <2>2
    <3> QED BY <2>2, <3>1, <3>2 DEF HandsApart
  <2>3. CASE /\ Subject(p) = u /\ refreshes'[p].pair = issued'[u]
             /\ logins[l] # None /\ logins'[l].user = logins[l].user
             /\ logins'[l].pair = logins[l].pair
    BY <1>1, <1>4, <1>9, <2>1, <2>3
  <2>4. CASE /\ logins'[l].user = u /\ logins'[l].pair = issued'[u]
             /\ InHand(p) /\ refreshes'[p].pair = refreshes[p].pair
    <3>1. Subject(p) = u /\ refreshes[p].pair = issued'[u]
      BY <1>9, <2>1, <2>4
    <3>2. Fresh(refreshes[p].pair, Subject(p), users, issued, revoked)
      BY <1>3, <2>4
    <3> QED BY <1>1, <3>1, <3>2
  <2> QED BY <1>9, <2>2, <2>3, <2>4
<1>10. HandsApart'
  BY <1>8, <1>9 DEF HandsApart
<1>11. \A w \in UserIds : issued[w] <= issued'[w] /\ issued'[w] \in Nat
  BY <1>0
<1>12. ASSUME NEW r \in revoked' PROVE r[2] \in 1 .. issued'[r[1]]
  <2>1. r \in revoked /\ r[1] \in UserIds
    BY DEF Inv, OutsideOK
  <2> QED BY <1>0, <1>11, <2>1 DEF Tokens, StoredKnown
<1>13. StoredKnown'
  BY <1>0, <1>11, <1>12 DEF Tokens, StoredKnown
<1>14. ASSUME NEW w \in UserIds, BeingReplaced(w) PROVE BeingReplaced(w)'
  <2>1. \A p \in Promises : refreshes[p] # None /\ Subject(p) = w /\ Half(w, refreshes[p]) =>
          refreshes'[p] = refreshes[p] /\ Subject(p)' = w
    OBVIOUS
  <2> QED BY <1>14, <2>1, ReplacedStill DEF Half
<1>15. StoredTokenNotRevoked'
  BY <1>14, StoredTokens DEF Tokens
<1> QED BY <1>7, <1>10, <1>13, <1>15 DEF Tokens

\* A pair is stored that the server has not revoked.
LEMMA SavedTokens ==
  ASSUME Inv, Tokens, SubjectsStay, NEW u \in UserIds, UNCHANGED revoked,
         HandsFresh' /\ HandsApart' /\ StoredKnown',
         <<u, users'[u].pair>> \notin revoked,
         \A w \in UserIds : w # u => users'[w] = users[w],
         halfStored' = halfStored \ {u},
         \A q \in Promises : refreshes[q] # None /\ Subject(q) # u => refreshes'[q] = refreshes[q],
         \A l \in Logins : logins[l] # None /\ logins[l].user # u => logins'[l] = logins[l]
  PROVE  Tokens'
<1>1. ASSUME NEW w \in UserIds, <<w, users'[w].pair>> \in revoked' PROVE BeingReplaced(w)'
  <2>1. w # u /\ users'[w] = users[w]
    BY <1>1
  <2>2. BeingReplaced(w)
    BY <1>1, <2>1, StoredTokens DEF Tokens
  <2>3. \A q \in Promises : refreshes[q] # None /\ Subject(q) = w =>
          refreshes'[q] = refreshes[q] /\ Subject(q)' = w
    BY <2>1 DEF SubjectsStay
  <2> QED BY <2>1, <2>2, <2>3, ReplacedStill DEF Half
<1>2. StoredTokenNotRevoked'
  BY <1>1, StoredTokens
<1> QED BY <1>2 DEF Tokens

LEMMA RefreshStepKeepsTokens ==
  ASSUME Inv, Valid, Tokens, SubjectsStay, NEW p \in Promises, RefreshStep(p)
  PROVE  Tokens'
<1> DEFINE u == Subject(p)
<1>1. refreshes[p] # None
  BY DEF RefreshStep, RefreshIssued, RefreshReads, RefreshSaves, RefreshFails, RefreshRejected
<1>2. /\ refreshes[p] \in Refresh /\ u \in UserIds /\ Subject(p)' = u
      /\ RefreshValid(refreshes[p], u, refused)
  BY <1>1, RefreshFields, SubjectType DEF Inv, Kept, Running, SubjectsStay, Valid
<1>3. \A q \in Promises : refreshes[q] # None /\ Subject(q) = u => q = p
  BY <1>1 DEF Inv, Kept, Running
<1>4. u = Subject(p)
  OBVIOUS
<1> HIDE DEF u
<1>5. CASE RefreshIssued(p)
  <2> DEFINE n == issued'[u]
             refresh == [refreshes[p] EXCEPT !.stage = "read", !.pair = n]
  <2>1. /\ issued[u] < MaxPairs /\ issued' = [issued EXCEPT ![u] = @ + 1]
        /\ UNCHANGED <<users, revoked, halfStored, logins>>
        /\ refreshes' = [refreshes EXCEPT ![p].stage = "read", ![p].pair = n]
        /\ refreshes[p].stage = "ask"
    BY <1>4, <1>5 DEF RefreshIssued, historyVars
  <2>2. n = issued'[u]
    OBVIOUS
  <2> HIDE DEF n
  <2>3. refreshes' = [refreshes EXCEPT ![p] = refresh]
    BY <1>2, <2>1 DEF Refresh, Inv, MemoryOK
  <2>4. refresh.pair = n
    BY <1>2 DEF Refresh
  <2> HIDE DEF refresh
  <2>5. /\ refreshes'[p] = refresh
        /\ \A q \in Promises : q # p => refreshes'[q] = refreshes[q]
    BY <2>3 DEF Inv, MemoryOK
  <2>6. \A q \in Promises : refreshes'[q] # None => Subject(q)' = Subject(q)
    BY <1>1, <2>5 DEF SubjectsStay
  <2>7. \A q \in Promises : q # p /\ InHand(q)' =>
          InHand(q) /\ refreshes'[q].pair = refreshes[q].pair
    BY <2>5 DEF InHand
  <2>8. \A q \in Promises : refreshes'[q] # None /\ Subject(q) = u => q = p
    BY <1>3, <2>5
  <2>9. \A q \in Promises : refreshes[q] # None /\ Subject(q) \in UserIds
          /\ Half(Subject(q), refreshes[q]) => refreshes'[q] = refreshes[q]
    BY <2>1, <2>5 DEF Half
  <2>10. refreshes'[p].pair = issued'[u] /\ Subject(p) = u
    BY <1>4, <2>2, <2>4, <2>5
  <2>11. \A q \in Promises : InHand(q)' =>
           \/ InHand(q) /\ refreshes'[q].pair = refreshes[q].pair
           \/ /\ Subject(q) = u /\ refreshes'[q].pair = issued'[u]
              /\ \A x \in Promises : refreshes'[x] # None /\ Subject(x) = u => x = q
    BY <2>7, <2>8, <2>10
  <2> QED BY <1>2, <2>1, <2>6, <2>9, <2>11, IssueKeepsTokens
<1>6. CASE RefreshReads(p)
  <2> DEFINE n == users[u].pair
             refresh == [refreshes[p] EXCEPT !.stage = "save", !.replaces = n]
  <2>1. /\ Revokes(u) /\ refreshes[p].stage = "read"
        /\ refreshes' = [refreshes EXCEPT ![p].stage = "save", ![p].replaces = n]
        /\ UNCHANGED <<users, logins, issued, halfStored>>
    BY <1>4, <1>6 DEF RefreshReads, twitchVars
  <2>2. n = users[u].pair
    OBVIOUS
  <2> HIDE DEF n
  <2>3. refreshes' = [refreshes EXCEPT ![p] = refresh]
    BY <1>2, <2>1 DEF Refresh, Inv, MemoryOK
  <2>4. /\ refresh.pair = refreshes[p].pair /\ refresh.failed = refreshes[p].failed
        /\ refresh.stage = "save" /\ refresh.replaces = n
    BY <1>2 DEF Refresh
  <2>12. n \in Pair
    BY <1>2, <2>2 DEF Inv, OutsideOK, User
  <2>13. refresh \in Refresh
    BY <1>2, <2>12 DEF Refresh
  <2> HIDE DEF refresh
  <2>14. refresh # None
    BY <2>13, UsersAssumption
  <2>5. /\ refreshes'[p] = refresh
        /\ \A q \in Promises : q # p => refreshes'[q] = refreshes[q]
    BY <2>3 DEF Inv, MemoryOK
  <2>6. \A q \in Promises : InHand(q)' =>
          InHand(q) /\ refreshes'[q].pair = refreshes[q].pair /\ Subject(q)' = Subject(q)
    BY <1>1, <2>1, <2>4, <2>5 DEF InHand, SubjectsStay
  <2>7. revoked' = revoked \cup (IF users[u].pair = EMPTY_TOKEN THEN {} ELSE {<<u, users[u].pair>>})
    BY <2>1 DEF Revokes
  <2>8. \A r \in revoked' : r \in revoked
          \/ \E w \in UserIds : r = <<w, users[w].pair>> /\ users[w].pair # 0
    BY <1>2, <2>7 DEF EMPTY_TOKEN
  <2>9. HandsFresh' /\ HandsApart' /\ StoredKnown'
    BY <2>1, <2>6, <2>8, HandsKept
  <2>10. ASSUME NEW w \in UserIds, <<w, users'[w].pair>> \in revoked' PROVE BeingReplaced(w)'
    <3>1. CASE w = u
      <4>1. /\ refreshes'[p] # None /\ refreshes'[p].stage = "save"
            /\ refreshes'[p].replaces = users'[u].pair
        BY <2>1, <2>2, <2>4, <2>5, <2>14
      <4> QED BY <1>2, <3>1, <4>1 DEF BeingReplaced, Half
    <3>2. CASE w # u
      <4>1. BeingReplaced(w)
        BY <2>1, <2>7, <2>10, <3>2, StoredTokens DEF Tokens
      <4>2. \A q \in Promises : refreshes[q] # None /\ Subject(q) = w =>
              refreshes'[q] = refreshes[q] /\ Subject(q)' = w
        BY <1>4, <2>5, <3>2 DEF SubjectsStay
      <4> QED BY <2>1, <4>1, <4>2, ReplacedStill DEF Half
    <3> QED BY <3>1, <3>2
  <2>11. StoredTokenNotRevoked'
    BY <2>10, StoredTokens
  <2> QED BY <2>9, <2>11 DEF Tokens
<1>7. CASE RefreshSaves(p)
  <2>1. /\ Saves(u, refreshes[p].pair, ~refreshes[p].failed) /\ refreshes[p].stage = "save"
        /\ refreshes' = [refreshes EXCEPT ![p] = None]
        /\ UNCHANGED <<logins, issued, revoked>>
    BY <1>4, <1>7 DEF RefreshSaves, twitchVars
  <2>2. /\ refreshes'[p] = None
        /\ \A q \in Promises : q # p => refreshes'[q] = refreshes[q]
    BY <2>1 DEF Inv, MemoryOK
  <2>3. /\ users'[u].pair = refreshes[p].pair
        /\ \A w \in UserIds : w # u => users'[w] = users[w]
        /\ halfStored' = halfStored \ {u}
    BY <1>2, <2>1 DEF Saves, Inv, OutsideOK
  <2>4. \A q \in Promises : InHand(q)' =>
          InHand(q) /\ refreshes'[q].pair = refreshes[q].pair /\ Subject(q)' = Subject(q) /\ q # p
    BY <2>2 DEF InHand, SubjectsStay
  <2>5. CASE refreshes[p].failed
    <3>1. users'[u].pair = 0 /\ <<u, users'[u].pair>> \notin revoked
      BY <1>2, <2>3, <2>5 DEF RefreshValid, EMPTY_TOKEN, Tokens, StoredKnown
    <3>2. \A w \in UserIds : users'[w].pair \in {users[w].pair, 0}
      BY <2>3, <3>1
    <3>3. HandsFresh' /\ HandsApart' /\ StoredKnown'
      BY <2>1, <2>4, <3>2, HandsKept
    <3> QED BY <1>2, <1>4, <2>1, <2>2, <2>3, <3>1, <3>3, SavedTokens
  <2>6. CASE ~refreshes[p].failed
    <3>1. InHand(p) /\ Fresh(refreshes[p].pair, u, users, issued, revoked)
      BY <1>1, <1>4, <2>1, <2>6 DEF InHand, Tokens, HandsFresh
    <3>2. /\ users'[u].pair \in 1 .. issued[u]
          /\ \A q \in Promises :
               InHand(q)' /\ Subject(q)' = u => refreshes'[q].pair # users'[u].pair
          /\ \A m \in Logins :
               logins'[m] # None /\ logins'[m].user = u => logins'[m].pair # users'[u].pair
      <4>1. users'[u].pair \in 1 .. issued[u]
        BY <2>3, <3>1 DEF Fresh
      <4>2. \A q \in Promises : InHand(q)' => Subject(q)' # u
        BY <1>3, <2>4 DEF InHand
      <4>3. \A m \in Logins : logins[m] # None /\ logins[m].user = u =>
              logins[m].pair # refreshes[p].pair
        BY <1>4, <3>1 DEF Tokens, HandsApart
      <4> QED BY <2>1, <2>3, <4>1, <4>2, <4>3
    <3>3. \A w \in UserIds :
            \/ users'[w].pair \in {users[w].pair, 0}
            \/ /\ users'[w].pair \in 1 .. issued[w]
               /\ \A q \in Promises :
                    InHand(q)' /\ Subject(q)' = w => refreshes'[q].pair # users'[w].pair
               /\ \A m \in Logins :
                    logins'[m] # None /\ logins'[m].user = w => logins'[m].pair # users'[w].pair
      BY <2>3, <3>2
    <3>4. HandsFresh' /\ HandsApart' /\ StoredKnown'
      BY <2>1, <2>4, <3>3, HandsKept
    <3>5. <<u, users'[u].pair>> \notin revoked
      BY <2>3, <3>1 DEF Fresh
    <3> QED BY <1>2, <1>4, <2>1, <2>2, <2>3, <3>4, <3>5, SavedTokens
  <2> QED BY <2>5, <2>6
<1>8. CASE RefreshFails(p) \/ RefreshRejected(p)
  <2>1. /\ LeavesHalf(u, refreshes[p]) /\ UNCHANGED <<users, logins, issued, revoked>>
        /\ \/ refreshes' = [refreshes EXCEPT ![p] = None]
           \/ refreshes' = [refreshes EXCEPT
                ![p] = [stage |-> "read", pair |-> EMPTY_TOKEN, failed |-> TRUE,
                        replaces |-> EMPTY_TOKEN]]
    BY <1>4, <1>8 DEF RefreshFails, RefreshRejected, twitchVars
  <2>2. /\ ~InHand(p)' /\ \A q \in Promises : q # p => refreshes'[q] = refreshes[q]
    BY <2>1 DEF InHand, Inv, MemoryOK
  <2>3. \A q \in Promises : InHand(q)' =>
          InHand(q) /\ refreshes'[q].pair = refreshes[q].pair /\ Subject(q)' = Subject(q)
    BY <2>2 DEF InHand, SubjectsStay
  <2>4. HandsFresh' /\ HandsApart' /\ StoredKnown'
    BY <2>1, <2>3, HandsKept
  <2>5. halfStored \subseteq halfStored' /\ (Half(u, refreshes[p]) => u \in halfStored')
    BY <2>1 DEF LeavesHalf
  <2>6. ASSUME NEW w \in UserIds, BeingReplaced(w) PROVE BeingReplaced(w)'
    <3>1. \A q \in Promises : refreshes[q] # None /\ Subject(q) = w /\ Half(w, refreshes[q]) =>
            \/ w \in halfStored'
            \/ refreshes'[q] = refreshes[q] /\ Subject(q)' = w
      BY <1>4, <2>2, <2>5 DEF SubjectsStay
    <3> QED BY <2>1, <2>5, <2>6, <3>1, ReplacedStill DEF Half
  <2>7. StoredTokenNotRevoked'
    BY <2>1, <2>6, StoredTokens DEF Tokens
  <2> QED BY <2>4, <2>7 DEF Tokens
<1> QED BY <1>5, <1>6, <1>7, <1>8 DEF RefreshStep

LEMMA LoginStepKeepsTokens ==
  ASSUME Inv, Valid, Tokens, NEW l \in Logins, LoginStep(l)
  PROVE  Tokens'
<1>1. UNCHANGED <<calls, refreshes>> /\ SubjectsStay
  BY DEF LoginStep, LoginBegins, LoginReads, LoginSaves, LoginFails, SubjectsStay, Subject
<1>2. \A q \in Promises : Subject(q)' = Subject(q) /\ InHand(q)' = InHand(q)
  BY <1>1 DEF Subject, InHand
<1>3. ASSUME NEW u \in UserIds, LoginBegins(l, u) PROVE Tokens'
  <2> DEFINE n == issued'[u]
             login == [user |-> u, stage |-> "read", pair |-> n, replaces |-> EMPTY_TOKEN]
  <2>1. /\ issued[u] < MaxPairs /\ issued' = [issued EXCEPT ![u] = @ + 1]
        /\ UNCHANGED <<users, revoked, halfStored>>
        /\ logins' = [logins EXCEPT ![l] = login] /\ logins[l] = None
    BY <1>3 DEF LoginBegins, historyVars
  <2>2. n = issued'[u]
    OBVIOUS
  <2> HIDE DEF n
  <2>3. login.user = u /\ login.pair = n
    OBVIOUS
  <2> HIDE DEF login
  <2>4. logins'[l] = login /\ \A m \in Logins : m # l => logins'[m] = logins[m]
    BY <2>1 DEF Inv, MemoryOK
  <2>5. \A m \in Logins : logins'[m] # None =>
          \/ /\ logins[m] # None
             /\ logins'[m].user = logins[m].user /\ logins'[m].pair = logins[m].pair
          \/ /\ logins'[m].user = u /\ logins'[m].pair = issued'[u]
             /\ \A q \in Promises : InHand(q)' =>
                  InHand(q) /\ refreshes'[q].pair = refreshes[q].pair
             /\ \A x \in Logins : x # m => logins'[x] = logins[x]
    BY <1>1, <1>2, <2>2, <2>3, <2>4
  <2>6. \A m \in Logins : logins[m] # None => logins'[m] = logins[m]
    BY <2>1, <2>4
  <2> QED BY <1>1, <1>2, <2>1, <2>5, <2>6, IssueKeepsTokens
<1>4. ASSUME logins[l] # None PROVE logins[l] \in Login /\ logins[l].user \in UserIds
  BY <1>4 DEF Inv, MemoryOK, Login
<1> DEFINE u == logins[l].user
<1>5. CASE LoginReads(l)
  <2> DEFINE n == users[u].pair
             login == [logins[l] EXCEPT !.stage = "save", !.replaces = n]
  <2>1. /\ Revokes(u) /\ logins[l] # None
        /\ logins' = [logins EXCEPT ![l].stage = "save", ![l].replaces = n]
        /\ UNCHANGED <<users, issued, halfStored>>
    BY <1>5 DEF LoginReads, twitchVars
  <2>2. n = users[u].pair /\ u = logins[l].user /\ u \in UserIds /\ logins[l] \in Login
    BY <1>4, <2>1
  <2> HIDE DEF n, u
  <2>3. logins' = [logins EXCEPT ![l] = login]
    BY <2>1, <2>2 DEF Login, Inv, MemoryOK
  <2>4. /\ login.pair = logins[l].pair /\ login.user = u
        /\ login.stage = "save" /\ login.replaces = n
    BY <2>2 DEF Login
  <2>5. n \in Pair
    BY <2>2 DEF Inv, OutsideOK, User
  <2>6. login \in Login
    BY <2>2, <2>5 DEF Login
  <2> HIDE DEF login
  <2>7. login # None
    BY <2>6, UsersAssumption
  <2>8. logins'[l] = login /\ \A m \in Logins : m # l => logins'[m] = logins[m]
    BY <2>3 DEF Inv, MemoryOK
  <2>9. \A m \in Logins : logins'[m] # None =>
          /\ logins[m] # None
          /\ logins'[m].pair = logins[m].pair /\ logins'[m].user = logins[m].user
    BY <2>1, <2>2, <2>4, <2>8
  <2>10. revoked' = revoked \cup (IF n = EMPTY_TOKEN THEN {} ELSE {<<u, n>>})
    BY <2>1, <2>2 DEF Revokes
  <2>11. \A r \in revoked' : r \in revoked
           \/ \E w \in UserIds : r = <<w, users[w].pair>> /\ users[w].pair # 0
    BY <2>2, <2>10 DEF EMPTY_TOKEN
  <2>12. HandsFresh' /\ HandsApart' /\ StoredKnown'
    BY <1>1, <1>2, <2>1, <2>9, <2>11, HandsKept
  <2>13. ASSUME NEW w \in UserIds, <<w, users'[w].pair>> \in revoked' PROVE BeingReplaced(w)'
    <3>1. CASE w = u
      <4>1. /\ logins'[l] # None /\ logins'[l].user = u /\ logins'[l].stage = "save"
            /\ logins'[l].replaces = users'[u].pair
        BY <2>1, <2>2, <2>4, <2>7, <2>8
      <4> QED BY <3>1, <4>1 DEF BeingReplaced, Half
    <3>2. CASE w # u
      <4>1. BeingReplaced(w)
        BY <2>1, <2>10, <2>13, <3>2, StoredTokens DEF Tokens
      <4>2. \A m \in Logins : logins[m] # None /\ logins[m].user = w => logins'[m] = logins[m]
        BY <2>2, <2>8, <3>2
      <4> QED BY <1>1, <1>2, <2>1, <4>1, <4>2, ReplacedStill DEF Half
    <3> QED BY <3>1, <3>2
  <2>14. StoredTokenNotRevoked'
    BY <2>13, StoredTokens
  <2> QED BY <2>12, <2>14 DEF Tokens
<1>6. CASE LoginSaves(l)
  <2>1. /\ Saves(u, logins[l].pair, TRUE) /\ logins[l] # None
        /\ logins' = [logins EXCEPT ![l] = None]
        /\ UNCHANGED <<issued, revoked>>
    BY <1>6 DEF LoginSaves, twitchVars
  <2>2. u = logins[l].user /\ u \in UserIds
    BY <1>4, <2>1
  <2> HIDE DEF u
  <2>3. logins'[l] = None /\ \A m \in Logins : m # l => logins'[m] = logins[m]
    BY <2>1 DEF Inv, MemoryOK
  <2>4. /\ users'[u].pair = logins[l].pair
        /\ \A w \in UserIds : w # u => users'[w] = users[w]
        /\ halfStored' = halfStored \ {u}
    BY <2>1, <2>2 DEF Saves, Inv, OutsideOK
  <2>5. Fresh(logins[l].pair, u, users, issued, revoked)
    BY <2>1, <2>2 DEF Tokens, HandsFresh
  <2>6. /\ users'[u].pair \in 1 .. issued[u]
        /\ \A q \in Promises :
             InHand(q)' /\ Subject(q)' = u => refreshes'[q].pair # users'[u].pair
        /\ \A m \in Logins :
             logins'[m] # None /\ logins'[m].user = u => logins'[m].pair # users'[u].pair
    <3>1. users'[u].pair \in 1 .. issued[u]
      BY <2>4, <2>5 DEF Fresh
    <3>2. \A q \in Promises : InHand(q) /\ Subject(q) = u => refreshes[q].pair # logins[l].pair
      BY <2>1, <2>2 DEF Tokens, HandsApart
    <3>3. \A m \in Logins : m # l /\ logins[m] # None /\ logins[m].user = u =>
            logins[m].pair # logins[l].pair
      BY <2>1, <2>2 DEF Tokens, HandsApart
    <3> QED BY <1>1, <1>2, <2>3, <2>4, <3>1, <3>2, <3>3
  <2>7. \A w \in UserIds :
          \/ users'[w].pair \in {users[w].pair, 0}
          \/ /\ users'[w].pair \in 1 .. issued[w]
             /\ \A q \in Promises :
                  InHand(q)' /\ Subject(q)' = w => refreshes'[q].pair # users'[w].pair
             /\ \A m \in Logins :
                  logins'[m] # None /\ logins'[m].user = w => logins'[m].pair # users'[w].pair
    BY <2>4, <2>6
  <2>8. \A m \in Logins : logins'[m] # None =>
          /\ logins[m] # None
          /\ logins'[m].pair = logins[m].pair /\ logins'[m].user = logins[m].user
    BY <2>3
  <2>9. HandsFresh' /\ HandsApart' /\ StoredKnown'
    BY <1>1, <1>2, <2>1, <2>7, <2>8, HandsKept
  <2>10. <<u, users'[u].pair>> \notin revoked
    BY <2>4, <2>5 DEF Fresh
  <2>11. \A m \in Logins : logins[m] # None /\ logins[m].user # u => logins'[m] = logins[m]
    BY <2>2, <2>3
  <2> QED BY <1>1, <2>1, <2>2, <2>4, <2>9, <2>10, <2>11, SavedTokens
<1>7. CASE LoginFails(l)
  <2>1. /\ LeavesHalf(u, logins[l]) /\ logins[l] # None
        /\ logins' = [logins EXCEPT ![l] = None]
        /\ UNCHANGED <<users, issued, revoked>>
    BY <1>7 DEF LoginFails, twitchVars
  <2>2. u = logins[l].user /\ u \in UserIds
    BY <1>4, <2>1
  <2> HIDE DEF u
  <2>3. logins'[l] = None /\ \A m \in Logins : m # l => logins'[m] = logins[m]
    BY <2>1 DEF Inv, MemoryOK
  <2>4. \A m \in Logins : logins'[m] # None =>
          /\ logins[m] # None
          /\ logins'[m].pair = logins[m].pair /\ logins'[m].user = logins[m].user
    BY <2>3
  <2>5. HandsFresh' /\ HandsApart' /\ StoredKnown'
    BY <1>1, <1>2, <2>1, <2>4, HandsKept
  <2>6. halfStored \subseteq halfStored' /\ (Half(u, logins[l]) => u \in halfStored')
    BY <2>1 DEF LeavesHalf
  <2>7. ASSUME NEW w \in UserIds, BeingReplaced(w) PROVE BeingReplaced(w)'
    <3>1. \A m \in Logins : logins[m] # None /\ logins[m].user = w /\ Half(w, logins[m]) =>
            w \in halfStored' \/ logins'[m] = logins[m]
      BY <2>2, <2>3, <2>6
    <3> QED BY <1>1, <1>2, <2>1, <2>6, <2>7, <3>1, ReplacedStill DEF Half
  <2>8. StoredTokenNotRevoked'
    BY <2>1, <2>7, StoredTokens DEF Tokens
  <2> QED BY <2>5, <2>8 DEF Tokens
<1> QED BY <1>3, <1>5, <1>6, <1>7 DEF LoginStep

LEMMA TokensInit == Init => Tokens
<1> SUFFICES ASSUME Init PROVE Tokens
  OBVIOUS
<1>1. /\ \A p \in Promises : refreshes[p] = None
      /\ \A l \in Logins : logins[l] = None
      /\ revoked = {}
      /\ \A u \in UserIds : issued[u] = 1
  BY DEF Init, Promises
<1>2. \A u \in UserIds : users[u].pair = 1
  BY DEF Init
<1>3. HandsFresh /\ HandsApart /\ StoredTokenNotRevoked
  BY <1>1 DEF HandsFresh, HandsApart, InHand, StoredTokenNotRevoked
<1>4. StoredKnown
  BY <1>1, <1>2 DEF StoredKnown
<1> QED BY <1>3, <1>4 DEF Tokens

LEMMA RestartKeepsTokens ==
  ASSUME Inv, Tokens, Restart
  PROVE  Tokens'
<1>1. /\ \A p \in Promises : refreshes'[p] = None
      /\ \A l \in Logins : logins'[l] = None
      /\ UNCHANGED <<users, issued, revoked>>
  BY DEF Restart, Promises, twitchVars
<1>2. HandsFresh' /\ HandsApart' /\ StoredKnown'
  BY <1>1 DEF Tokens, HandsFresh, HandsApart, StoredKnown, InHand
<1>3. \A u \in UserIds : BeingReplaced(u) => u \in halfStored'
  BY DEF Restart, BeingReplaced, Promises
<1>4. StoredTokenNotRevoked'
  BY <1>1, <1>3, StoredTokens DEF Tokens, BeingReplaced
<1> QED BY <1>2, <1>4 DEF Tokens

LEMMA TokensStep == Inv /\ Valid /\ Tokens /\ [Next]_vars => Tokens'
<1> SUFFICES ASSUME Inv, Valid, Tokens, [Next]_vars PROVE Tokens'
  OBVIOUS
<1>1. ASSUME NEW c \in Calls, CallStep(c) PROVE Tokens'
  <2>1. SubjectsStay
    BY <1>1, CallStepSubjects
  <2>2. \A side \in Side : <<c, side>> \in Promises
    BY DEF Promises
  <2>3. CASE CallEnds(c)
    BY <2>1, <2>3, QuietKeepsTokens DEF CallEnds, historyVars, twitchVars
  <2>4. ASSUME NEW p \in Promises, BranchStep(p) PROVE Tokens'
    BY <2>1, <2>4, QuietKeepsTokens DEF BranchStep, ReadsCache, Asks, historyVars, twitchVars
  <2> QED BY <1>1, <2>1, <2>2, <2>3, <2>4, LookupStepKeepsTokens, RefreshStepKeepsTokens DEF CallStep
<1>2. ASSUME NEW c \in Calls, NEW call \in CallsOf, CallBegins(c, call) PROVE Tokens'
  <2>1. SubjectsStay
    BY <1>2, CallStepSubjects
  <2> QED BY <1>2, <2>1, QuietKeepsTokens DEF CallBegins, historyVars, twitchVars
<1>3. CASE \/ \E u \in UserIds, n \in Pair : TokenExpires(u, n)
           \/ \E f \in Facts : RoleChanges(f)
           \/ ClockTicks \/ UNCHANGED vars
  <2>1. UNCHANGED <<users, calls, refreshes, logins, refused, revoked, halfStored, issued>>
    BY <1>3, WorldSubjects
  <2>2. SubjectsStay
    BY <2>1 DEF SubjectsStay, Subject
  <2> QED BY <2>1, <2>2, QuietKeepsTokens
<1> QED BY <1>1, <1>2, <1>3, RestartKeepsTokens, LoginStepKeepsTokens DEF Next

----------------------------------------------------------------------------
(* Roles are held, or have been lately                                      *)

\* What is known of a fact that was true slack ago.
Knows(f, slack) == f \in Facts /\ (ago[f] # None => ago[f] <= slack)

\* What the cache says of a user has been true, at most MaxDelay before the entry was set.
CacheTrue ==
  \A k \in CacheKeys : cache[k] # None =>
    \A u \in cache[k].users : Knows(<<k[1], k[2], u>>, cache[k].age + MaxDelay)

\* How old the answer of a request was when the request was sent.
Before(lookup) == IF lookup.stage = "answered" THEN 0 ELSE CACHE_TTL - 1 + MaxDelay

LookupsTrue ==
  \A s \in Slots : lookups[s] # None =>
    \A u \in lookups[s].users :
      Knows(<<s[3], lookups[s].channel, u>>, lookups[s].age + Before(lookups[s]))

AnswersTrue == CacheTrue /\ LookupsTrue

LEMMA CacheFields ==
  ASSUME Inv, NEW k \in CacheKeys, cache[k] # None
  PROVE  cache[k] \in CacheEntry /\ cache[k].age \in 0 .. CACHE_TTL - 1
BY DEF Inv, MemoryOK, CacheEntry

LEMMA AgoTypes ==
  ASSUME Inv, NEW f \in Facts
  PROVE  ago[f] # None => ago[f] \in Nat
BY PairFacts DEF Inv, OutsideOK

LEMMA KnowsLonger ==
  ASSUME Inv, NEW f, NEW few \in Nat, NEW many \in Nat, Knows(f, few), few <= many
  PROVE  Knows(f, many)
BY AgoTypes DEF Knows

LEMMA SlackTypes ==
  ASSUME Inv
  PROVE  /\ \A k \in CacheKeys : cache[k] # None => cache[k].age + MaxDelay \in Nat
         /\ \A s \in Slots : lookups[s] # None => /\ Before(lookups[s]) \in Nat
                                                  /\ lookups[s].age \in Nat
BY PairFacts, CacheFields, LookupFields DEF Before

LEMMA AnswersTrueInit == Init => AnswersTrue
BY DEF Init, AnswersTrue, CacheTrue, LookupsTrue

\* Twitch is asked, or not; the clock stands.  New entries say what is known.
LEMMA AnswersStayTrue ==
  ASSUME AnswersTrue, UNCHANGED ago,
         \A k \in CacheKeys : cache'[k] = cache[k] \/ cache'[k] = None
           \/ \A u \in cache'[k].users : Knows(<<k[1], k[2], u>>, cache'[k].age + MaxDelay),
         \A s \in Slots : lookups'[s] = lookups[s] \/ lookups'[s] = None
           \/ \A u \in lookups'[s].users :
                Knows(<<s[3], lookups'[s].channel, u>>, lookups'[s].age + Before(lookups'[s]))
  PROVE  AnswersTrue'
<1>1. \A f, slack : Knows(f, slack)' <=> f' \in Facts /\ (ago[f'] # None => ago[f'] <= slack')
  BY DEF Knows
<1>2. CacheTrue'
  BY DEF AnswersTrue, CacheTrue, Knows
<1>3. LookupsTrue'
  BY DEF AnswersTrue, LookupsTrue, Knows, Before
<1> QED BY <1>2, <1>3 DEF AnswersTrue

\* A branch finds in the cache what is known.
LEMMA CachedKnown ==
  ASSUME Inv, AnswersTrue, NEW p \in Promises, calls[p[1]] # None, NEW role \in Claims(p),
         Cached(p, role) # None, NEW u \in Cached(p, role).users
  PROVE  Knows(<<role, calls[p[1]].channel, u>>, CACHE_TTL - 1 + MaxDelay)
<1> DEFINE k == CacheKey(role, calls[p[1]].channel, calls[p[1]].user)
<1>1. k \in CacheKeys /\ Cached(p, role) = cache[k]
  BY CachedType DEF CachedFor
<1>2. k[1] = role /\ k[2] = calls[p[1]].channel
  BY DEF CacheKey
<1> HIDE DEF k
<1>3. Knows(<<k[1], k[2], u>>, cache[k].age + MaxDelay)
  BY <1>1 DEF AnswersTrue, CacheTrue
<1>4. cache[k].age \in 0 .. CACHE_TTL - 1
  BY <1>1, CacheFields
<1>5. /\ cache[k].age + MaxDelay \in Nat /\ CACHE_TTL - 1 + MaxDelay \in Nat
      /\ cache[k].age + MaxDelay <= CACHE_TTL - 1 + MaxDelay
  BY <1>4, PairFacts
<1>6. Knows(<<role, calls[p[1]].channel, u>>, cache[k].age + MaxDelay)
  BY <1>2, <1>3
<1> QED BY <1>5, <1>6, KnowsLonger

LEMMA AsksTrue ==
  ASSUME Inv, AnswersTrue, NEW p \in Promises, Asks(p)
  PROVE  AnswersTrue'
<1>1. calls[p[1]] # None /\ UNCHANGED <<cache, ago>>
  BY DEF Asks, BranchAt, twitchVars
<1>2. ASSUME NEW s \in Slots, lookups'[s] # lookups[s], NEW u \in lookups'[s].users
      PROVE  Knows(<<s[3], lookups'[s].channel, u>>, lookups'[s].age + Before(lookups'[s]))
  <2>1. s[3] \in Claims(p) /\ lookups'[s] = LooksUp(p, s[3])
    BY <1>2 DEF Asks
  <2>2. /\ Cached(p, s[3]) # None /\ u \in Cached(p, s[3]).users
        /\ LooksUp(p, s[3]).stage = "got" /\ LooksUp(p, s[3]).age = 0
        /\ LooksUp(p, s[3]).channel = calls[p[1]].channel
    BY <1>2, <2>1 DEF LooksUp
  <2>3. Knows(<<s[3], calls[p[1]].channel, u>>, CACHE_TTL - 1 + MaxDelay)
    BY <1>1, <2>1, <2>2, CachedKnown
  <2>4. lookups'[s].age + Before(lookups'[s]) = CACHE_TTL - 1 + MaxDelay
    BY <2>1, <2>2, PairFacts DEF Before
  <2> QED BY <2>1, <2>2, <2>3, <2>4
<1> QED BY <1>1, <1>2, AnswersStayTrue

LEMMA TwitchAnswersTrue ==
  ASSUME Inv, AnswersTrue, NEW s \in Slots, TwitchAnswers(s)
  PROVE  AnswersTrue'
<1> DEFINE holders == Holders(s[3], lookups[s].channel, lookups[s].user)
           answer == [lookups[s] EXCEPT !.stage = "answered", !.users = holders]
<1>1. /\ lookups[s] # None /\ UNCHANGED <<cache, ago>>
      /\ lookups' = [lookups EXCEPT ![s].stage = "answered", ![s].users = holders]
  BY DEF TwitchAnswers, LookupAt, twitchVars
<1>2. \A u \in holders : LET f == <<s[3], lookups[s].channel, u>>
                         IN f \in Facts /\ ago[f] = None
  BY DEF Holders, Holds
<1>3. lookups[s] \in Lookup
  BY <1>1, LookupFields
<1> HIDE DEF holders
<1>4. /\ answer.stage = "answered" /\ answer.users = holders
      /\ answer.channel = lookups[s].channel
  BY <1>3 DEF Lookup
<1>5. lookups' = [lookups EXCEPT ![s] = answer]
  BY <1>1 DEF Inv, MemoryOK
<1> HIDE DEF answer
<1>6. \A t \in Slots : lookups'[t] = lookups[t] \/ (t = s /\ lookups'[t] = answer)
  BY <1>5 DEF Inv, MemoryOK
<1>7. \A u \in answer.users :
        Knows(<<s[3], answer.channel, u>>, answer.age + Before(answer))
  BY <1>2, <1>4 DEF Knows
<1> QED BY <1>1, <1>6, <1>7, AnswersStayTrue

\* What arrives is known, for as long as the request has been under way.
ArrivesKnown(s, who) ==
  \A u \in who : Knows(<<s[3], lookups[s].channel, u>>, lookups[s].age)

LEMMA ArrivesTrue ==
  ASSUME Inv, AnswersTrue, NEW s \in Slots, lookups[s] # None, NEW who \in SUBSET UserIds,
         ArrivesKnown(s, who), Arrives(s, who)
  PROVE  AnswersTrue'
<1> DEFINE key == CacheKey(s[3], lookups[s].channel, lookups[s].user)
           entry == [users |-> who, age |-> 0]
           got == [lookups[s] EXCEPT !.stage = "got", !.users = who]
<1>1. UNCHANGED ago
  BY DEF Arrives, twitchVars
<1>2. lookups[s] \in Lookup /\ lookups[s].age \in 0 .. MaxDelay
  BY LookupFields
<1>3. cache' = cache \/ cache' = [cache EXCEPT ![key] = entry]
  BY DEF Arrives
<1>4. Leaves(s) \/ lookups' = [lookups EXCEPT ![s].stage = "got", ![s].users = who]
  BY DEF Arrives
<1>5. key[1] = s[3] /\ key[2] = lookups[s].channel /\ entry.users = who /\ entry.age = 0
  BY DEF CacheKey
<1>6. /\ got.stage = "got" /\ got.users = who /\ got.channel = lookups[s].channel
      /\ got.age = lookups[s].age
  BY <1>2 DEF Lookup
<1>7. \A t \in Slots : lookups'[t] = lookups[t] \/ lookups'[t] = None
        \/ (t = s /\ lookups'[t] = got)
  BY <1>4 DEF Leaves, Inv, MemoryOK
<1> HIDE DEF key, entry, got
<1>8. \A k \in CacheKeys : cache'[k] = cache[k] \/ (k = key /\ cache'[k] = entry)
  BY <1>3 DEF Inv, MemoryOK
<1>9. ASSUME NEW u \in who
      PROVE  /\ Knows(<<key[1], key[2], u>>, entry.age + MaxDelay)
             /\ Knows(<<s[3], got.channel, u>>, got.age + Before(got))
  <2>1. Knows(<<s[3], lookups[s].channel, u>>, lookups[s].age)
    BY DEF ArrivesKnown
  <2>2. /\ lookups[s].age \in Nat /\ entry.age + MaxDelay \in Nat
        /\ lookups[s].age <= entry.age + MaxDelay
    BY <1>2, <1>5, PairFacts
  <2>3. Before(got) \in Nat
    BY <1>6, PairFacts DEF Before
  <2>4. got.age + Before(got) \in Nat /\ lookups[s].age <= got.age + Before(got)
    BY <1>2, <1>6, <2>3
  <2>5. Knows(<<s[3], lookups[s].channel, u>>, entry.age + MaxDelay)
    BY <2>1, <2>2, KnowsLonger
  <2>6. Knows(<<s[3], lookups[s].channel, u>>, got.age + Before(got))
    BY <2>1, <2>2, <2>4, KnowsLonger
  <2> QED BY <1>5, <1>6, <2>5, <2>6
<1>10. \A k \in CacheKeys : cache'[k] = cache[k] \/ cache'[k] = None
         \/ \A u \in cache'[k].users : Knows(<<k[1], k[2], u>>, cache'[k].age + MaxDelay)
  BY <1>5, <1>8, <1>9
<1>11. \A t \in Slots : lookups'[t] = lookups[t] \/ lookups'[t] = None
         \/ \A u \in lookups'[t].users :
              Knows(<<t[3], lookups'[t].channel, u>>, lookups'[t].age + Before(lookups'[t]))
  BY <1>6, <1>7, <1>9
<1> QED BY <1>1, <1>10, <1>11, AnswersStayTrue

LEMMA AnswerKnown ==
  ASSUME Inv, AnswersTrue, NEW s \in Slots, LookupAt(s, "answered")
  PROVE  ArrivesKnown(s, lookups[s].users)
<1>1. lookups[s] # None /\ Before(lookups[s]) = 0
  BY DEF LookupAt, Before
<1>2. lookups[s].age + Before(lookups[s]) = lookups[s].age
  BY <1>1, SlackTypes
<1> QED BY <1>1, <1>2 DEF AnswersTrue, LookupsTrue, ArrivesKnown

LEMMA LookupStepTrue ==
  ASSUME Inv, AnswersTrue, NEW s \in Slots, LookupStep(s)
  PROVE  AnswersTrue'
<1>1. lookups[s] # None
  BY DEF LookupStep, TwitchAnswers, AnswerArrives, ErrorArrives, TwitchUnreachable, RefreshStarts,
         RefreshJoined, Unauthorized, LookupAt
<1>2. CASE AnswerArrives(s)
  BY <1>1, <1>2, LookupFields, AnswerKnown, ArrivesTrue DEF AnswerArrives
<1>3. CASE ErrorArrives(s)
  <2>1. PICK who \in SUBSET UserIds : who = {}
    OBVIOUS
  <2>2. ArrivesKnown(s, who)
    BY <2>1 DEF ArrivesKnown
  <2> QED BY <1>1, <1>3, <2>1, <2>2, ArrivesTrue DEF ErrorArrives
<1>4. CASE TwitchUnreachable(s) \/ RefreshStarts(s) \/ RefreshJoined(s)
  <2>1. Leaves(s) /\ UNCHANGED <<cache, ago>>
    BY <1>4 DEF TwitchUnreachable, RefreshStarts, RefreshJoined, twitchVars
  <2>2. \A t \in Slots : lookups'[t] = lookups[t] \/ lookups'[t] = None
    BY <2>1 DEF Leaves
  <2> QED BY <2>1, <2>2, AnswersStayTrue
<1> QED BY <1>2, <1>3, <1>4, TwitchAnswersTrue DEF LookupStep

\* The clock: what is known grows old, with what it is known from.
LEMMA KnowsOlder ==
  ASSUME Inv, ClockTicks, NEW f, NEW slack \in Nat, NEW more \in Nat, Knows(f, slack),
         more = slack + 1
  PROVE  f \in Facts /\ (ago'[f] # None => ago'[f] <= more)
<1>1. f \in Facts /\ (ago[f] # None => ago[f] <= slack)
  BY DEF Knows
<1>2. ago[f] # None => ago[f] \in Nat
  BY <1>1, AgoTypes
<1>3. ago'[f] = IF ago[f] \in 0 .. LongAgo - 1 THEN ago[f] + 1 ELSE ago[f]
  BY <1>1 DEF ClockTicks
<1>4. CASE ago[f] = None
  BY <1>1, <1>3, <1>4, PairFacts, UsersAssumption
<1>5. CASE ago[f] # None
  BY <1>1, <1>2, <1>3, <1>5
<1> QED BY <1>4, <1>5

LEMMA ClockTrue ==
  ASSUME Inv, AnswersTrue, ClockTicks
  PROVE  AnswersTrue'
<1>1. ASSUME NEW k \in CacheKeys, cache'[k] # None, NEW u \in cache'[k].users
      PROVE  LET f == <<k[1], k[2], u>>
             IN f \in Facts /\ (ago'[f] # None => ago'[f] <= cache'[k].age + MaxDelay)
  <2>1. cache[k] # None /\ cache'[k] = [cache[k] EXCEPT !.age = @ + 1]
    BY <1>1 DEF ClockTicks, Older
  <2>2. cache[k] \in CacheEntry /\ cache[k].age \in Nat
    BY <2>1, CacheFields, PairFacts
  <2>3. cache'[k].users = cache[k].users /\ cache'[k].age = cache[k].age + 1
    BY <2>1, <2>2 DEF CacheEntry
  <2>4. Knows(<<k[1], k[2], u>>, cache[k].age + MaxDelay)
    BY <1>1, <2>1, <2>3 DEF AnswersTrue, CacheTrue
  <2>5. PICK slack \in Nat, more \in Nat :
          /\ slack = cache[k].age + MaxDelay /\ more = cache'[k].age + MaxDelay
          /\ more = slack + 1
    BY <2>2, <2>3, PairFacts
  <2> QED BY <2>4, <2>5, KnowsOlder
<1>2. ASSUME NEW s \in Slots, lookups'[s] # None, NEW u \in lookups'[s].users
      PROVE  LET f == <<s[3], lookups'[s].channel, u>>
             IN f \in Facts /\ (ago'[f] # None => ago'[f] <= lookups'[s].age + Before(lookups'[s]))
  <2>1. lookups[s] # None /\ lookups'[s] = [lookups[s] EXCEPT !.age = @ + 1]
    BY <1>2 DEF ClockTicks
  <2>2. lookups[s] \in Lookup /\ lookups[s].age \in Nat /\ Before(lookups[s]) \in Nat
    BY <2>1, LookupFields, SlackTypes
  <2>3. /\ lookups'[s].users = lookups[s].users /\ lookups'[s].age = lookups[s].age + 1
        /\ lookups'[s].channel = lookups[s].channel /\ lookups'[s].stage = lookups[s].stage
    BY <2>1, <2>2 DEF Lookup
  <2>4. Before(lookups'[s]) = Before(lookups[s])
    BY <2>3 DEF Before
  <2>5. Knows(<<s[3], lookups[s].channel, u>>, lookups[s].age + Before(lookups[s]))
    BY <1>2, <2>1, <2>3 DEF AnswersTrue, LookupsTrue
  <2>6. PICK slack \in Nat, more \in Nat :
          /\ slack = lookups[s].age + Before(lookups[s])
          /\ more = lookups'[s].age + Before(lookups'[s])
          /\ more = slack + 1
    BY <2>2, <2>3, <2>4
  <2> QED BY <2>3, <2>5, <2>6, KnowsOlder
<1>3. CacheTrue'
  BY <1>1 DEF CacheTrue, Knows
<1>4. LookupsTrue'
  BY <1>2 DEF LookupsTrue, Knows
<1> QED BY <1>3, <1>4 DEF AnswersTrue

LEMMA RoleChangesTrue ==
  ASSUME Inv, AnswersTrue, NEW f \in Facts, RoleChanges(f)
  PROVE  AnswersTrue'
<1>1. UNCHANGED <<cache, lookups>> /\ \A g \in Facts : ago'[g] # None => ago'[g] \in {0, ago[g]}
  BY DEF RoleChanges, Inv, OutsideOK
<1>2. ASSUME NEW g, NEW slack \in Nat, Knows(g, slack)
      PROVE  g \in Facts /\ (ago'[g] # None => ago'[g] <= slack)
  <2>1. g \in Facts /\ (ago[g] # None => ago[g] <= slack)
    BY <1>2 DEF Knows
  <2>2. CASE ago'[g] = 0
    BY <2>1, <2>2
  <2>3. CASE ago'[g] = ago[g]
    BY <2>1, <2>3
  <2> QED BY <1>1, <2>1, <2>2, <2>3
<1>3. ASSUME NEW k \in CacheKeys, cache[k] # None, NEW u \in cache[k].users
      PROVE  LET g == <<k[1], k[2], u>>
             IN g \in Facts /\ (ago'[g] # None => ago'[g] <= cache[k].age + MaxDelay)
  <2>1. Knows(<<k[1], k[2], u>>, cache[k].age + MaxDelay) /\ cache[k].age + MaxDelay \in Nat
    BY <1>3, SlackTypes DEF AnswersTrue, CacheTrue
  <2> QED BY <1>2, <2>1
<1>4. ASSUME NEW s \in Slots, lookups[s] # None, NEW u \in lookups[s].users
      PROVE  LET g == <<s[3], lookups[s].channel, u>>
             IN g \in Facts /\ (ago'[g] # None => ago'[g] <= lookups[s].age + Before(lookups[s]))
  <2>1. /\ Knows(<<s[3], lookups[s].channel, u>>, lookups[s].age + Before(lookups[s]))
        /\ lookups[s].age + Before(lookups[s]) \in Nat
    BY <1>4, SlackTypes DEF AnswersTrue, LookupsTrue
  <2> QED BY <1>2, <2>1
<1>5. CacheTrue'
  BY <1>1, <1>3 DEF CacheTrue, Knows
<1>6. LookupsTrue'
  BY <1>1, <1>4 DEF LookupsTrue, Knows, Before
<1> QED BY <1>5, <1>6 DEF AnswersTrue

LEMMA AnswersTrueStep == Inv /\ AnswersTrue /\ [Next]_vars => AnswersTrue'
<1> SUFFICES ASSUME Inv, AnswersTrue, [Next]_vars PROVE AnswersTrue'
  OBVIOUS
<1>1. CASE UNCHANGED <<cache, lookups, ago>>
  BY <1>1, AnswersStayTrue
<1>2. ASSUME NEW c \in Calls, CallStep(c) PROVE AnswersTrue'
  <2>1. \A side \in Side : <<c, side>> \in Promises
    BY DEF Promises
  <2>2. ASSUME NEW p \in Promises, BranchStep(p) PROVE AnswersTrue'
    BY <1>1, <2>2, AsksTrue DEF BranchStep, ReadsCache, twitchVars
  <2>3. ASSUME NEW p, RefreshStep(p) PROVE AnswersTrue'
    BY <1>1, <2>3 DEF RefreshStep, RefreshIssued, RefreshReads, RefreshSaves, RefreshFails,
       RefreshRejected, twitchVars
  <2>4. CASE CallEnds(c)
    BY <1>1, <2>4 DEF CallEnds, twitchVars
  <2> QED BY <1>2, <2>1, <2>2, <2>3, <2>4, LookupStepTrue DEF CallStep
<1>3. ASSUME NEW c \in Calls, NEW call, CallBegins(c, call) PROVE AnswersTrue'
  BY <1>1, <1>3 DEF CallBegins, twitchVars
<1>4. ASSUME NEW l \in Logins, LoginStep(l) PROVE AnswersTrue'
  BY <1>1, <1>4 DEF LoginStep, LoginBegins, LoginReads, LoginSaves, LoginFails, twitchVars
<1>5. ASSUME NEW u \in UserIds, NEW n \in Pair, TokenExpires(u, n) PROVE AnswersTrue'
  BY <1>1, <1>5 DEF TokenExpires
<1>6. CASE Restart
  BY <1>6 DEF Restart, AnswersTrue, CacheTrue, LookupsTrue
<1>7. CASE UNCHANGED vars
  BY <1>1, <1>7 DEF vars, twitchVars
<1> QED BY <1>2, <1>3, <1>4, <1>5, <1>6, <1>7, RoleChangesTrue, ClockTrue DEF Next

\* What a step adds to the roles of a call that goes on.
Gained(c) == IF calls[c] # None /\ calls'[c] # None THEN calls'[c].roles \ calls[c].roles ELSE {}

LEMMA BranchGains ==
  ASSUME Inv, NEW p \in Promises, NEW b,
         calls' = [calls EXCEPT ![p[1]].at[p[2]] = b]
  PROVE  \A c \in Calls : Gained(c) = {}
<1>1. \A c \in Calls : calls[c] # None => calls[c] \in Call
  BY DEF Inv, CallsOK
<1> QED BY <1>1 DEF Gained, Call, Inv, CallsOK

LEMMA WaitGains ==
  ASSUME Inv, NEW p \in Promises, NEW q, WaitsFor(p, q)
  PROVE  \A c \in Calls : Gained(c) = {}
<1> DEFINE b == [calls[p[1]].at[p[2]] EXCEPT !.stage = "wait", !.token = EMPTY_TOKEN,
                                            !.promise = q]
<1>1. calls' = [calls EXCEPT ![p[1]].at[p[2]] = b]
  BY DEF WaitsFor
<1> HIDE DEF b
<1> QED BY <1>1, BranchGains

LEMMA AskGains ==
  ASSUME Inv, NEW p \in Promises, Asks(p)
  PROVE  \A c \in Calls : Gained(c) = {}
<1> DEFINE b == [calls[p[1]].at[p[2]] EXCEPT !.stage = "asked"]
<1>1. calls[p[1]] \in Call /\ p[1] \in Calls /\ p[2] \in Side
  BY PromiseParts DEF Asks, BranchAt, Inv, CallsOK
<1>2. calls' = [calls EXCEPT ![p[1]].at[p[2]] = b]
  BY <1>1 DEF Asks, Call, Inv, CallsOK
<1> HIDE DEF b
<1> QED BY <1>2, BranchGains

LEMMA SettledGains ==
  ASSUME Inv, NEW p \in Promises, NEW token, Resolves(p, token)
  PROVE  \A c \in Calls : Gained(c) = {}
<1>1. \A c \in Calls : calls[c] # None => calls[c] \in Call
  BY DEF Inv, CallsOK
<1> QED BY <1>1 DEF Gained, Call, Resolves

LEMMA GoesOnGains ==
  ASSUME Inv, NEW p \in Promises, calls[p[1]] # None, NEW gains, GoesOn(p, gains), NEW c \in Calls
  PROVE  Gained(c) \subseteq {role \in gains : c = p[1]}
<1>1. calls[p[1]] \in Call /\ p[1] \in Calls
  BY PromiseParts DEF Inv, CallsOK
<1>2. CASE c = p[1]
  BY <1>1, <1>2 DEF Gained, GoesOn, Inv, CallsOK, Call
<1>3. CASE c # p[1]
  BY <1>1, <1>3 DEF Gained, GoesOn, Inv, CallsOK
<1> QED BY <1>2, <1>3

\* A role of a call that is known, and has not been lost for long.
Lately(c, role) ==
  LET since == ago[<<role, calls[c].channel, calls[c].user>>]
  IN since = None \/ since < CACHE_TTL + 2 * MaxDelay

LEMMA KnownLately ==
  ASSUME Inv, NEW c, NEW role, NEW slack \in Nat, slack < LongAgo,
         Knows(<<role, calls[c].channel, calls[c].user>>, slack)
  PROVE  Lately(c, role)
<1> DEFINE f == <<role, calls[c].channel, calls[c].user>>
<1>1. f \in Facts /\ (ago[f] # None => ago[f] <= slack)
  BY DEF Knows
<1> HIDE DEF f
<1>2. ago[f] = None \/ ago[f] < CACHE_TTL + 2 * MaxDelay
  BY <1>1, AgoTypes, PairFacts
<1> QED BY <1>2 DEF Lately, f

LEMMA BranchGainsLately ==
  ASSUME Inv, AnswersTrue, NEW p \in Promises, BranchStep(p), NEW c \in Calls,
         NEW role \in Gained(c)
  PROVE  Lately(c, role)
<1>1. ReadsCache(p)
  BY AskGains DEF BranchStep
<1>2. calls[p[1]] # None /\ AllCached(p)
  BY <1>1 DEF ReadsCache, BranchAt
<1> DEFINE gains == {r \in Claims(p) : calls[p[1]].user \in Cached(p, r).users}
<1>3. GoesOn(p, gains)
  BY <1>1 DEF ReadsCache
<1> HIDE DEF gains
<1>4. c = p[1] /\ role \in gains
  BY <1>2, <1>3, GoesOnGains
<1>5. role \in Claims(p) /\ Cached(p, role) # None /\ calls[p[1]].user \in Cached(p, role).users
  BY <1>2, <1>4 DEF gains, AllCached
<1>6. Knows(<<role, calls[p[1]].channel, calls[p[1]].user>>, CACHE_TTL - 1 + MaxDelay)
  BY <1>2, <1>5, CachedKnown
<1>7. CACHE_TTL - 1 + MaxDelay \in Nat /\ CACHE_TTL - 1 + MaxDelay < LongAgo
  BY PairFacts
<1> QED BY <1>4, <1>6, <1>7, KnownLately

LEMMA ArrivesGainsLately ==
  ASSUME Inv, AnswersTrue, NEW s \in Slots, lookups[s] # None, NEW who \in SUBSET UserIds,
         ArrivesKnown(s, who), Arrives(s, who), NEW c \in Calls, NEW role \in Gained(c)
  PROVE  Lately(c, role)
<1> DEFINE user == lookups[s].user
           with == {t \in Others(s) : user \in lookups[t].users}
           gains == {t[3] : t \in with} \cup (IF user \in who THEN {s[3]} ELSE {})
<1>1. Awaited(s) /\ GoesOn(s[1], gains)
  <2>1. calls' # calls
    BY DEF Gained
  <2> QED BY <2>1 DEF Arrives
<1>2. calls[s[1][1]] # None /\ s[1] \in Promises
  BY <1>1, AwaitedCall
<1>3. lookups[s].channel = calls[s[1][1]].channel /\ user = calls[s[1][1]].user
  BY <1>2 DEF Inv, LookupsKnown
<1>4. c = s[1][1] /\ role \in gains
  <2> HIDE DEF gains
  <2> QED BY <1>1, <1>2, GoesOnGains
<1>5. CASE role = s[3] /\ user \in who
  <2>1. Knows(<<role, calls[c].channel, calls[c].user>>, lookups[s].age)
    BY <1>3, <1>4, <1>5 DEF ArrivesKnown
  <2>2. lookups[s].age \in Nat /\ lookups[s].age < LongAgo
    BY LookupFields, PairFacts
  <2> QED BY <2>1, <2>2, KnownLately
<1>6. ASSUME NEW t \in with, role = t[3] PROVE Lately(c, role)
  <2>1. t \in Slots /\ t[1] = s[1] /\ lookups[t] # None /\ user \in lookups[t].users
    BY <1>6 DEF Others
  <2>2. lookups[t].channel = calls[c].channel
    BY <1>2, <1>4, <2>1 DEF Inv, LookupsKnown
  <2>3. Knows(<<role, calls[c].channel, calls[c].user>>, lookups[t].age + Before(lookups[t]))
    BY <1>3, <1>4, <1>6, <2>1, <2>2 DEF AnswersTrue, LookupsTrue
  <2>4. lookups[t].age \in 0 .. MaxDelay
    BY <2>1, LookupFields
  <2>5. lookups[t].age + Before(lookups[t]) \in Nat /\ lookups[t].age + Before(lookups[t]) < LongAgo
    BY <2>4, PairFacts DEF Before
  <2> QED BY <2>3, <2>5, KnownLately
<1>7. (role = s[3] /\ user \in who) \/ \E t \in with : role = t[3]
  BY <1>4
<1> QED BY <1>5, <1>6, <1>7

LEMMA LookupGainsLately ==
  ASSUME Inv, AnswersTrue, NEW s \in Slots, LookupStep(s), NEW c \in Calls,
         NEW role \in Gained(c)
  PROVE  Lately(c, role)
<1>1. lookups[s] # None /\ s[1] \in Promises
  BY SlotParts DEF LookupStep, TwitchAnswers, AnswerArrives, ErrorArrives, TwitchUnreachable,
     RefreshStarts, RefreshJoined, Unauthorized, LookupAt
<1>2. CASE AnswerArrives(s)
  BY <1>1, <1>2, LookupFields, AnswerKnown, ArrivesGainsLately DEF AnswerArrives
<1>3. CASE ErrorArrives(s)
  <2>1. PICK who \in SUBSET UserIds : who = {}
    OBVIOUS
  <2>2. ArrivesKnown(s, who)
    BY <2>1 DEF ArrivesKnown
  <2> QED BY <1>1, <1>3, <2>1, <2>2, ArrivesGainsLately DEF ErrorArrives
<1>4. CASE TwitchAnswers(s)
  BY <1>4 DEF TwitchAnswers, Gained
<1>5. CASE TwitchUnreachable(s) \/ RefreshStarts(s) \/ RefreshJoined(s)
  <2>1. \/ UNCHANGED calls
        \/ Awaited(s) /\ GoesOn(s[1], {})
        \/ \E q : WaitsFor(s[1], q)
    BY <1>5 DEF TwitchUnreachable, RefreshStarts, RefreshBegins, RefreshJoined, Unauthorized
  <2>2. CASE UNCHANGED calls
    BY <2>2 DEF Gained
  <2>3. CASE Awaited(s) /\ GoesOn(s[1], {})
    BY <2>3, AwaitedCall, GoesOnGains
  <2>4. CASE \E q : WaitsFor(s[1], q)
    BY <1>1, <2>4, WaitGains
  <2> QED BY <2>1, <2>2, <2>3, <2>4
<1> QED BY <1>2, <1>3, <1>4, <1>5 DEF LookupStep

\* Nothing else adds a role.
LEMMA GainsLately ==
  ASSUME Inv, AnswersTrue, [Next]_vars, NEW c \in Calls, NEW role \in Gained(c)
  PROVE  Lately(c, role)
<1>1. CASE UNCHANGED calls
  BY <1>1 DEF Gained
<1>2. ASSUME NEW p \in Promises, RefreshStep(p) PROVE FALSE
  <2>1. CASE RefreshSaves(p) \/ RefreshRejected(p)
    BY <2>1, SettledGains DEF RefreshSaves, RefreshRejected
  <2> QED BY <1>2, <2>1 DEF RefreshStep, RefreshIssued, RefreshReads, RefreshFails, Gained
<1>3. ASSUME NEW d \in Calls, CallEnds(d) \/ \E call : CallBegins(d, call) PROVE FALSE
  BY <1>3 DEF CallEnds, CallBegins, Gained, Inv, CallsOK
<1>4. ASSUME NEW l \in Logins, LoginStep(l) PROVE FALSE
  BY <1>4 DEF LoginStep, LoginBegins, LoginReads, LoginSaves, LoginFails, Gained
<1>5. CASE Restart
  BY <1>5 DEF Restart, Gained
<1>6. CASE \/ \E u \in UserIds, n \in Pair : TokenExpires(u, n)
           \/ \E f \in Facts : RoleChanges(f)
           \/ ClockTicks \/ UNCHANGED vars
  BY <1>1, <1>6, WorldSubjects
<1>7. \A d \in Calls, side \in Side : <<d, side>> \in Promises
  BY DEF Promises
<1> QED BY <1>2, <1>3, <1>4, <1>5, <1>6, <1>7, BranchGainsLately, LookupGainsLately
       DEF Next, CallStep

----------------------------------------------------------------------------
(* Theorems                                                                 *)

\* The state is always of its types: users, the cache, calls with their branches, the
\* refreshes, the map of promises, logins, and what Twitch has issued.
THEOREM UsersTypeCorrect == Spec => []TypeOK
<1>1. Inv => TypeOK
  BY TypeParts DEF Inv
<1> QED BY <1>1, SpecInv, PTL

\* refreshAndStoreUserToken is single-flight: the refresh of a user's tokens that runs is the
\* one in refreshingTokens, so that two never run together, however calls, logins and
\* restarts interleave.
THEOREM RefreshIsSingle == Spec => []RefreshedOnce
<1>1. Inv => RefreshedOnce
  BY DEF Inv, Kept, Running, RefreshedOnce, Promises
<1> QED BY <1>1, SpecInv, PTL

\* Who waits for the promise of a refresh waits for one that runs, of the tokens it
\* needs: no promise that is settled, or of another user, is left in a branch.
THEOREM NobodyWaitsInVain == Spec => []WaitersAreServed
<1>1. Inv => WaitersAreServed
  <2> SUFFICES ASSUME Inv, NEW p \in Promises, calls[p[1]] # None, BranchOf(p).stage = "wait"
               PROVE  /\ BranchOf(p).promise \in Promises
                      /\ refreshes[BranchOf(p).promise] # None
                      /\ Subject(BranchOf(p).promise) = Subject(p)
    BY DEF WaitersAreServed, Promises
  <2>1. /\ BranchOf(p).promise \in Promises
        /\ refreshingTokens[Subject(p)] = BranchOf(p).promise
    BY DEF Inv, Kept, Served
  <2>2. Subject(p) \in UserIds
    BY SubjectType DEF Inv
  <2> QED BY <2>1, <2>2 DEF Inv, Kept, Held
<1> QED BY <1>1, SpecInv, PTL

LEMMA SpecValid == Spec => []Valid
BY SpecInv, ValidInit, ValidStep, PTL DEF Spec

\* areTokensValid is false exactly when the tokens are empty, and a user with such a row
\* has had a refresh fail since the last login, whatever overtakes what.
THEOREM InvalidOnlyAfterRefusal == Spec => []InvalidAfterRefusal
<1>1. Valid => InvalidAfterRefusal
  BY DEF Valid
<1> QED BY <1>1, SpecValid, PTL

\* A row holds a token the server has revoked only while somebody replaces it, or when
\* that has failed halfway.
THEOREM StoredTokensGood == Spec => []StoredTokenNotRevoked
<1>1. Tokens => StoredTokenNotRevoked
  BY DEF Tokens
<1>2. Spec => []Tokens
  BY SpecInv, SpecValid, TokensInit, TokensStep, PTL DEF Spec
<1> QED BY <1>1, <1>2, PTL

\* Whatever the cache holds, however late answers come and whichever requests fail, a call
\* learns no role but from Twitch, and none that was lost longer ago than an entry lives
\* and two requests take: the one that has filled the entry and one it is used with.
THEOREM RolesAreHeld == Spec => RolesHeldLately
<1>1. Inv /\ AnswersTrue /\ [Next]_vars =>
        [\A c \in Calls :
           calls[c] # None /\ calls'[c] # None =>
             \A role \in calls'[c].roles \ calls[c].roles :
               LET since == ago[<<role, calls[c].channel, calls[c].user>>]
               IN since = None \/ since < CACHE_TTL + 2 * MaxDelay]_vars
  <2> SUFFICES ASSUME Inv, AnswersTrue, [Next]_vars, NEW c \in Calls,
                      calls[c] # None, calls'[c] # None,
                      NEW role \in calls'[c].roles \ calls[c].roles
               PROVE  Lately(c, role)
    BY DEF Lately
  <2>1. role \in Gained(c)
    BY DEF Gained
  <2> QED BY <2>1, GainsLately
<1> QED BY <1>1, SpecInv, AnswersTrueInit, AnswersTrueStep, PTL DEF Spec, RolesHeldLately
=============================================================================
