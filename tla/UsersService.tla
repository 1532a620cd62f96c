---------------------------- MODULE UsersService ----------------------------
(* UsersService and the login of AuthService: the Twitch tokens of users,   *)
(* and the roles that are asked for with them.                              *)
(*                                                                         *)
(* A call of getUserRoles asks in two branches, with the token of the       *)
(* channel and with that of the user.  A token Twitch does not accept is    *)
(* refreshed, once for all who need it, and asked with again.  Logins store *)
(* other tokens meanwhile.                                                  *)
EXTENDS Naturals

CONSTANTS
  UserIds,   \* users that have logged in before
  Calls,     \* calls of getUserRoles that may be in progress together
  CallsOf,   \* what is called: [channel, user, claims]
  Logins,    \* logins that may be in progress together
  CACHE_TTL, \* lifetime of an entry of the cache, in steps of the clock
  MaxDelay,  \* bound: steps of the clock while a request to Twitch is under way
  MaxPairs,  \* bound: the pairs of tokens Twitch issues to a user
  None,      \* no call, no entry, no promise
  Rejected   \* a promise that is rejected

Side == {"channel", "user"}

\* The roles asked for with the token of the channel, and with that of the user.
RolesBy == [channel |-> {"editor", "mod", "vip"}, user |-> {"sub", "follower"}]

Role == RolesBy.channel \cup RolesBy.user

\* Editors and VIPs are put in the cache and looked up there, to no effect.
ReadFromCache == {"mod", "sub", "follower"}

EMPTY_TOKEN == 0

\* An access token and the refresh token issued with it, by number.
Pair == EMPTY_TOKEN .. MaxPairs

\* A row of hv_user with its credentials.
User == [pair : Pair, valid : BOOLEAN]

\* Facts Twitch is asked about: a role of a user in a channel.
Facts == UNION {{<<role, call.channel, call.user>> : role \in call.claims} : call \in CallsOf}

\* The moderators of a channel are one entry; subscribers and followers have one each.
CacheKey(role, channel, user) == <<role, channel, IF role = "mod" THEN None ELSE user>>
CacheKeys == {CacheKey(f[1], f[2], f[3]) : f \in {g \in Facts : g[1] \in ReadFromCache}}
CacheEntry == [users : SUBSET UserIds, age : 0 .. CACHE_TTL - 1]

\* Time is counted as long as an answer of Twitch can be in use.
LongAgo == CACHE_TTL + 2 * MaxDelay

\* Requests by call and side, attempt and role: those of a branch go out together.
Slots == {s \in (Calls \X Side) \X (1 .. 2) \X Role : s[3] \in RolesBy[s[1][2]]}

\* A request that is sent, or answered by Twitch; or what the branch has got for it, from
\* the cache or as its answer, while others of the branch are under way.  users: who
\* has the role.
Lookup ==
  [channel : UserIds, user : UserIds, token : Pair, stage : {"sent", "answered", "got"},
   users : SUBSET UserIds, age : 0 .. MaxDelay]

\* promise: <<call, side>>, whose branch has started the refresh it waits for.
Branch ==
  [stage : {"ask", "asked", "wait", "done"}, token : Pair, attempt : 1 .. 2,
   promise : (Calls \X Side) \cup {None}]

\* roles: what Twitch has said the user has.
Call ==
  [channel : UserIds, user : UserIds, claims : SUBSET Role, roles : SUBSET Role,
   at : [Side -> Branch]]

\* The steps of store, for the tokens pair: read the user that is stored, revoke its
\* token (replaces), save.  A refresh asks Twitch for the tokens first, and when
\* it has failed stores empty ones.
Refresh ==
  [stage : {"ask", "read", "save"}, pair : Pair, failed : BOOLEAN, replaces : Pair]

Login == [user : UserIds, stage : {"read", "save"}, pair : Pair, replaces : Pair]

ASSUME UsersAssumption ==
  /\ CallsOf \subseteq [channel : UserIds, user : UserIds, claims : SUBSET Role]
  /\ MaxPairs \in Nat \ {0} /\ CACHE_TTL \in Nat \ {0} /\ MaxDelay \in Nat
  /\ None \notin Call /\ None \notin Refresh /\ None \notin Login
  /\ None \notin CacheEntry /\ None \notin Lookup /\ None \notin Nat
  /\ None \notin Calls \X Side /\ Rejected \notin Calls \X Side /\ None # Rejected

----------------------------------------------------------------------------
VARIABLES
  users,            \* hv_user with hv_user_credentials
  cache,            \* roles as Twitch has told them
  lookups,          \* lookups[s]: the request and what has become of it, or None
  calls,            \* calls[c]: the call in progress, or None
  refreshes,        \* refreshes[p]: the refresh branch p has started, or None
  refreshingTokens, \* by user: the branch that refreshes the tokens, None or Rejected
  logins,           \* logins[l]: the login in progress, or None
  issued,           \* Twitch: the pairs it has issued to a user
  live,             \* Twitch: the access tokens it accepts
  ago,              \* Twitch: None for a role that is held, or the time since it was lost
  revoked,          \* history: <<user, pair>> the server has asked Twitch to revoke
  halfStored,       \* history: users whose token is revoked, but not replaced
  refused           \* history: users with a failed refresh since they logged in

twitchVars == <<issued, live, ago>>
historyVars == <<revoked, halfStored, refused>>
vars ==
  <<users, cache, lookups, calls, refreshes, refreshingTokens, logins, twitchVars, historyVars>>

Init ==
  /\ users = [u \in UserIds |-> [pair |-> 1, valid |-> TRUE]]
  /\ cache = [k \in CacheKeys |-> None]
  /\ lookups = [s \in Slots |-> None]
  /\ calls = [c \in Calls |-> None]
  /\ refreshes = [p \in Calls \X Side |-> None]
  /\ refreshingTokens = [u \in UserIds |-> None]
  /\ logins = [l \in Logins |-> None]
  /\ issued = [u \in UserIds |-> 1]
  /\ live = [u \in UserIds |-> {1}]
  /\ ago = [f \in Facts |-> None]
  /\ revoked = {}
  /\ halfStored = {}
  /\ refused = {}

----------------------------------------------------------------------------
(* store                                                                    *)

\* decryptToken and revokeToken: the token that is stored is revoked, while store
\* goes on.  When the revocation arrives, if ever, Twitch stops to accept the token:
\* TokenExpires.
Revokes(u) ==
  revoked' = revoked \cup (IF users[u].pair = EMPTY_TOKEN THEN {} ELSE {<<u, users[u].pair>>})

Saves(u, pair, valid) ==
  /\ users' = [users EXCEPT ![u] = [pair |-> pair, valid |-> valid]]
  /\ halfStored' = halfStored \ {u}

----------------------------------------------------------------------------
(* Roles                                                                    *)

Subject(p) == calls[p[1]][p[2]]
BranchOf(p) == calls[p[1]].at[p[2]]
Claims(p) == calls[p[1]].claims \cap RolesBy[p[2]]

BranchAt(p, stage) == calls[p[1]] # None /\ BranchOf(p).stage = stage

Done == [stage |-> "done", token |-> EMPTY_TOKEN, attempt |-> 1, promise |-> None]

\* A branch with no claims has nothing to await; one without a token gives up.
Starts(user, claims) ==
  IF user.valid /\ user.pair # EMPTY_TOKEN /\ claims # {}
  THEN [stage |-> "ask", token |-> user.pair, attempt |-> 1, promise |-> None]
  ELSE Done

\* userRoles, and what VotesService, VotingOptionsService, VotingService and the chat
\* services call isHasPermissions with: the users are read, and the branches start.
\* The place of a call is free when its requests are over.
CallBegins(c, call) ==
  /\ calls[c] = None
  /\ \A s \in Slots : s[1][1] = c => lookups[s] = None
  /\ calls' = [calls EXCEPT ![c] =
       [channel |-> call.channel, user |-> call.user, claims |-> call.claims, roles |-> {},
        at |-> [side \in Side |-> Starts(users[call[side]], call.claims \cap RolesBy[side])]]]
  /\ UNCHANGED <<users, cache, lookups, refreshes, refreshingTokens, logins, twitchVars,
                 historyVars>>

\* Both branches are done, and the caller goes on.
CallEnds(c) ==
  /\ calls[c] # None
  /\ \A side \in Side : calls[c].at[side].stage = "done"
  /\ calls' = [calls EXCEPT ![c] = None]
  /\ UNCHANGED <<users, cache, lookups, refreshes, refreshingTokens, logins, twitchVars,
                 historyVars>>

Holds(role, channel, user) ==
  <<role, channel, user>> \in Facts /\ ago[<<role, channel, user>>] = None

\* The list of the moderators is kept, and one answer about a user.
Holders(role, channel, user) ==
  {u \in IF role = "mod" THEN UserIds ELSE {user} : Holds(role, channel, u)}

\* What the cache says of a claim.
Cached(p, role) ==
  IF role \in ReadFromCache
  THEN cache[CacheKey(role, calls[p[1]].channel, calls[p[1]].user)] ELSE None

AllCached(p) == \A role \in Claims(p) : Cached(p, role) # None

GoesOn(p, gains) ==
  calls' = [calls EXCEPT ![p[1]].roles = @ \cup gains, ![p[1]].at[p[2]] = Done]

\* All claims are in the cache, and Twitch is asked for nothing.
ReadsCache(p) ==
  /\ BranchAt(p, "ask") /\ AllCached(p)
  /\ GoesOn(p, {role \in Claims(p) : calls[p[1]].user \in Cached(p, role).users})
  /\ UNCHANGED <<users, cache, lookups, refreshes, refreshingTokens, logins, twitchVars,
                 historyVars>>

LooksUp(p, role) ==
  LET entry == Cached(p, role)
  IN [channel |-> calls[p[1]].channel, user |-> calls[p[1]].user, token |-> BranchOf(p).token,
      stage |-> IF entry = None THEN "sent" ELSE "got",
      users |-> IF entry = None THEN {} ELSE entry.users, age |-> 0]

\* The claims are looked up, and Twitch is asked for those that are not in the cache.
Asks(p) ==
  /\ BranchAt(p, "ask") /\ ~AllCached(p)
  /\ lookups' = [s \in Slots |->
       IF s[1] = p /\ s[2] = BranchOf(p).attempt /\ s[3] \in Claims(p) THEN LooksUp(p, s[3])
       ELSE lookups[s]]
  /\ calls' = [calls EXCEPT ![p[1]].at[p[2]].stage = "asked"]
  /\ UNCHANGED <<users, cache, refreshes, refreshingTokens, logins, twitchVars, historyVars>>

LookupAt(s, stage) == lookups[s] # None /\ lookups[s].stage = stage

\* Twitch accepts the token and says who has the role now; the answer is under way.
TwitchAnswers(s) ==
  LET lookup == lookups[s]
  IN /\ LookupAt(s, "sent")
     /\ lookup.token \in live[lookup[s[1][2]]]
     /\ lookups' = [lookups EXCEPT
          ![s].stage = "answered", ![s].users = Holders(s[3], lookup.channel, lookup.user)]
     /\ UNCHANGED <<users, cache, calls, refreshes, refreshingTokens, logins, twitchVars,
                    historyVars>>

\* The branch waits for the request: it has not gone on with another one's failure.
Awaited(s) == BranchAt(s[1], "asked") /\ BranchOf(s[1]).attempt = s[2]

\* The other lookups of the same Promise.all.
Others(s) == {t \in Slots \ {s} : t[1] = s[1] /\ t[2] = s[2] /\ lookups[t] # None}

\* The request is over, and so is the Promise.all; its other requests stay under way.
Leaves(s) ==
  lookups' = [t \in Slots |->
    IF t = s \/ (t[1] = s[1] /\ t[2] = s[2] /\ LookupAt(t, "got")) THEN None ELSE lookups[t]]

\* What goes in the cache: an error is an answer, too; that somebody does not follow is
\* not put there.
IsKept(s, who) ==
  s[3] \in ReadFromCache /\ (s[3] = "follower" => LookupAt(s, "sent") \/ who # {})

\* An answer is put in the cache, whoever waits for it; the last one of those that are
\* awaited together ends the branch.
Arrives(s, who) ==
  LET lookup == lookups[s]
      with == {t \in Others(s) : lookup.user \in lookups[t].users}
      gains == {t[3] : t \in with} \cup (IF lookup.user \in who THEN {s[3]} ELSE {})
  IN /\ cache' = IF IsKept(s, who)
                 THEN [cache EXCEPT ![CacheKey(s[3], lookup.channel, lookup.user)] =
                         [users |-> who, age |-> 0]]
                 ELSE cache
     /\ \/ /\ Awaited(s) /\ \E t \in Others(s) : lookups[t].stage # "got"
           /\ lookups' = [lookups EXCEPT ![s].stage = "got", ![s].users = who]
           /\ UNCHANGED calls
        \/ /\ Awaited(s) /\ \A t \in Others(s) : lookups[t].stage = "got"
           /\ Leaves(s)
           /\ GoesOn(s[1], gains)
        \/ /\ ~Awaited(s)
           /\ Leaves(s)
           /\ UNCHANGED calls
     /\ UNCHANGED <<users, refreshes, refreshingTokens, logins, twitchVars, historyVars>>

AnswerArrives(s) == LookupAt(s, "answered") /\ Arrives(s, lookups[s].users)

\* Another status than 200 and 401.
ErrorArrives(s) == LookupAt(s, "sent") /\ Arrives(s, {})

\* No response: e.response.status throws a TypeError, and the branch gives up.  Nobody
\* hears of it, or of a 401, when the branch has gone on.
TwitchUnreachable(s) ==
  /\ LookupAt(s, "sent")
  /\ Leaves(s)
  /\ IF Awaited(s) THEN GoesOn(s[1], {}) ELSE UNCHANGED calls
  /\ UNCHANGED <<users, cache, refreshes, refreshingTokens, logins, twitchVars, historyVars>>

Unauthorized(s) ==
  /\ LookupAt(s, "sent") /\ Awaited(s)
  /\ lookups[s].token \notin live[Subject(s[1])]

WaitsFor(p, promise) ==
  calls' = [calls EXCEPT ![p[1]].at[p[2]] =
    [@ EXCEPT !.stage = "wait", !.token = EMPTY_TOKEN, !.promise = promise]]

RefreshBegins(p) ==
  /\ refreshingTokens' = [refreshingTokens EXCEPT ![Subject(p)] = p]
  /\ refreshes' = [refreshes EXCEPT
       ![p] = [stage |-> "ask", pair |-> EMPTY_TOKEN, failed |-> FALSE, replaces |-> EMPTY_TOKEN]]
  /\ WaitsFor(p, p)

\* Mutant: whoever gets a 401 refreshes the tokens.
RefreshStartsAlways(s) ==
  /\ Unauthorized(s)
  /\ RefreshBegins(s[1])
  /\ Leaves(s)
  /\ UNCHANGED <<users, cache, logins, twitchVars, historyVars>>

\* refreshAndStoreUserToken, with nobody at it.
RefreshStarts(s) ==
  /\ Unauthorized(s)
  /\ refreshingTokens[Subject(s[1])] = None
  /\ RefreshBegins(s[1])
  /\ Leaves(s)
  /\ UNCHANGED <<users, cache, logins, twitchVars, historyVars>>

\* ... with somebody at it; a promise that is rejected ends the branch with its error.
RefreshJoined(s) ==
  LET promise == refreshingTokens[Subject(s[1])]
  IN /\ Unauthorized(s)
     /\ promise # None
     /\ Leaves(s)
     /\ IF promise = Rejected THEN GoesOn(s[1], {}) ELSE WaitsFor(s[1], promise)
     /\ UNCHANGED <<users, cache, refreshes, refreshingTokens, logins, twitchVars, historyVars>>

----------------------------------------------------------------------------
(* Refreshes                                                                *)

\* An attempt is left, and there is a token for it.
Resumes(branch, token) ==
  IF branch.attempt = 1 /\ token # EMPTY_TOKEN
  THEN [stage |-> "ask", token |-> token, attempt |-> 2, promise |-> None]
  ELSE Done

Waiting(c, side, p) ==
  calls[c] # None /\ calls[c].at[side].stage = "wait" /\ calls[c].at[side].promise = p

\* Mutant: only the branch that has started the refresh goes on.
ResolvesOwn(p, token) ==
  calls' = [calls EXCEPT ![p[1]].at[p[2]] = Resumes(@, token)]

\* The promise is settled: all who wait for it go on.
Resolves(p, token) ==
  calls' = [c \in Calls |->
    IF calls[c] = None THEN None
    ELSE [calls[c] EXCEPT !.at = [side \in Side |->
            IF Waiting(c, side, p) THEN Resumes(calls[c].at[side], token)
            ELSE calls[c].at[side]]]]

\* refreshToken, with the refresh token of the user that was read.
RefreshIssued(p) ==
  LET u == Subject(p)
  IN /\ refreshes[p] # None /\ refreshes[p].stage = "ask"
     /\ issued[u] < MaxPairs
     /\ issued' = [issued EXCEPT ![u] = @ + 1]
     /\ live' = [live EXCEPT ![u] = @ \cup {issued'[u]}]
     /\ refreshes' = [refreshes EXCEPT ![p].stage = "read", ![p].pair = issued'[u]]
     /\ UNCHANGED <<users, cache, lookups, calls, refreshingTokens, logins, ago, historyVars>>

\* store: the user as it is now is read.
RefreshReads(p) ==
  /\ refreshes[p] # None /\ refreshes[p].stage = "read"
  /\ Revokes(Subject(p))
  /\ refreshes' = [refreshes EXCEPT ![p].stage = "save", ![p].replaces = users[Subject(p)].pair]
  /\ UNCHANGED <<users, cache, lookups, calls, refreshingTokens, logins, twitchVars, halfStored,
                 refused>>

\* Mutant: the user that store has read wins over what is to be stored.
RefreshSavesAsRead(p) ==
  LET u == Subject(p)
  IN /\ refreshes[p] # None /\ refreshes[p].stage = "save"
     /\ IF refreshes[p].failed THEN Saves(u, EMPTY_TOKEN, FALSE)
        ELSE Saves(u, refreshes[p].replaces, TRUE)
     /\ Resolves(p, refreshes[p].pair)
     /\ refreshes' = [refreshes EXCEPT ![p] = None]
     /\ refreshingTokens' = [refreshingTokens EXCEPT ![u] = None]
     /\ UNCHANGED <<cache, lookups, logins, twitchVars, revoked, refused>>

\* Saved over what is there by now; the promise is fulfilled and leaves the map.
RefreshSaves(p) ==
  LET u == Subject(p)
  IN /\ refreshes[p] # None /\ refreshes[p].stage = "save"
     /\ Saves(u, refreshes[p].pair, ~refreshes[p].failed)
     /\ Resolves(p, refreshes[p].pair)
     /\ refreshes' = [refreshes EXCEPT ![p] = None]
     /\ refreshingTokens' = [refreshingTokens EXCEPT ![u] = None]
     /\ UNCHANGED <<cache, lookups, logins, twitchVars, revoked, refused>>

\* The store that ends here has had the token revoked that is still in the row.
Half(u, store) == store.stage = "save" /\ store.replaces = users[u].pair

LeavesHalf(u, store) == halfStored' = halfStored \cup (IF Half(u, store) THEN {u} ELSE {})

\* Mutant: tokens of null are stored.
RefreshFailsWithNull(p) ==
  LET u == Subject(p)
  IN /\ refreshes[p] # None /\ ~refreshes[p].failed
     /\ LeavesHalf(u, refreshes[p])
     /\ refused' = refused \cup {u}
     /\ refreshes' = [refreshes EXCEPT
          ![p] = [stage |-> "read", pair |-> None, failed |-> TRUE, replaces |-> EMPTY_TOKEN]]
     /\ UNCHANGED <<users, cache, lookups, calls, refreshingTokens, logins, twitchVars, revoked>>

\* Twitch refuses or cannot be reached, or store fails: empty tokens are stored.
RefreshFails(p) ==
  LET u == Subject(p)
  IN /\ refreshes[p] # None /\ ~refreshes[p].failed
     /\ LeavesHalf(u, refreshes[p])
     /\ refused' = refused \cup {u}
     /\ refreshes' = [refreshes EXCEPT
          ![p] = [stage |-> "read", pair |-> EMPTY_TOKEN, failed |-> TRUE,
                  replaces |-> EMPTY_TOKEN]]
     /\ UNCHANGED <<users, cache, lookups, calls, refreshingTokens, logins, twitchVars, revoked>>

\* That fails, too: the promise is rejected, and stays in the map.
RefreshRejected(p) ==
  LET u == Subject(p)
  IN /\ refreshes[p] # None /\ refreshes[p].failed
     /\ LeavesHalf(u, refreshes[p])
     /\ Resolves(p, EMPTY_TOKEN)
     /\ refreshes' = [refreshes EXCEPT ![p] = None]
     /\ refreshingTokens' = [refreshingTokens EXCEPT ![u] = Rejected]
     /\ UNCHANGED <<users, cache, lookups, logins, twitchVars, revoked, refused>>

----------------------------------------------------------------------------
(* Logins                                                                   *)

\* AuthService.getTokens, with the tokens of the OAuth redirect.
LoginBegins(l, u) ==
  /\ logins[l] = None
  /\ issued[u] < MaxPairs
  /\ issued' = [issued EXCEPT ![u] = @ + 1]
  /\ live' = [live EXCEPT ![u] = @ \cup {issued'[u]}]
  /\ logins' = [logins EXCEPT
       ![l] = [user |-> u, stage |-> "read", pair |-> issued'[u], replaces |-> EMPTY_TOKEN]]
  /\ UNCHANGED <<users, cache, lookups, calls, refreshes, refreshingTokens, ago, historyVars>>

LoginReads(l) ==
  /\ logins[l] # None /\ logins[l].stage = "read"
  /\ Revokes(logins[l].user)
  /\ logins' = [logins EXCEPT ![l].stage = "save", ![l].replaces = users[logins[l].user].pair]
  /\ UNCHANGED <<users, cache, lookups, calls, refreshes, refreshingTokens, twitchVars,
                 halfStored, refused>>

\* Refreshes of the user that have failed, and store empty tokens soon.
Failing(u) == {p \in Calls \X Side : refreshes[p] # None /\ refreshes[p].failed /\ Subject(p) = u}

\* Mutant: a login says nothing of areTokensValid.
LoginSavesNoFlag(l) ==
  LET u == logins[l].user
  IN /\ logins[l] # None /\ logins[l].stage = "save"
     /\ Saves(u, logins[l].pair, users[u].valid)
     /\ refused' = IF Failing(u) = {} THEN refused \ {u} ELSE refused
     /\ logins' = [logins EXCEPT ![l] = None]
     /\ UNCHANGED <<cache, lookups, calls, refreshes, refreshingTokens, twitchVars, revoked>>

LoginSaves(l) ==
  LET u == logins[l].user
  IN /\ logins[l] # None /\ logins[l].stage = "save"
     /\ Saves(u, logins[l].pair, TRUE)
     /\ refused' = IF Failing(u) = {} THEN refused \ {u} ELSE refused
     /\ logins' = [logins EXCEPT ![l] = None]
     /\ UNCHANGED <<cache, lookups, calls, refreshes, refreshingTokens, twitchVars, revoked>>

LoginFails(l) ==
  /\ logins[l] # None
  /\ LeavesHalf(logins[l].user, logins[l])
  /\ logins' = [logins EXCEPT ![l] = None]
  /\ UNCHANGED <<users, cache, lookups, calls, refreshes, refreshingTokens, twitchVars, revoked,
                 refused>>

----------------------------------------------------------------------------
(* Twitch, time and restarts                                                *)

\* A token expires, or has been revoked, by the server or by the user.
TokenExpires(u, n) ==
  /\ n \in live[u]
  /\ live' = [live EXCEPT ![u] = @ \ {n}]
  /\ UNCHANGED <<users, cache, lookups, calls, refreshes, refreshingTokens, logins, issued, ago,
                 historyVars>>

RoleChanges(f) ==
  /\ ago' = [ago EXCEPT ![f] = IF @ = None THEN 0 ELSE None]
  /\ UNCHANGED <<users, cache, lookups, calls, refreshes, refreshingTokens, logins, issued,
                 live, historyVars>>

\* Mutant: entries are kept for good.
OlderKept(entry) ==
  IF entry = None THEN None
  ELSE [entry EXCEPT !.age = IF @ = CACHE_TTL - 1 THEN @ ELSE @ + 1]

\* Entries of the cache live CACHE_TTL from when they are set, whoever reads them.
Older(entry) ==
  IF entry = None \/ entry.age = CACHE_TTL - 1 THEN None ELSE [entry EXCEPT !.age = @ + 1]

ClockTicks ==
  /\ \A s \in Slots : lookups[s] # None => lookups[s].age < MaxDelay
  /\ cache' = [k \in CacheKeys |-> Older(cache[k])]
  /\ lookups' = [s \in Slots |->
       IF lookups[s] = None THEN None ELSE [lookups[s] EXCEPT !.age = @ + 1]]
  /\ ago' = [f \in Facts |-> IF ago[f] \in 0 .. LongAgo - 1 THEN ago[f] + 1 ELSE ago[f]]
  /\ UNCHANGED <<users, calls, refreshes, refreshingTokens, logins, issued, live, historyVars>>

\* The process goes down, and what is in memory with it.
Restart ==
  /\ cache' = [k \in CacheKeys |-> None]
  /\ lookups' = [s \in Slots |-> None]
  /\ calls' = [c \in Calls |-> None]
  /\ refreshes' = [p \in Calls \X Side |-> None]
  /\ refreshingTokens' = [u \in UserIds |-> None]
  /\ logins' = [l \in Logins |-> None]
  /\ halfStored' = halfStored \cup {u \in UserIds :
       \/ \E p \in Calls \X Side : refreshes[p] # None /\ Subject(p) = u /\ Half(u, refreshes[p])
       \/ \E l \in Logins : logins[l] # None /\ logins[l].user = u /\ Half(u, logins[l])}
  /\ UNCHANGED <<users, twitchVars, revoked, refused>>

BranchStep(p) == ReadsCache(p) \/ Asks(p)

LookupStep(s) ==
  \/ TwitchAnswers(s)
  \/ AnswerArrives(s)
  \/ ErrorArrives(s)
  \/ TwitchUnreachable(s)
  \/ RefreshStarts(s)
  \/ RefreshJoined(s)

RefreshStep(p) ==
  \/ RefreshIssued(p)
  \/ RefreshReads(p)
  \/ RefreshSaves(p)
  \/ RefreshFails(p)
  \/ RefreshRejected(p)

\* What a call does by itself: its branches, their requests and refreshes.
CallStep(c) ==
  \/ \E side \in Side : BranchStep(<<c, side>>) \/ RefreshStep(<<c, side>>)
  \/ \E s \in Slots : s[1][1] = c /\ lookups[s] # None /\ LookupStep(s)
  \/ CallEnds(c)

LoginStep(l) ==
  \/ \E u \in UserIds : LoginBegins(l, u)
  \/ LoginReads(l)
  \/ LoginSaves(l)
  \/ LoginFails(l)

Next ==
  \/ \E c \in Calls : CallStep(c) \/ \E call \in CallsOf : CallBegins(c, call)
  \/ \E l \in Logins : LoginStep(l)
  \/ \E u \in UserIds, n \in Pair : TokenExpires(u, n)
  \/ \E f \in Facts : RoleChanges(f)
  \/ ClockTicks
  \/ Restart

Spec == Init /\ [][Next]_vars

\* Requests to Twitch and to the database end, and the process lives to see it.
FairSpec == Spec /\ \A c \in Calls : WF_vars(CallStep(c))

----------------------------------------------------------------------------
(* Properties                                                               *)

\* The type invariant.
TypeOK ==
  /\ users \in [UserIds -> User]
  /\ cache \in [CacheKeys -> CacheEntry \cup {None}]
  /\ lookups \in [Slots -> Lookup \cup {None}]
  /\ calls \in [Calls -> Call \cup {None}]
  /\ refreshes \in [Calls \X Side -> Refresh \cup {None}]
  /\ refreshingTokens \in [UserIds -> (Calls \X Side) \cup {None, Rejected}]
  /\ logins \in [Logins -> Login \cup {None}]
  /\ issued \in [UserIds -> 1 .. MaxPairs]
  /\ live \in [UserIds -> SUBSET Pair]
  /\ ago \in [Facts -> (0 .. LongAgo) \cup {None}]
  /\ revoked \subseteq UserIds \X Pair
  /\ halfStored \subseteq UserIds
  /\ refused \subseteq UserIds

\* Tokens are refreshed by one branch at a time, and it is the one that others find at it,
\* those of the other side of the call, too ("should call refreshToken only once if
\* user === channel and accessToken is expired", users.e2e-spec.ts:309).  Whose 401 comes
\* when the refresh has ended refreshes the new tokens once more.
RefreshedOnce ==
  \A p \in Calls \X Side :
    refreshes[p] # None => refreshingTokens[Subject(p)] = p

\* Whoever waits for a refresh waits for one that is running, of the tokens it needs.
WaitersAreServed ==
  \A p \in Calls \X Side :
    calls[p[1]] # None /\ BranchOf(p).stage = "wait" =>
      LET q == BranchOf(p).promise
      IN q \in Calls \X Side /\ refreshes[q] # None /\ Subject(q) = Subject(p)

\* A stored token has been revoked by the server itself only while it is being replaced,
\* or when that has failed.  Refreshes and logins of a user run together, each revokes
\* the token it finds and saves its own, in any order.
StoredTokenNotRevoked ==
  \A u \in UserIds :
    <<u, users[u].pair>> \in revoked =>
      \/ u \in halfStored
      \/ \E p \in Calls \X Side : refreshes[p] # None /\ Subject(p) = u /\ Half(u, refreshes[p])
      \/ \E l \in Logins : logins[l] # None /\ logins[l].user = u /\ Half(u, logins[l])

\* "If `false` the user needs to re-login" (user.entity.ts): tokens are empty exactly
\* then, and only after a refresh has failed since the last login, or had failed before
\* and stored its empty tokens over those of the login.
InvalidAfterRefusal ==
  \A u \in UserIds :
    /\ users[u].valid <=> users[u].pair # EMPTY_TOKEN
    /\ ~users[u].valid => u \in refused

\* A role is granted only to who has it at Twitch, or has lost it lately: an answer may
\* come when it is not true any more, lives in the cache for CACHE_TTL from then, and
\* is used when the other requests of the branch are answered.
RolesHeldLately ==
  [][\A c \in Calls :
       calls[c] # None /\ calls'[c] # None =>
         \A role \in calls'[c].roles \ calls[c].roles :
           LET since == ago[<<role, calls[c].channel, calls[c].user>>]
           IN since = None \/ since < CACHE_TTL + 2 * MaxDelay]_vars

\* Every call ends: attempts are two, and nobody waits for a refresh for ever.
CallsEnd == \A c \in Calls : calls[c] # None ~> calls[c] = None
=============================================================================
