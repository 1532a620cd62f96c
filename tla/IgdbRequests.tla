---------------------------- MODULE IgdbRequests ----------------------------
(* IgdbRequestService: requests to IGDB share a token.  It is kept in       *)
(* memory and in a table, and renewed when IGDB refuses it, by one request  *)
(* at a time, while requests that begin then wait for it.                   *)
EXTENDS Naturals, Sequences

CONSTANTS
  Posts,          \* calls of post that may be in progress together
  MaxIgdbTokens   \* bound: the tokens Twitch issues

NoToken == 0
IgdbToken == NoToken .. MaxIgdbTokens

\* What a call of post waits for: the mutex to be unlocked ("unlock") or its own turn
\* ("turn"), the options of the table, Twitch, the options to be saved, or IGDB.
\* renews: it holds the mutex; token: the one it will save, or has sent.
PostStage == {"none", "unlock", "options", "authenticate", "save", "send", "turn"}
Post == [stage : PostStage, attempt : 1 .. 2, renews : BOOLEAN, token : IgdbToken]

ASSUME IgdbAssumption == MaxIgdbTokens \in Nat /\ "unlocked" \notin Posts

VARIABLES
  accessToken, \* this.accessToken, in memory
  igdbOptions, \* the token of the row of igdb_api_options
  posts,       \* posts[p]: a call of post
  holder,      \* who holds the mutex, or "unlocked"
  turns,       \* who waits to acquire it, in order
  igdbIssued,  \* Twitch: the tokens it has issued
  igdbLive     \* IGDB: the tokens it accepts

igdbVars == <<accessToken, igdbOptions, posts, holder, turns, igdbIssued, igdbLive>>

NoPost == [stage |-> "none", attempt |-> 1, renews |-> FALSE, token |-> NoToken]

IgdbInit ==
  /\ accessToken = NoToken
  /\ igdbOptions = NoToken
  /\ posts = [p \in Posts |-> NoPost]
  /\ holder = "unlocked"
  /\ turns = <<>>
  /\ igdbIssued = 0
  /\ igdbLive = {}

\* simplePost, as far as getAccessToken: the token of memory, or the table is asked.
Sends(attempt) ==
  [stage |-> IF accessToken # NoToken THEN "send" ELSE "options", attempt |-> attempt,
   renews |-> FALSE, token |-> accessToken]

PostBegins(p) ==
  /\ posts[p].stage = "none"
  /\ posts' = [posts EXCEPT ![p] =
       IF holder = "unlocked" THEN Sends(1) ELSE [NoPost EXCEPT !.stage = "unlock"]]
  /\ UNCHANGED <<accessToken, igdbOptions, holder, turns, igdbIssued, igdbLive>>

\* getOptions; a row that is missing is inserted, without a token.
OptionsRead(p) ==
  /\ posts[p].stage = "options"
  /\ IF igdbOptions # NoToken
     THEN /\ accessToken' = igdbOptions
          /\ posts' = [posts EXCEPT ![p].stage = "send", ![p].token = igdbOptions]
     ELSE /\ posts' = [posts EXCEPT ![p].stage = "authenticate"]
          /\ UNCHANGED accessToken
  /\ UNCHANGED <<igdbOptions, holder, turns, igdbIssued, igdbLive>>

\* authenticate: Twitch issues a token, or does not.
Authenticated(p) ==
  /\ posts[p].stage = "authenticate"
  /\ \/ /\ igdbIssued < MaxIgdbTokens
        /\ igdbIssued' = igdbIssued + 1
        /\ igdbLive' = igdbLive \cup {igdbIssued'}
        /\ posts' = [posts EXCEPT ![p].stage = "save", ![p].token = igdbIssued']
     \/ /\ posts' = [posts EXCEPT ![p].stage = "save", ![p].token = NoToken]
        /\ UNCHANGED <<igdbIssued, igdbLive>>
  /\ UNCHANGED <<accessToken, igdbOptions, holder, turns>>

\* saveOptions, for the request that has found no token: it is sent with this one.
\* Without one, if saving fails.
TokenSaved(p) ==
  /\ posts[p].stage = "save" /\ ~posts[p].renews
  /\ \/ igdbOptions' = posts[p].token /\ accessToken' = posts[p].token
     \/ igdbOptions' = igdbOptions /\ accessToken' = NoToken
  /\ posts' = [posts EXCEPT ![p].stage = "send", ![p].token = accessToken']
  /\ UNCHANGED <<holder, turns, igdbIssued, igdbLive>>

Renewing == [NoPost EXCEPT !.stage = "authenticate", !.renews = TRUE]

\* release, by p that becomes after: the first who wants the mutex gets it; when nobody
\* does, all who wait for it to be unlocked go on.
Releases(p, after) ==
  /\ holder' = IF turns = <<>> THEN "unlocked" ELSE Head(turns)
  /\ turns' = IF turns = <<>> THEN <<>> ELSE Tail(turns)
  /\ posts' = [q \in Posts |->
       IF q = p THEN after
       ELSE IF posts[q].stage = "unlock" /\ turns = <<>> THEN Sends(1)
       ELSE IF q = holder' THEN Renewing
       ELSE posts[q]]

\* Mutant: release is not in a finally.
RenewalEndsUnreleased(p) ==
  /\ posts[p].stage = "save" /\ posts[p].renews
  /\ \/ igdbOptions' = posts[p].token /\ Releases(p, Sends(2))
     \/ /\ posts' = [posts EXCEPT ![p] = NoPost]
        /\ UNCHANGED <<igdbOptions, holder, turns>>
  /\ UNCHANGED <<accessToken, igdbIssued, igdbLive>>

\* The renewed token is saved, but this.accessToken is left as it is, and the request
\* is sent again; or saving fails, and post with it.
RenewalEnds(p) ==
  /\ posts[p].stage = "save" /\ posts[p].renews
  /\ \/ igdbOptions' = posts[p].token /\ Releases(p, Sends(2))
     \/ igdbOptions' = igdbOptions /\ Releases(p, NoPost)
  /\ UNCHANGED <<accessToken, igdbIssued, igdbLive>>

\* IGDB answers, or fails with another status; or the table cannot be read.
PostEnds(p) ==
  /\ posts[p].stage \in {"send", "options"}
  /\ posts' = [posts EXCEPT ![p] = NoPost]
  /\ UNCHANGED <<accessToken, igdbOptions, holder, turns, igdbIssued, igdbLive>>

Refused(p) == posts[p].stage = "send" /\ posts[p].token \notin igdbLive

\* Mutant: the mutex is not waited for.
RenewsAtOnce(p) ==
  /\ Refused(p) /\ posts[p].attempt = 1
  /\ posts' = [posts EXCEPT ![p] = Renewing]
  /\ holder' = p
  /\ UNCHANGED <<accessToken, igdbOptions, turns, igdbIssued, igdbLive>>

\* 401: the mutex is acquired.  (The second 401 is for the caller: PostEnds.)
AcquiresMutex(p) ==
  /\ Refused(p) /\ posts[p].attempt = 1
  /\ IF holder = "unlocked"
     THEN /\ posts' = [posts EXCEPT ![p] = Renewing]
          /\ holder' = p
          /\ UNCHANGED turns
     ELSE /\ posts' = [posts EXCEPT ![p] = [NoPost EXCEPT !.stage = "turn"]]
          /\ turns' = Append(turns, p)
          /\ UNCHANGED holder
  /\ UNCHANGED <<accessToken, igdbOptions, igdbIssued, igdbLive>>

IgdbTokenExpires(n) ==
  /\ n \in igdbLive
  /\ igdbLive' = igdbLive \ {n}
  /\ UNCHANGED <<accessToken, igdbOptions, posts, holder, turns, igdbIssued>>

IgdbRestart ==
  /\ accessToken' = NoToken
  /\ posts' = [p \in Posts |-> NoPost]
  /\ holder' = "unlocked"
  /\ turns' = <<>>
  /\ UNCHANGED <<igdbOptions, igdbIssued, igdbLive>>

PostStep(p) ==
  \/ OptionsRead(p)
  \/ Authenticated(p)
  \/ TokenSaved(p)
  \/ RenewalEnds(p)
  \/ PostEnds(p)
  \/ AcquiresMutex(p)

IgdbNext ==
  \/ \E p \in Posts : PostBegins(p) \/ PostStep(p)
  \/ \E n \in IgdbToken : IgdbTokenExpires(n)
  \/ IgdbRestart

IgdbSpec == IgdbInit /\ [][IgdbNext]_igdbVars

\* Twitch, IGDB and the database answer or fail.
IgdbFairness == \A p \in Posts : WF_igdbVars(PostStep(p))

----------------------------------------------------------------------------
(* Properties                                                               *)

IgdbTypeOK ==
  /\ accessToken \in IgdbToken
  /\ igdbOptions \in IgdbToken
  /\ posts \in [Posts -> Post]
  /\ holder \in Posts \cup {"unlocked"}
  /\ turns \in Seq(Posts)
  /\ igdbIssued \in IgdbToken
  /\ igdbLive \in SUBSET IgdbToken

\* One request at a time renews the token, and whoever is waited for is at it: the mutex
\* is held by a request that renews, and those who want it are waiting in its queue, each
\* once.
RenewsAlone ==
  /\ \A p \in Posts : posts[p].renews <=> holder = p
  /\ \A p \in Posts : posts[p].stage = "turn" <=> \E i \in 1 .. Len(turns) : turns[i] = p
  /\ \A i, j \in 1 .. Len(turns) : turns[i] = turns[j] => i = j
  /\ turns # <<>> \/ (\E p \in Posts : posts[p].stage = "unlock") => holder # "unlocked"

\* Every request ends, with an answer or an error: nobody waits for the mutex for ever.
PostsEnd == \A p \in Posts : posts[p].stage # "none" ~> posts[p].stage = "none"
=============================================================================
