# A verification project for honeykingdom-server

honeykingdom-server is a NestJS application (one Node.js process, PostgreSQL behind a
connection pool, one connection to Twitch chat) that hosts the HoneyVotes services and a
few bots. This directory holds TLA+ models of the parts of it whose correctness depends on
the order of events, TLC configurations that check them on small instances, and theorems
proved with TLAPS for every value of the constants.

Paths below are relative to `src/src/` of the repository.

- [1. Inventory](#1-inventory)
- [2. What the code is exposed to](#2-what-the-code-is-exposed-to)
- [3. The models](#3-the-models)
- [4. The runs](#4-the-runs)
- [5. What is proved](#5-what-is-proved)
- [6. Where the code disagrees with its tests and comments](#6-where-the-code-disagrees-with-its-tests-and-comments)
- [7. What is not modelled, and the plan](#7-what-is-not-modelled-and-the-plan)

## 1. Inventory

| Component | State it keeps | Operations | Talks to | What makes it correct |
|---|---|---|---|---|
| **Chat goal** `honey-votes/chat-goal` | `goals` map (options, state, votes per user, timeout handle); tables of goals, of data and of events | start-up, shutdown, create, update, delete, start, pause, reset, reset votes; timeout callback; chat message | chat client, PostgreSQL, Users (access, roles) | countdowns and timeouts match, a vote is open exactly below its target, a finished goal stays finished, the table follows memory |
| **Chat votes** `honey-votes/chat-votes` | `chatVotingList` map; tables of votings and of votes | start-up, create, update, delete, clear; chat message (vote, `!clearvotes`) | chat client, PostgreSQL, Users | an entry for every voting, votes stored as said, row and memory matched, votes taken only while listening |
| **Chat client** `twitch-chat` | `channels` map (channel to set of modules); the connection | join, part, `register` handler, quit | Twitch chat (`@twurple/chat`) | a channel with a subscriber is heard, whoever else comes and goes |
| **Votes** `honey-votes/votes/votes` | vote table, rate-limit cache | create, delete | Users, Votings | a vote has its option, none is lost unasked, the rate limit |
| **Voting options** `honey-votes/votes/voting-options` | option table | create, delete | Votings, Users, IGDB, Kinopoisk | the limits per voting, per user and per card |
| **Votings** `honey-votes/votes/voting` | voting table | create, update, delete | Users | a row is what the requests asked for |
| **Users** `honey-votes/users` | user table with encrypted tokens, refreshes in flight, cached roles | store, get roles, refresh tokens | Twitch API | one refresh at a time, nobody waits for nothing, no revoked token is kept, no stale role is granted |
| **Auth** `honey-votes/auth` | none (JWTs) | OAuth callback, refresh | Users | stores the user that logged in |
| **IGDB requests** `igdb-api` | access token, a mutex, a stored token | request, re-authenticate, retry | Twitch OAuth, IGDB | one renewal at a time, every request ends |
| **Telegram watcher** `telegram-api` | last post id per channel | poll | Telegram web page | every post once (nobody adds a channel) |
| **Log shipping** `custom-logger` | a queue, a mutex | log, flush | an HTTP endpoint | order; only a failed batch is lost |
| **Recent messages** `recent-messages` | last messages per channel; a table | start-up, message, save | chat client, PostgreSQL | order, the limit per channel |
| **Clips downloader, Honey bot, Formula 1, Games, Instagram, link shortener, app-awake, API clients** | little or none | HTTP and chat relays | | |
| **Bootstrap** `main.ts`, `app.module.ts`, migrations | | wiring | | shutdown hooks, foreign keys |

How they interact. Controllers call services; services share one `TwitchChatService`, which
hands every message of every joined channel to every listener, so that a module hears
channels that *another* module joined. Nothing locks: an operation runs without interruption
up to its next `await`, and anything may happen in between. Statements go to a pool of
connections; those of one connection are executed in order, those of two are not ordered.
An error that nobody awaits is an unhandled rejection and ends the process. On an orderly
shutdown (`main.ts:32`, `enableShutdownHooks`) Nest calls `onModuleDestroy` and the process
ends; the database stays.

## 2. What the code is exposed to

`PROJECT.json` lists every hazard at its line. The ones that shaped the models:

- **Timers.** A countdown is a status, an end timestamp and a `setTimeout` handle, changed
  by six operations and by the callback, which does not look at the status
  (`chat-goal.service.ts:245-247`).
- **Memory beside a table.** Both HoneyVotes chat services change memory first and store
  later; an update stores back the *whole row it has read* before an `await`
  (`chat-goal.service.ts:216`, `chat-votes.service.ts:118`).
- **Detached statements.** Votes, the callback's UPDATE and the deletes of `!clearvotes` are
  awaited by nobody; when one fails (foreign key, primary key, connection), the process ends.
- **Crash and restart.** State is rebuilt from the table at start-up
  (`chat-goal.service.ts:53`), saved at shutdown (`:114`).
- **Checks that are awaited past.** The HTTP side of HoneyVotes keeps nothing in memory. A
  request reads rows, asks Twitch for roles, then writes: limits are counted, the rate limit
  looked up, votes for an option found missing, with other requests in between
  (`voting-options.service.ts:120,188`, `votes.service.ts:96`, `voting.service.ts:80`).
- **Tokens that two parties replace.** A refresh and a login of one user each revoke the token
  they find and save their own (`users.service.ts:162`); a refresh is shared by everybody who
  needs it, through a map of promises (`:519`), and one that fails stores empty tokens (`:540`).
- **Caches of answers.** Roles, and errors in place of them, for ten minutes (`:391`).
- **Queues swapped before they are sent** (`logs.service.ts:52`), and a list that is replaced
  while it grows (`recent-messages.service.ts:57`).
- **A shared, unreliable chat connection.** Joins and parts of several modules, answers that
  come later or refuse, and disconnections that lose all of it (`twitch-chat.service.ts`).

## 3. The models

| Module | Models | Extends |
|---|---|---|
| `ChatGoal` | chat goal service, its tables, timers, the process, the chat around it | |
| `Subscriptions` | abstract specification: what the chat client promises | |
| `TwitchChat` | chat client; refines `Subscriptions` | |
| `ChatVotes` | chat votes service composed with the chat client | `TwitchChat` |
| `VotingTables` | the tables votings, options and votes share, a request and its steps | |
| `VotingService`, `VotingOptionsService`, `VotesService` | one HTTP service each | `VotingTables` |
| `Votings` | the three composed over their tables; their properties | the three |
| `UsersService` | Twitch tokens, roles, the cache, logins (with `AuthService`) | |
| `IgdbRequests`, `LogShipping`, `RecentMessages` | one background component each | |
| `MCChatGoal`, `MCTwitchChat`, `MCChatVotes`, `MCVotings`, `MCUsers`, `MCBackground` | values for TLC; `MCBackground` also puts three components in one state space | the above |
| `ChatGoalProofs`, `ChatGoalRowProofs`, `ChatGoalTimerProofs`, `TwitchChatProofs`, `ChatVotesProofs`, `VotingsProofs`, `UsersProofs`, `BackgroundProofs` | theorems | the above |

Conventions. A table row, an in-memory record and a request body are functions on column
names, the absence of one is the function without columns (`NoRow`), and `Assign` is
`Object.assign` or an SQL SET. `None` is null. `Ops` names the operations a run includes.
Operators called *Mutant* in their comment are deliberately wrong variants of the operator
after them: they show that a property notices, and belong to no specification.

### ChatGoal

| Model | Code |
|---|---|
| `goals[g]`, `timeout[g]`, `votesCountByUser[g]` | the entry of the `goals` map (`GoalState`): options and state in one function, the handle, the counts |
| `timers[t]` | timeouts armed in Node.js, with the goal of their closure and the time they are due |
| `joined` | channels the service has subscribed to |
| `rows[g]` | `hv_chat_goal` |
| `queries[c]` | the statement in flight on connection `c`; `detached`: nobody awaits it; `event`: it also stores a `ChatGoalEvent` |
| `reads[r]` | PUT request `r` between finding its row and using it |
| `proc`, `now` | the process; the clock |
| `history[g]` | ghost: `clean`, `restored` (read back by a restart, and not created anew since), `clobbered` (an update or a create went over a goal that had moved on) or `astray` (read back from the row that a clobbered goal, or one whose row had come apart from it, has left) |
| `adrift` | ghost: goals of which two statements were in flight together (`InFlight`), one failed, or the row was deleted |

One action per operation: `ModuleInit`, `ModuleDestroy` (with the saves), `Exit`, `Crash`;
`CreateGoal`; `UpdateReads` then `UpdateApplies`, the two halves of `updateGoal` around its
`await`; `DeleteGoal`, `StartGoal`, `PauseGoal`, `ResetGoal`, `ResetVotes`; `TimerFires`;
`ChatMessage` (rights, counts, value, finish); `Commits` and `Fails` for a statement; `Tick`.
`StartGoal` is `StartTimer` or `StartVoting`, `PauseGoal` likewise.

Abstractions. Title and the two command texts are left out (a message is a vote or is not
modelled). The access check of a request only decides whether the request goes on, so
`canManage` is left out, except that `updateGoal` gives up control there. A `save` is one
upsert; a vote's UPDATE and the save of its event are one statement. `endTimerTimestamp` is a
`bigint` the driver returns as a string, but it is only compared and subtracted, where
JavaScript converts it. `ModuleInit` waits until statements of the last process are over.
`SharedChannels` are channels another module keeps joined, whose messages arrive anyway.

Bounds: `MaxTime` (clock, and no timeout due after it), `MaxVotes` (a user's spent votes and
the value), `TimerIds`, `Connections`, `Requests`. An operation that finds no free
connection waits, which the pool does, too, though for the query only.

### TwitchChat and Subscriptions

`channels` is the service's map; `connection`, `commands[c]`, `joined` are the client and the
server as the service sees them: commands of a channel are answered in order, a JOIN may be
refused (`Refuses`; the service logs that, `twitch-chat.service.ts:95`), `Disconnect` loses
the commands and the channels, `Register` joins every key of the map again, also those with
an empty set. A channel stands for its broadcaster.

`Subscriptions` says what modules rely on: `wanted` (who subscribed to what), `up`, and
`promised`, the channels the client is in or has asked for. While up, every wanted channel is
promised, and a promise is withdrawn only when the last module has unsubscribed. The mapping
takes `promised` to the channels whose last unanswered command is a JOIN, or which are joined
or were refused (`Promised`).

### ChatVotes

| Model | Code |
|---|---|
| `list[c]` | `chatVotingList`: permissions and commands |
| `requests[r]` | a request after `canManageChatVoting` read the row, before it goes on |
| `clearing` | channels with a `!clearvotes` whose sender is being looked up |
| `votings[c]`, `votes[c][u]` | `hv_chat_voting`, `hv_chat_vote` |
| `queries[k]` | the statement in flight on connection `k`; `RowsOf` are the primary keys of the rows it writes |
| `said[c][u]` | ghost: the vote that should count |
| `clobbered` | ghost: channels changed on the ground of a row out of date |
| `adrift` | ghost: keys of rows of which two statements were in flight together (`Busy`), or one failed |

The save of a vote is what TypeORM sends: a SELECT, then an INSERT or an UPDATE on the same
connection, each an action of its own (`SelectsVote`, `InsertsVote`, `UpdatesVote`); an INSERT
that violates the foreign or the primary key ends the process. Requests are in two steps
(`RequestReads`, then update, delete, clear or `RequestRejected`). A message is a pair of
itself and the commands it starts with. `Heard` of `TwitchChat` decides whether a message
arrives: subscriptions, reconnections and other modules are not assumptions but the other
model. Bound: one unanswered `!clearvotes` in a channel.

### Votings

| Model | Code |
|---|---|
| `votings[v]`, `options[o]`, `votes[u][v]` | `hv_voting`, `hv_voting_option`, `hv_vote` with its primary key (user, voting); the foreign keys cascade (`DeletesOptions`) |
| `votingIds`, `optionIds` | the sequences behind the ids: one is not used twice |
| `limited` | entries of the rate-limit cache that have not expired |
| `requests[r]` | a request between two of its awaits: what it has read (`row`), what it waits for (`stage`) |
| `asked`, `clobbered`, `highest` | ghosts: the rows as the requests asked for them, the votings saved on a row out of date, the highest limit of options a voting has had |
| `accepted`, `overtaken` | ghosts: votes let through since the limit was off; the votes a deletion under way has missed |

Actions are named after the method and the answer that resumes it: `CreateOptionBegins`, then
editor or not, the counts, roles, the look-up of the same card, `InsertsOption`; and so on.
Whatever a request awaits may fail (`Fails`). A request that is turned down in its first step
changes nothing and is not a step. `deleteVotingOption` asks Twitch for the editors and counts the
votes *together* (`Promise.all`, `voting-options.service.ts:182`): the count is a step of its own
(`DeleteOptionCounts`), at any time before both are answered, and a vote that is saved after it is
deleted with its option. `WritesVote` is the INSERT or UPDATE that the SELECT of
TypeORM's `save` has chosen, with the primary key and the foreign keys it may break by then.

Abstractions. A request reads its rows and makes its first check in one step. The two counts of
`canCreateVotingOption` are taken together. The save of a voting is one statement (that of a vote
is two, since they meet). What Twitch says of a user (`RolesOf`) does not change: `UsersService`
is about that. A voting's title, description and `showValues` decide nothing. A card is its type,
id and title; what Kinopoisk or IGDB say of it is not read again. `Actors` says which users issue which
operation.

### UsersService

| Model | Code |
|---|---|
| `users[u]` | `hv_user` with its credentials: the pair of tokens by number, `areTokensValid` |
| `cache` | `cacheManager`: the moderators of a channel, the subscription or follow of a user |
| `calls[c]` | a `getUserRoles` in progress: the users as read, the roles found, two branches |
| `at[side]` | a branch (with the token of the channel, or of the user): about to ask, waiting for what it has asked, waiting for a refresh, or done; its attempt |
| `lookups[s]` | a request to Twitch by branch, attempt and role: sent, answered by Twitch, or got by the branch while others are under way; its age |
| `refreshes[p]`, `refreshingTokens[u]` | the refresh a branch has started; the map of promises, one of which may stay there rejected |
| `logins[l]` | `AuthService.getTokens` storing the user that has come back from Twitch |
| `issued`, `live`, `ago` | Twitch: the pairs issued, the tokens it takes, who has which role or lost it when |
| `revoked`, `halfStored`, `refused` | ghosts |

`store` is a read, a revocation that is sent and not awaited, and a save: two actions of a refresh
(`RefreshReads`, `RefreshSaves`) and of a login (`LoginReads`, `LoginSaves`). A revocation that
arrives is `TokenExpires`, at any time or never. A refresh that fails stores empty tokens by the
same two steps; when that fails, too, its promise is rejected and stays in the map
(`RefreshRejected`).

A branch looks all its claims up together (`Asks`): those the cache knows are got at once, for the
others Twitch is asked. Twitch answers a request (`TwitchAnswers`: who has the role *now*), and the
answer arrives later, is put in the cache (`AnswerArrives`; errors likewise, `ErrorArrives`) and
ends the branch if it was the last of its `Promise.all`. A 401, or a request without a
response, ends the `Promise.all` before that; the other requests stay under way, nobody
awaits them (`Awaited`), and their answers are put in the cache all the same. So two requests for one
entry may be answered in one order and arrive in the other. Editors and VIPs are put
in the cache and looked up there in a way that never finds them, so that the model does not cache
them. Reading the cache is one step with sending the requests. `Restart` keeps what is in tables.

Bounds: `MaxPairs`; `CACHE_TTL` in steps of the clock; `MaxDelay`, for how many of them a request is under
way. The code gives its requests no timeout, so this one is an assumption about Twitch and the
network: without it an answer may be as old as one likes, and `RolesHeldLately`, which
says `CACHE_TTL + 2 * MaxDelay`, would bound nothing. The place of a call is used again when its
requests are over.

### IgdbRequests, LogShipping, RecentMessages

`IgdbRequests`: `posts[p]` is a call of `post` and what it waits for; `holder` and `turns` are the
mutex of async-mutex (external: `acquire` in turn, `waitForUnlock` until nobody holds or wants
it). `RenewalEnds` saves the new token and leaves `this.accessToken` as it is, as the code does.
`LogShipping`: `logQueue` and `logBatch` are the queue and what was taken from it; the batch on its way *is* the
locked mutex. `RecentMessages`: `loads` and `loading` are the queries of start-up, which replace
the lists when all have returned; `queue` and `inserting` the batches that are stored. A message is
the number of its time. The code has one queue and one table for all channels; they are kept by
channel here, since nothing reads them otherwise. A
query that fails at start-up ends the process (`RecentRestart`). `AppModule` does not
import that module at this commit.

## 4. The runs

`tlc -config X.cfg M` in this directory; every run takes less than five minutes, most of them less than one.

| Run | Configuration | Properties | What it shows |
|---|---|---|---|
| `goal_timers` | `MCChatGoal_timers` | `RunningTimerArmed`, `NoStrayTimer`, `ArmedCountdownEnds`, `VoteNotEarly` | no order of create, start, pause, reset, votes, expiry, shutdown, crash and restart separates a countdown from its timeout (but for one that was read back), or opens a vote before the end its goal or its row says; and a countdown with a timeout ends (218,000 states) |
| `goal_core` | `MCChatGoal_core` | `TypeOK`, `FinishedReopensEmpty` | votes with updates, pauses, resets and shutdowns around them: finished stays finished until the votes are set back to zero (1.07 million states) |
| `goal_restart` | `MCChatGoal_restart` | `RowHasGoal`, `RowFollowsGoal`, `OpenVoteBelowTarget`, `EventHasItsGoal` | crashes, failing statements, deletes, votes, resets and updates on two connections: rows and goals stay matched, before and after restarts, votes are open only below the target, and events find their goal, but where statements overlapped or failed or the goal was clobbered |
| `goal_stuck`, `goal_deleted`, `goal_spent` | `MCChatGoal_*` | one each | violations, see section 6 |
| `chat_client` | `MCTwitchChat` | `SubscribedIsHeard`, `SubscribedGetsHeard`, `ImplementsSubscriptions` | two modules and two channels under disconnections and refusals: the client keeps its promise, and in the end fulfils it |
| `votes` | `MCChatVotes_votes` | `TypeOK`, `EntriesComplete`, `VotesFollowChat`, `RowFollowsMemory` | a voting through all its requests, votes, clears, reconnections, crashes and restarts on two connections, where statements overlap and fail: rows and stored votes are what was last asked for and said (1.17 million states) |
| `votes_switched_off` | `MCChatVotes_switched_off` | `VotesWhileListening` | violation, see section 6 |
| `votings` | `MCVotings` | `TypeOK`, `VotesHaveOptions`, `OptionsPerUser`, `OptionsWithinLimit`, `CardsPerVoting`, `VotesWithinRate`, `RowFollowsRequests`, `VotesNotLost` | two requests at a time, of four users with four kinds of rights: how far the limits hold where the check and the save are apart, and what becomes of rows and votes when somebody else writes in between; limits of one and two options, which updates change (411,000 states) |
| `users` | `MCUsers` | `TypeOK`, `RefreshedOnce`, `WaitersAreServed`, `StoredTokenNotRevoked`, `InvalidAfterRefusal`, `RolesHeldLately`, `CallsEnd` | two calls, their requests one by one, their refreshes and a login around the tokens of one user; roles that change behind the cache and while answers are under way (128,000 states) |
| `background` | `MCBackground` | `TypeOK`, `RenewsAlone`, `LogsInOrder`, `RecentInOrder`, `PostsEnd`, `LogsDrain` | three components that share nothing, one at a time: the mutex, the queue of log lines, the lists that are loaded while messages arrive (136,000 states) |

**The limits of votings, as they are.** `votingOptionsLimit`, one option per user, one option per
card and one vote a minute are each checked before an await and relied on after it, so that none of
them holds as the messages of the service state it. What does hold is what the properties say: a
limit is passed by less than the number of requests that run together. With `Requests` a single
one the properties *are* the limits. Likewise `StoredTokenNotRevoked` and
`RowFollowsRequests` say exactly in which overlap (`halfStored`, `clobbered`) the simple statement
fails.

**Bounds, and why they are enough.** *One goal, one voting:* the maps are keyed by the
broadcaster and no operation touches two keys, so that two goals meet only in the pool and in
`setTimeout`, which keeps them apart by their closures; the proofs are for any number. *One
chatter, a moderator where votes go both ways:* the counts are per user, and the value needs
one user who can move it up and down. *Two timeouts:* the second shows a timeout armed while an
older one is still there. *`MaxTime` 4 with durations of 1 and 2:* a countdown that is paused, left,
resumed and expires, beside one that was created longer. *No updates in `goal_timers`:* they
are in `goal_core` and `goal_restart`, and in the proofs of `goal_timers`' own invariants. *One
untimed goal in `goal_restart`:* it is about rows and votes; countdowns that are read back are in
`goal_timers`. *Two connections in `goal_restart` and `votes`:*
the pool promises no order between them, so that two statements about one row can arrive either
way; two are enough for every way two statements meet, and the other runs, which do not speak of
rows, have one. *One request in progress:* it holds a row that is out of date
while creates, starts, timeouts and messages go on. *`MaxCommands` 2 in `chat_client`:* a PART behind a JOIN, or a
JOIN behind a PART; in `votes`, which looks at subscriptions and rows, 1 is enough. *Two modules:* one that stays while the other leaves. `SYMMETRY` is used
for timeouts, connections and requests, in runs without liveness properties.

*Votings.* Two requests are enough for every property that counts how many run together, and the
proofs take any number. The constraint `OneVoting` keeps a behaviour to one of two votings, each with a
traffic of its own: options that come and go while the voting is updated; and votes while options
and the voting are deleted, there with two options. No step touches two votings. *Users.* `OneTraffic`
likewise keeps a behaviour to roles that change behind the cache while answers are under way (`RoleTraffic`), or to
tokens that are replaced (`TokenTraffic`); both calls need the token of the owner. The constraint cuts behaviours off where they mix the two,
so `CallsEnd` is checked of those that do not: what mixes them are steps of Twitch and of new calls, none of which
a call waits for. `CACHE_TTL` 2 tells a fresh entry from an old one, `MaxDelay` 1 an answer that is received late from one that is not; `MaxPairs` 3 is the first pair, a
refreshed one and one of a login. *Background.* Three posts: one renews, one has its turn in the queue, one
waits for the mutex to be unlocked. Four messages over two channels with a limit of two: a list that
is full, and drops one, in a load that brings messages it has.

`CHECK_DEADLOCK FALSE` everywhere: a server that nobody calls stands still, and the clock
stops at its bound.

**Ghosts in the properties.** A goal that is `clobbered`, that is, went under the save of a row
that was out of date, or under a second create, is exempt from the properties that speak of
one goal's life: the code does lose updates there, which the hazard list says. `RunningTimerArmed`
exempts every goal that is not `clean` from having a timeout (`goal_stuck` shows why), and nothing from having the
right one. A goal that is `restored` is otherwise held to all properties: `VoteNotEarly` compares
across the restart itself, by the row, `OpenVoteBelowTarget` holds of it, and
`RowFollowsGoal` lets it differ from its row by the expiry of its countdown only. One that is
`astray` is exempt from `OpenVoteBelowTarget`, since the row it was read from need not have been below its target.
A row that is `adrift` is exempt from the properties that match rows
with memory: the order in which two statements on two connections arrive is nobody's, and one
that failed is not tried again. The exemption is as short as the code allows. In the chat votes a
statement that is sent when no other about its rows is under way, and that leaves nothing of what was
there (the save of a vote, a clear, a delete), sets the rows right again. In both services
the next process does. The properties do not say that the exempted cases are rare: they
say that a row and its goal, or a vote and its viewer, part in no other way. A guard never reads a ghost.

**Fairness.** `FairSpec` (goal): weak for `Tick` and statements, which PostgreSQL answers;
strong for `TimerFires`, since the model makes a callback wait for a free connection, which
the code's does not: it queues. `FairChatSpec`: weak for `Register` (the client reconnects for
ever), strong for `Answers` (a server reached again and again answers in the end). No request,
vote, join or part is fair: nobody has to call. `FairSpec` (users): weak for the steps of each call
and its refreshes, since requests to Twitch and statements end, well or not; logins and expiry are
not fair. `IgdbFairness`: weak for each post, likewise. `LogFairness`: weak for `SendLogs`, which a
cron runs every second, and for the end of a batch. The violation of `CountdownEnds` in
`goal_stuck` is under the fairness of `ArmedCountdownEnds` in `goal_timers`, which differs from it only in
asking for a timeout.

**Mutants.** For each property of a passing run `PROJECT.json` names one definition and a wrong
form of it (a timeout not cleared, a part that ignores other modules, a row saved over the
body, ...) for which the run fails.

## 5. What is proved

All for any sets of goals, users, channels, modules, connections, requests, timers and bodies,
cards, bodies, limits and tokens, from the assumptions named in the modules (`InputsAssumption`,
`EnvironmentAssumption`, `VotesAssumption`, `VotingsAssumption`, `UsersAssumption`, `IgdbAssumption`,
`LogsAssumption`, `RecentAssumption`): that the
constants have their types, the defaults are among the allowed values, that the two default
commands of a chat voting differ, and that the requests and the ids of options are finitely many,
where they are counted.

| Theorem | Says |
|---|---|
| `ChatGoalProofs!TypeCorrect` | `[]TypeOK` |
| `ChatGoalRowProofs!RowsHaveGoals`, `RowsFollowGoals`, `EventsHaveGoals` | `[]RowHasGoal`, `[]RowFollowsGoal`, `[]EventHasItsGoal`, the last two of all goals but those adrift (and `RowFollowsGoal` clobbered) |
| `ChatGoalTimerProofs!CountdownsArmed`, `TimeoutsHeld` | `[]RunningTimerArmed`, `[]NoStrayTimer` |
| `ChatGoalRowProofs!OpenVotesBelowTarget` | `[]OpenVoteBelowTarget`, of all goals but those clobbered, or read back from a row that had come apart |
| `ChatGoalTimerProofs!VotesOpenOnTime`, `FinishedStaysFinished` | `VoteNotEarly`, `FinishedReopensEmpty` |
| `TwitchChatProofs!SubscriptionsHeard` | `[]SubscribedIsHeard` |
| `TwitchChatProofs!ClientImplementsSubscriptions` | the client implements `Subscriptions` |
| `ChatVotesProofs!VotesTypeCorrect`, `EntriesStayComplete` | `[]TypeOK`, `[]EntriesComplete` |
| `ChatVotesProofs!VotesAreSaid`, `RowsFollowMemory` | `[]VotesFollowChat`, `[]RowFollowsMemory` |
| `ChatVotesProofs!VotingsHeard`, `VotesImplementSubscriptions` | the same two of the client inside `ChatVotes` |
| `VotingsProofs!VotingsTypeCorrect` | `[]TypeOK` |
| `VotingsProofs!VotesKeepTheirOptions`, `VotingsFollowRequests` | `[]VotesHaveOptions`, `[]RowFollowsRequests` |
| `VotingsProofs!RateLimitHolds`, `NoVoteIsLost` | `[]VotesWithinRate`, `VotesNotLost` |
| `VotingsProofs!FewOptionsPerUser`, `FewOptionsPerVoting`, `FewEqualCards` | `[]OptionsPerUser`, `[]OptionsWithinLimit`, `[]CardsPerVoting` |
| `UsersProofs!UsersTypeCorrect` | `[]TypeOK` |
| `UsersProofs!RefreshIsSingle`, `NobodyWaitsInVain` | `[]RefreshedOnce`, `[]WaitersAreServed` |
| `UsersProofs!InvalidOnlyAfterRefusal`, `StoredTokensGood` | `[]InvalidAfterRefusal`, `[]StoredTokenNotRevoked` |
| `UsersProofs!RolesAreHeld` | `RolesHeldLately` |
| `BackgroundProofs!RenewalIsAlone`, `LinesInOrder`, `MessagesInOrder` | `[]RenewsAlone`, `[]LogsInOrder`, `[]RecentInOrder`, each of its component alone |
| `BackgroundProofs!BackgroundTypeCorrect` | `[]TypeOK` of the three in one state space |

So every property a passing run checks, but liveness, is proved.

The inductive invariants, and why the properties alone are not inductive:

- *Goal, types* (`TypeInv`): `TypeOK`, and that a process that is down holds nothing
  (`DownIsEmpty`), and that an armed timeout's goal is in the map (`ArmedHasGoal`): the callback
  uses it without looking.
- *Goal, rows* (`RowInv`): adds that a save in flight is of a goal in the map
  (`SavesHaveGoals`), because it is where rows come from.
- *Goal, timers* (`TimerInv`): `RunningTimerArmed` and `NoStrayTimer` need each other, and that
  two goals never hold one timeout (`HeldApart`) and a held timeout that is armed is the
  holder's (`HeldIsOwn`): else a pause of one would disarm the other. The action properties
  follow from `TimerInv` and a lemma that says, step by step, how a status may change
  (`StatusSteps`).
- *Goal, what the rows say* (`KeptInv`): for a goal that is not adrift, at most one statement about
  it is in flight, and its row, or `Written`, its row once that is answered, is the goal in memory, or what
  a restart has made of that row (`RowIsGoal`). That is
  `RowFollowsGoal` when nothing is in flight; and since the event of a vote goes with
  an UPDATE, whose row must then be there, `EventHasItsGoal` follows as well.
- *Goal, open votes* (`OpenInv`): `TimerInv` and `KeptInv`, and that *every* sound goal but a finished one is below
  its target (`UnfinishedBelow`), also one that waits, counts down or is paused: a countdown opens its
  vote without looking, so what it must find was settled by the updates and votes before. The next process
  must find it in the row, so the rows, and what statements in flight make of them, are below the
  target, too (`SoundRows`), which needs that row and goal go together. While no
  process runs a goal is `clean`, or its row is one to be read back `astray` (`DownClean`).
- *Client* (`ChatInv`): an unregistered client has no commands and no channels
  (`EmptyOffline`), and every subscribed channel is promised (`SubscribedIsPromised`), which
  speaks of the *last* command of a queue and so survives answers.
- *Votes* (`EntryInv`): an entry is complete, a row sound; rows come from saves, saves from
  requests that found a row or made an entry, so each link of that chain is a conjunct.
- *Votes, what is stored* (`VotesKept`, `RowInv`): the same idea, key by key. A vote not adrift has at
  most one statement in flight, and what that will leave is `said`; the SELECT of a save decides
  between INSERT and UPDATE steps before either, so the invariant must also say that the decision
  still fits the table. A voting not adrift, and not clobbered, will be what the entry and the
  subscription say: this needs that a process that is not running is subscribed to nothing
  (`SubscribesLater`), for the start-up to join exactly the channels of the listening rows.
- *Composition*: every step of `ChatVotes` is a step of `TwitchChat` or leaves the client
  alone (`NextIsClientStep`, given that requests hold channels, from `TypeOK`), so that the
  client's theorems carry over. `TypeOK`, which contains the client's types, is proved together with
  them (`TypeInv`).
- *Votings* (`Inv`): a vote is saved with an option that was read steps ago, so that
  `VotesHaveOptions` needs that an id is not used twice (`IdsKnown`) and that an option, while
  it is there, belongs to the voting a request took it for (`OptionKnown`). The rate limit
  (`VotesWithinRate`) is inductive with `Inv`: a vote let through was one of those that were asking.
  `VotesNotLost` needs `Grounds`, why each deletion under way may delete: that there were
  no votes for the option but those it has been `overtaken` by. The limits of options (`Limited`) share one
  argument: counts and requests behind them change by a step that keeps both, one that counts, one
  that looks up, or one that inserts (`CountsKept`, `FetchesKept`, `OptionsFewer`, `FewerFit`,
  `OneFits`); a request that begins to count finds the limit kept (`OneFits`).
- *Users* (`Inv`): single flight is `Kept`: a branch that refreshes waits for itself and is the
  one in the map (`Running`), the map holds refreshes that run, or a rejection (`Held`), and who waits
  waits for what the map holds for its user (`Served`). None of the three holds alone: a refresh
  that ends clears the map, and must find all who wait for it. `Valid` says the same of tokens and
  flags in the hands of failed refreshes and of logins. `Tokens`: each store has a fresh pair of
  its own (`HandsFresh`, `HandsApart`), so a pair that is being saved was never revoked.
  `AnswersTrue`: what an entry says was true at most `MaxDelay` before it was set (`CacheTrue`), and what an
  answer under way, or got by a branch, says was true no longer ago than it may have come from the cache and been
  waited for (`LookupsTrue`), so that a role is granted no longer than the two together after it was lost.
- *Background* (`IgdbInv`, `LogInv`, `RecentInv`). `RenewsAlone` is nearly inductive: a post that waits
  in `turns` must be there once, or it would be let in twice; added is only that who renews is
  authenticating or saving. Log lines: the three
  sequences (arrived, under way, queued) are each in order, every line of one is less than every line
  of the next, and the lines of the three with those dropped are all that were logged; so stated, part by
  part, each step moves one part, which the lemmas on concatenation (`ConcatInOrder`,
  `ConcatElements`, `ThreeInOrder`) turn into `LogsInOrder`. Recent messages: the store likewise,
  by channel; the lists in memory *and* the loads that are to replace them are in order, within the limit
  and of what has been said, because the next message is greater than all of it.

Only model-checked: liveness (`ArmedCountdownEnds`, `SubscribedGetsHeard`, `CallsEnd`, `PostsEnd`,
`LogsDrain`), which is out of the prover's reach.

## 6. Where the code disagrees with its tests and comments

| Run | Code | What happens |
|---|---|---|
| `goal_stuck` | `chat-goal.service.ts:101` | a countdown that is restored at start-up before its end has no timeout: "Timestamp when timer should finish" passes, and nothing happens until somebody pauses or resets it |
| `goal_deleted` | `chat-goal.service.ts:232` | a deleted goal stays in the map and joined; a (skipped) test says "should stop listening to chat" |
| `goal_spent` | `chat-goal.service.ts:130` | shutdown collects the votes users have spent and does not save them, so that a restart hands them out again (nothing else stores them either: `resetVotes` saves `byUser`, which is no column of the table, `:360`) |
| `votes_switched_off` | `chat-votes.service.ts:262` | a voting that does not listen takes votes whenever its channel is joined: by another module, or by the `register` handler, which joins every channel ever known; a test says "should stop listening chat if listening switches to false" |

Each run's counterexample is the scenario; the last fits in eight steps.

## 7. What is not modelled, and the plan

Components left out, and why:

- *API clients and their types.* `twitch-api.generated.ts` and `kinopoisk-api.generated.ts` are two
  thirds of the source lines, generated from descriptions of the services, and declare
  requests one by one. There is no behaviour in them to state anything about. The wrappers
  beside them turn one call into one request.
- *Telegram watcher.* It could post twice or skip posts when polls overlap, but nobody adds a
  channel: the caller is commented out (`honey-bot.service.ts:56-71`), so that its list stays empty
  in every state the program can reach.
- *Clips downloader, Honey bot, Formula 1, Games, Instagram, link shortener, app-awake.* Relays from
  a message or a clock to one request. Formula 1 and the recent messages are not loaded by `AppModule`;
  the latter are modelled because they keep state.
- *Bootstrap, migrations, crypto.* What they decide (foreign keys, shutdown hooks, when tokens can be
  decrypted) is in the models of the parts that rely on it.

Left out of the modelled components: HTTP and validation of bodies, access checks that only
decide whether a request goes on (but for the `await` they cost), texts, Swagger, the range of
`setTimeout`.

Hazards that no property covers: an update that takes a goal out of its running countdown, a statement that fails
behind the back of memory, a JOIN that is refused, the goal that `createGoal` does not join and the token of IGDB that
is renewed in the table and not in memory (`igdb-request.service.ts:57`) are all in the models as
the code has them, are exempted by name, and a property would only restate the line; durations beyond the
range of `setTimeout` are outside the model.

The order of the work:

1. `ChatGoal`, `TwitchChat`/`Subscriptions`, `ChatVotes` with their proofs: done.
2. `Votings`, with the proof of every property: done.
3. `UsersService`, with the proof of every safety property: done.
4. `IgdbRequests`, `LogShipping`, `RecentMessages`, with the proof of every safety property: done.
5. Every safety property of the goal and of the chat votes, on any number of connections: done.
6. Next: an abstract specification of `Votings` with atomic requests, and the refinement that holds when
   requests come one by one.
