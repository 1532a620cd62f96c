---------------------------- MODULE VotingTables ----------------------------
(* The votings of HoneyVotes: what VotingService, VotingOptionsService and  *)
(* VotesService share.  They keep nothing in memory but the rate limit of   *)
(* votes; a request reads what it needs from the tables, asks Twitch for    *)
(* roles, and writes, with other requests in between.                       *)
(*                                                                         *)
(* A request that is turned down at once changes nothing, and is not a      *)
(* step.  Any later await may fail: the request ends with an error.         *)
EXTENDS Naturals, FiniteSets

CONSTANTS
  Users,        \* rows of hv_user; they are never deleted
  VotingIds,    \* ids of the votings that are created, in time
  OptionIds,    \* ids of the options that are created, in time
  Cards,        \* cards of options: a type, an id and a title
  Broadcaster,  \* [VotingIds -> Users]
  RolesOf,      \* [Users -> SUBSET (Role \cup {"editor"})]: what Twitch knows
  Bodies,       \* bodies of POST and PUT /voting
  Limits,       \* the values of votingOptionsLimit in use
  LimitDefault, \* VOTING_OPTIONS_LIMIT_DEFAULT
  Requests,     \* requests that may be in progress together
  Actors,       \* bound: [VotingIds -> [Operation -> SUBSET Users]], who issues what
  None          \* no row, no request, no vote

Operation == {"createVoting", "updateVoting", "deleteVoting", "createOption",
              "deleteOption", "createVote", "deleteVote"}

\* A follower who has not followed long enough, and a subscriber of too low a
\* tier, do not have the role.
Role == {"mod", "vip", "sub", "follower", "viewer"}

VotingOptionType == {"kinopoiskMovie", "igdbGame", "custom"}

Card == [type : VotingOptionType, id : STRING, title : STRING]

VotingPermissions == [canVote : SUBSET Role, canAddOptions : SUBSET Role]

\* Title, description and showValues decide nothing.
Voting ==
  [canManageVotes : BOOLEAN, canManageVotingOptions : BOOLEAN,
   permissions : VotingPermissions,
   allowedVotingOptionTypes : SUBSET VotingOptionType, votingOptionsLimit : Limits]

VotingDefault ==
  [canManageVotes |-> TRUE, canManageVotingOptions |-> TRUE,
   permissions |-> [canVote |-> {"mod", "vip", "sub"}, canAddOptions |-> {"mod", "vip", "sub"}],
   allowedVotingOptionTypes |-> VotingOptionType, votingOptionsLimit |-> LimitDefault]

VotingOption == [voting : VotingIds, author : Users, card : Cards]

\* {...voting, ...data}
Assign(voting, data) ==
  [col \in DOMAIN voting |-> IF col \in DOMAIN data THEN data[col] ELSE voting[col]]

\* What a request has found out, and waits for:
\*   "editor"    for Twitch to say whether its user is an editor of the channel
\*   "voted", "unvoted"  for the same, the votes for its option having been counted
\*   "roles"     for Twitch to say which roles the user has
\*   "card"      for the lookup of the same card
\*   "granted"   for the statement that does what it is for
\*   "insert", "update"  for that statement, once a SELECT has chosen it
Stage == {"editor", "voted", "unvoted", "roles", "card", "granted", "insert", "update"}

\* voting, option, card and body: what the request is about; row: the voting as
\* it was read, while it is needed.
Request ==
  [op : Operation, user : Users, voting : VotingIds, option : OptionIds \cup {None},
   card : Cards \cup {None}, body : Bodies \cup {None}, row : Voting \cup {None},
   stage : Stage]

ASSUME VotingsAssumption ==
  /\ OptionIds \subseteq Nat /\ IsFiniteSet(OptionIds)
  /\ IsFiniteSet(Requests) /\ Requests # {}
  /\ Limits \subseteq Nat \ {0} /\ LimitDefault \in Limits
  /\ Cards \subseteq Card
  /\ Broadcaster \in [VotingIds -> Users]
  /\ RolesOf \in [Users -> SUBSET (Role \cup {"editor"})]
  /\ Actors \in [VotingIds -> [Operation -> SUBSET Users]]
  /\ None \notin OptionIds /\ None \notin Cards /\ None \notin Bodies
  /\ None \notin Voting /\ None \notin VotingOption /\ None \notin Request
  /\ \A data \in Bodies, voting \in Voting : Assign(voting, data) \in Voting

----------------------------------------------------------------------------
VARIABLES
  votings,    \* hv_voting: votings[v] is a row or None
  options,    \* hv_voting_option: options[o] is a row or None
  votes,      \* hv_vote: votes[u][v] is the option u votes for in v, or None
  votingIds,  \* the ids hv_voting has handed out
  optionIds,  \* the ids hv_voting_option has handed out
  limited,    \* the cache: the <<user, voting>> whose rate limit is set
  requests,   \* requests[r]: the request in progress, or None
  asked,      \* history: votings as the requests, one by one, asked for
  clobbered,  \* history: votings saved on the ground of a row out of date
  highest,    \* history: the highest limit of options a voting's row has had
  accepted,   \* history: accepted[<<u, v>>], votes let through since the limit was off
  overtaken   \* history: overtaken[r], the <<user, voting>> that voted meanwhile

tableVars == <<votings, options, votes, votingIds, optionIds>>
vars == <<tableVars, limited, requests, asked, clobbered, highest, accepted, overtaken>>

Init ==
  /\ votings = [v \in VotingIds |-> None]
  /\ options = [o \in OptionIds |-> None]
  /\ votes = [u \in Users |-> [v \in VotingIds |-> None]]
  /\ votingIds = {}
  /\ optionIds = {}
  /\ limited = {}
  /\ requests = [r \in Requests |-> None]
  /\ asked = [v \in VotingIds |-> None]
  /\ clobbered = {}
  /\ highest = [v \in VotingIds |-> 0]
  /\ accepted = [p \in Users \X VotingIds |-> 0]
  /\ overtaken = [r \in Requests |-> {}]

\* A row of the voting is saved.
NotesLimit(v, row) ==
  highest' = [highest EXCEPT
    ![v] = IF row.votingOptionsLimit > @ THEN row.votingOptionsLimit ELSE @]

----------------------------------------------------------------------------
(* Requests                                                                 *)

IsBroadcaster(u, v) == u = Broadcaster[v]

IsStaff(u, v) == IsBroadcaster(u, v) \/ "editor" \in RolesOf[u]

Idle(r) == requests[r] = None

Begin(r, request) ==
  /\ Idle(r)
  /\ requests' = [requests EXCEPT ![r] = request]
  /\ UNCHANGED overtaken

NewRequest(op, u, v, stage) ==
  [op |-> op, user |-> u, voting |-> v, option |-> None, card |-> None,
   body |-> None, row |-> None, stage |-> stage]

At(r, op, stage) ==
  requests[r] # None /\ requests[r].op = op /\ requests[r].stage = stage

MovesTo(r, stage) ==
  /\ requests' = [requests EXCEPT ![r].stage = stage]
  /\ UNCHANGED overtaken

\* As MovesTo, for a request that has no more use for the voting it has read.
Granted(r) ==
  /\ requests' = [requests EXCEPT ![r].stage = "granted", ![r].row = None]
  /\ UNCHANGED overtaken

Ends(r) ==
  /\ requests' = [requests EXCEPT ![r] = None]
  /\ overtaken' = [overtaken EXCEPT ![r] = {}]

\* Something the request awaits fails.
Fails(r) ==
  /\ requests[r] # None
  /\ Ends(r)
  /\ UNCHANGED <<tableVars, limited, asked, clobbered, highest, accepted>>

\* The request about a voting whose user turns out to be an editor of the channel.
IsEditor(r) == "editor" \in RolesOf[requests[r].user]

\* isHasPermissions for the roles a voting asks for; "viewer" is not asked for.
HasPermissions(u, roles) == RolesOf[u] \cap (roles \ {"viewer"}) # {}

OptionsOf(v) == {o \in OptionIds : options[o] # None /\ options[o].voting = v}

\* The options go (ON DELETE CASCADE), and the votes for them.
DeletesOptions(os) ==
  /\ options' = [o \in OptionIds |-> IF o \in os THEN None ELSE options[o]]
  /\ votes' = [u \in Users |-> [v \in VotingIds |->
                 IF votes[u][v] \in os THEN None ELSE votes[u][v]]]
=============================================================================
