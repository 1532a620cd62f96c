------------------------------ MODULE Votings ------------------------------
(* The votings of HoneyVotes: the three services over their tables, each    *)
(* request in steps, the steps of all requests interleaved.                 *)
EXTENDS VotingService, VotingOptionsService, VotesService

Next ==
  \/ \E r \in Requests :
       \/ VotingStep(r)
       \/ OptionStep(r)
       \/ VoteStep(r)
       \/ Fails(r)
  \/ \E u \in Users, v \in VotingIds : LimitExpires(u, v)

Spec == Init /\ [][Next]_vars

----------------------------------------------------------------------------
(* Properties                                                               *)

\* The type invariant: rows, requests and the cache have their columns.
TypeOK ==
  /\ votings \in [VotingIds -> Voting \cup {None}]
  /\ options \in [OptionIds -> VotingOption \cup {None}]
  /\ votes \in [Users -> [VotingIds -> OptionIds \cup {None}]]
  /\ votingIds \subseteq VotingIds
  /\ optionIds \subseteq OptionIds
  /\ limited \subseteq Users \X VotingIds
  /\ requests \in [Requests -> Request \cup {None}]
  /\ asked \in [VotingIds -> Voting \cup {None}]
  /\ clobbered \subseteq VotingIds
  /\ highest \in [VotingIds -> Nat]
  /\ accepted \in [Users \X VotingIds -> Nat]
  /\ overtaken \in [Requests -> SUBSET (Users \X VotingIds)]

\* A vote is for an option that exists, and that belongs to the voting the vote is
\* counted in; an option belongs to a voting that exists.  Votes are saved with the
\* option and the voting that were read before Twitch was asked, while others delete
\* both.
VotesHaveOptions ==
  /\ \A o \in OptionIds : options[o] # None => votings[options[o].voting] # None
  /\ \A u \in Users, v \in VotingIds :
       votes[u][v] # None =>
         /\ options[votes[u][v]] # None
         /\ options[votes[u][v]].voting = v

\* Requests that will add an option unless they fail, with the counts behind them.
Counted(v) ==
  {r \in Requests :
     /\ \E stage \in {"roles", "card", "granted"} : At(r, "createOption", stage)
     /\ requests[r].voting = v
     /\ ~IsStaff(requests[r].user, v)}

\* Options users have added under the limits.
UserOptions(v) == {o \in OptionsOf(v) : ~IsStaff(options[o].author, v)}

\* "votingOptionsByUserCount >= 1" is checked before the option is saved, so that
\* requests of one user that run together may all pass, but no more of them than
\* run together: the options of a user, and the requests that will add another,
\* are never more than Requests; a single one when requests come one by one.
OptionsPerUser ==
  \A v \in VotingIds, u \in Users :
    ~IsStaff(u, v) =>
      Cardinality(OptionsBy(u, v)) + Cardinality({r \in Counted(v) : requests[r].user = u})
        <= Cardinality(Requests)

\* Likewise votingOptionsLimit: the options of users in a voting, and the requests that
\* will add another, exceed the highest limit this voting has had by less than the
\* number of requests that run together.  (The highest it has had: lowering the limit
\* takes no option away, and a request compares with the limit it has read.)
OptionsWithinLimit ==
  \A v \in VotingIds :
    Cardinality(UserOptions(v)) + Cardinality(Counted(v)) < highest[v] + Cardinality(Requests)

\* Likewise getVotingOptionCard, which binds the broadcaster and editors, too.
SameCards(v, card) == {o \in OptionsOf(v) : options[o].card = card}

LookedUp(v, card) ==
  {r \in Requests :
     At(r, "createOption", "granted") /\ requests[r].voting = v /\ requests[r].card = card}

CardsPerVoting ==
  \A v \in VotingIds, card \in Cards :
    Cardinality(SameCards(v, card)) + Cardinality(LookedUp(v, card)) <= Cardinality(Requests)

\* Votes of a user the cache does not limit yet, but that have been looked up in it.
Asking(u, v) ==
  {r \in Requests :
     At(r, "createVote", "roles") /\ requests[r].user = u /\ requests[r].voting = v}

\* The rate limit is looked up, awaited past and set: in the minute that follows a
\* vote, a user gets no more votes through than requests run together, and none
\* begins while the limit is set.
VotesWithinRate ==
  \A u \in Users, v \in VotingIds :
    /\ accepted[<<u, v>>] > 0 <=> <<u, v>> \in limited
    /\ accepted[<<u, v>>] + Cardinality(Asking(u, v)) <= Cardinality(Requests)

\* updateVoting writes a whole row it has read before Twitch was asked.  Without
\* another update or delete in between (clobbered), the row is what the requests
\* asked for, one after the other.
RowFollowsRequests ==
  \A v \in VotingIds \ clobbered : votings[v] = asked[v]

\* A vote goes away only at the hand of its user, who named that option; of the
\* broadcaster or an editor, with the option or the voting; or of a deletion that
\* the vote has overtaken: one that found no votes for the option (canDelete-
\* VotingOption), or the user's own, aimed at an earlier vote.
VotesNotLost ==
  [][\A u \in Users, v \in VotingIds :
       votes[u][v] # None /\ votes'[u][v] = None =>
         \E r \in Requests :
           /\ requests[r] # None /\ requests'[r] = None
           /\ requests[r].op \in {"deleteVote", "deleteOption", "deleteVoting"}
           /\ \/ requests[r].op = "deleteVote" /\ requests[r].user = u
                 /\ requests[r].option = votes[u][v]
              \/ requests[r].op # "deleteVote" /\ IsStaff(requests[r].user, v)
              \/ <<u, v>> \in overtaken[r]]_vars
=============================================================================
