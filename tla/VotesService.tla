---------------------------- MODULE VotesService ----------------------------
(* VotesService: a user votes for one option of a voting, moves the vote to *)
(* another option, or takes it back, at most once a minute.                 *)
EXTENDS VotingTables

\* The vote is let through: the rate limit is set, and the save begins.
Accepts(u, v) ==
  /\ limited' = limited \cup {<<u, v>>}
  /\ accepted' = [accepted EXCEPT ![<<u, v>>] = @ + 1]

\* Mutant: the rate limit is set when Twitch has answered, but not looked up.
CreateVoteBeginsUnlimited(r, u, o) ==
  LET v == options[o].voting
  IN /\ options[o] # None
     /\ u \in Actors[v]["createVote"]
     /\ votings[v].canManageVotes
     /\ IF "viewer" \in votings[v].permissions.canVote
        THEN /\ Begin(r, [NewRequest("createVote", u, v, "granted") EXCEPT !.option = o])
             /\ Accepts(u, v)
        ELSE /\ Begin(r, [NewRequest("createVote", u, v, "roles")
                            EXCEPT !.option = o, !.row = votings[v]])
             /\ UNCHANGED <<limited, accepted>>
     /\ UNCHANGED <<tableVars, asked, clobbered, highest>>

\* createVote reads the option and its voting; canCreateVote looks the rate limit
\* up, and sets it at once when everybody may vote.
CreateVoteBegins(r, u, o) ==
  LET v == options[o].voting
  IN /\ options[o] # None
     /\ u \in Actors[v]["createVote"]
     /\ votings[v].canManageVotes
     /\ <<u, v>> \notin limited
     /\ IF "viewer" \in votings[v].permissions.canVote
        THEN /\ Begin(r, [NewRequest("createVote", u, v, "granted") EXCEPT !.option = o])
             /\ Accepts(u, v)
        ELSE /\ Begin(r, [NewRequest("createVote", u, v, "roles")
                            EXCEPT !.option = o, !.row = votings[v]])
             /\ UNCHANGED <<limited, accepted>>
     /\ UNCHANGED <<tableVars, asked, clobbered, highest>>

\* Twitch has answered, and the rate limit is set, whoever has set it meanwhile.
CreateVoteRolesAnswered(r) ==
  LET q == requests[r]
  IN /\ At(r, "createVote", "roles")
     /\ IF HasPermissions(q.user, q.row.permissions.canVote)
        THEN /\ Granted(r)
             /\ Accepts(q.user, q.voting)
        ELSE /\ Ends(r)
             /\ UNCHANGED <<limited, accepted>>
     /\ UNCHANGED <<tableVars, asked, clobbered, highest>>

\* save: the row of the user in the voting is not there, is there, or is there and
\* has nothing to change.
SelectsVote(r) ==
  LET q == requests[r]
  IN /\ At(r, "createVote", "granted")
     /\ IF votes[q.user][q.voting] = q.option THEN Ends(r)
        ELSE MovesTo(r, IF votes[q.user][q.voting] = None THEN "insert" ELSE "update")
     /\ UNCHANGED <<tableVars, limited, asked, clobbered, highest, accepted>>

\* The deletions under way that this vote overtakes.
Overtakes(r, u, v) ==
  overtaken' = [s \in Requests |->
    IF s = r THEN {}
    ELSE IF requests[s] # None /\ requests[s].op \in {"deleteOption", "deleteVote"}
         THEN overtaken[s] \cup {<<u, v>>} ELSE overtaken[s]]

\* Mutant: the row of the vote is written without its foreign keys.
WritesVoteUnchecked(r) ==
  LET q == requests[r]
  IN /\ \/ At(r, "createVote", "insert")
        \/ At(r, "createVote", "update")
     /\ votes' = [votes EXCEPT ![q.user][q.voting] = q.option]
     /\ Overtakes(r, q.user, q.voting)
     /\ requests' = [requests EXCEPT ![r] = None]
     /\ UNCHANGED <<votings, options, votingIds, optionIds, limited, asked, clobbered, highest, accepted>>

\* An INSERT fails when there is a row by now (primary key), an UPDATE changes
\* nothing when there is none; both need the option (foreign key), and with it
\* there is its voting.
WritesVote(r) ==
  LET q == requests[r]
      hasRow == votes[q.user][q.voting] # None
  IN /\ \/ At(r, "createVote", "insert")
        \/ At(r, "createVote", "update")
     /\ requests' = [requests EXCEPT ![r] = None]
     /\ IF options[q.option] # None /\ (hasRow <=> q.stage = "update")
        THEN /\ votes' = [votes EXCEPT ![q.user][q.voting] = q.option]
             /\ Overtakes(r, q.user, q.voting)
        ELSE UNCHANGED <<votes, overtaken>>
     /\ UNCHANGED <<votings, options, votingIds, optionIds, limited, asked, clobbered, highest, accepted>>

\* deleteVote reads the vote of this user for this option; canDeleteVote looks at
\* the rate limit.
DeleteVoteBegins(r, u, o) ==
  LET v == options[o].voting
  IN /\ options[o] # None
     /\ u \in Actors[v]["deleteVote"]
     /\ votes[u][v] = o
     /\ votings[v].canManageVotes
     /\ <<u, v>> \notin limited
     /\ Begin(r, [NewRequest("deleteVote", u, v, "granted") EXCEPT !.option = o])
     /\ UNCHANGED <<tableVars, limited, asked, clobbered, highest, accepted>>

\* remove goes by the primary key: the user and the voting.
RemovesVote(r) ==
  LET q == requests[r]
  IN /\ At(r, "deleteVote", "granted")
     /\ votes' = [votes EXCEPT ![q.user][q.voting] = None]
     /\ Ends(r)
     /\ UNCHANGED <<votings, options, votingIds, optionIds, limited, asked, clobbered, highest, accepted>>

\* The entry of the cache expires.
LimitExpires(u, v) ==
  /\ <<u, v>> \in limited
  /\ limited' = limited \ {<<u, v>>}
  /\ accepted' = [accepted EXCEPT ![<<u, v>>] = 0]
  /\ UNCHANGED <<tableVars, requests, asked, clobbered, highest, overtaken>>

VoteStep(r) ==
  \/ /\ Idle(r)
     /\ \E u \in Users, o \in OptionIds :
          \/ CreateVoteBegins(r, u, o)
          \/ DeleteVoteBegins(r, u, o)
  \/ CreateVoteRolesAnswered(r)
  \/ SelectsVote(r)
  \/ WritesVote(r)
  \/ RemovesVote(r)
=============================================================================
