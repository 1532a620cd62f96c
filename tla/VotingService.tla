---------------------------- MODULE VotingService ----------------------------
(* VotingService: a broadcaster, or an editor of the channel, creates,      *)
(* updates and deletes the votings of the channel.                          *)
EXTENDS VotingTables

unchangedByVoting == <<limited, accepted, optionIds>>

\* The broadcaster is let through at once; for others Twitch is asked.
AccessStage(u, v) == IF IsBroadcaster(u, v) THEN "granted" ELSE "editor"

\* createVoting.  The voting takes the next id when it is inserted; which id that
\* will be is chosen here.
CreateVotingBegins(r, u, v, data) ==
  /\ u \in Actors[v]["createVoting"]
  /\ v \notin votingIds
  /\ votingIds' = votingIds \cup {v}
  /\ Begin(r, [NewRequest("createVoting", u, v, AccessStage(u, v)) EXCEPT !.body = data])
  /\ UNCHANGED <<votings, options, votes, asked, clobbered, highest, unchangedByVoting>>

\* Mutant: the columns the body leaves out have no defaults.
InsertsVotingAsSent(r) ==
  LET v == requests[r].voting
  IN /\ At(r, "createVoting", "granted")
     /\ votings' = [votings EXCEPT ![v] = requests[r].body]
     /\ UNCHANGED highest
     /\ asked' = [asked EXCEPT ![v] = votings'[v]]
     /\ Ends(r)
     /\ UNCHANGED <<options, votes, votingIds, clobbered, unchangedByVoting>>

InsertsVoting(r) ==
  LET v == requests[r].voting
  IN /\ At(r, "createVoting", "granted")
     /\ votings' = [votings EXCEPT ![v] = Assign(VotingDefault, requests[r].body)]
     /\ NotesLimit(v, votings'[v])
     /\ asked' = [asked EXCEPT ![v] = votings'[v]]
     /\ Ends(r)
     /\ UNCHANGED <<options, votes, votingIds, clobbered, unchangedByVoting>>

\* updateVoting reads the whole row, and keeps it.
UpdateVotingBegins(r, u, v, data) ==
  /\ u \in Actors[v]["updateVoting"]
  /\ votings[v] # None
  /\ Begin(r, [NewRequest("updateVoting", u, v, AccessStage(u, v))
                 EXCEPT !.body = data, !.row = votings[v]])
  /\ UNCHANGED <<tableVars, limited, asked, clobbered, highest, accepted>>

\* Mutant: save({...data, ...voting}).
SavesVotingAsRead(r) ==
  LET v == requests[r].voting
  IN /\ At(r, "updateVoting", "granted")
     /\ votings' = [votings EXCEPT ![v] = requests[r].row]
     /\ NotesLimit(v, votings'[v])
     /\ clobbered' = IF votings[v] = requests[r].row THEN clobbered ELSE clobbered \cup {v}
     /\ asked' = [asked EXCEPT ![v] = IF v \in clobbered' THEN votings'[v]
                                      ELSE Assign(@, requests[r].body)]
     /\ Ends(r)
     /\ UNCHANGED <<options, votes, votingIds, unchangedByVoting>>

\* The row it has read, with the body over it, is saved: inserted again when the
\* voting is gone.
SavesVoting(r) ==
  LET v == requests[r].voting
  IN /\ At(r, "updateVoting", "granted")
     /\ votings' = [votings EXCEPT ![v] = Assign(requests[r].row, requests[r].body)]
     /\ NotesLimit(v, votings'[v])
     /\ clobbered' = IF votings[v] = requests[r].row THEN clobbered ELSE clobbered \cup {v}
     /\ asked' = [asked EXCEPT ![v] = IF v \in clobbered' THEN votings'[v]
                                      ELSE Assign(@, requests[r].body)]
     /\ Ends(r)
     /\ UNCHANGED <<options, votes, votingIds, unchangedByVoting>>

DeleteVotingBegins(r, u, v) ==
  /\ u \in Actors[v]["deleteVoting"]
  /\ votings[v] # None
  /\ Begin(r, NewRequest("deleteVoting", u, v, AccessStage(u, v)))
  /\ UNCHANGED <<tableVars, limited, asked, clobbered, highest, accepted>>

DeletesVoting(r) ==
  LET v == requests[r].voting
  IN /\ At(r, "deleteVoting", "granted")
     /\ votings' = [votings EXCEPT ![v] = None]
     /\ DeletesOptions(OptionsOf(v))
     /\ asked' = [asked EXCEPT ![v] = None]
     /\ Ends(r)
     /\ UNCHANGED <<votingIds, clobbered, highest, unchangedByVoting>>

\* canCreateVoting and canUpdateOrDeleteVoting: what Twitch says of the user.
VotingEditorAnswered(r) ==
  /\ \E op \in {"createVoting", "updateVoting", "deleteVoting"} : At(r, op, "editor")
  /\ IF IsEditor(r) THEN MovesTo(r, "granted") ELSE Ends(r)
  /\ UNCHANGED <<tableVars, limited, asked, clobbered, highest, accepted>>

VotingStep(r) ==
  \/ /\ Idle(r)
     /\ \E u \in Users, v \in VotingIds :
          \/ \E data \in Bodies : CreateVotingBegins(r, u, v, data)
          \/ \E data \in Bodies : UpdateVotingBegins(r, u, v, data)
          \/ DeleteVotingBegins(r, u, v)
  \/ VotingEditorAnswered(r)
  \/ InsertsVoting(r)
  \/ SavesVoting(r)
  \/ DeletesVoting(r)
=============================================================================
