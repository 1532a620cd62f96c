------------------------ MODULE VotingOptionsService ------------------------
(* VotingOptionsService: users add options to a voting, each at most one,   *)
(* up to a limit, and take them back while nobody votes for them.  The      *)
(* broadcaster and editors are bound by none of this.                       *)
EXTENDS VotingTables

OptionsBy(u, v) == {o \in OptionsOf(v) : options[o].author = u}

VotesFor(o) == {u \in Users : \E v \in VotingIds : votes[u][v] = o}

\* The lookup of the same card: by title for a custom one, by id for the others.
SameCard(card, other) ==
  IF card.type = "custom" THEN other.title = card.title ELSE other.id = card.id

\* createVotingOption reads the voting; canCreateVotingOption lets the broadcaster
\* pass, unless options are switched off for everybody.
CreateOptionBegins(r, u, v, card) ==
  /\ u \in Actors[v]["createOption"]
  /\ votings[v] # None
  /\ votings[v].canManageVotingOptions
  /\ Begin(r, IF IsBroadcaster(u, v)
              THEN [NewRequest("createOption", u, v, "card") EXCEPT !.card = card]
              ELSE [NewRequest("createOption", u, v, "editor")
                      EXCEPT !.card = card, !.row = votings[v]])
  /\ UNCHANGED <<tableVars, limited, asked, clobbered, highest, accepted>>

\* Mutant: the limit is compared with >.
WithinLimitsPlusOne(u, v, row, card) ==
  /\ Cardinality(OptionsOf(v)) <= row.votingOptionsLimit
  /\ OptionsBy(u, v) = {}
  /\ card.type \in row.allowedVotingOptionTypes

\* Mutant: nobody looks whether the user has added an option already.
WithinLimitsAnyUser(u, v, row, card) ==
  /\ Cardinality(OptionsOf(v)) < row.votingOptionsLimit
  /\ card.type \in row.allowedVotingOptionTypes

\* The counts of now, against the voting as it was read.
WithinLimits(u, v, row, card) ==
  /\ Cardinality(OptionsOf(v)) < row.votingOptionsLimit
  /\ OptionsBy(u, v) = {}
  /\ card.type \in row.allowedVotingOptionTypes

ToCard(r) ==
  /\ requests' = [requests EXCEPT ![r].stage = "card", ![r].row = None]
  /\ UNCHANGED overtaken

\* The user is an editor, or is not, and the options are counted.
CreateOptionEditorAnswered(r) ==
  LET q == requests[r]
  IN /\ At(r, "createOption", "editor")
     /\ IF IsEditor(r) THEN ToCard(r)
        ELSE IF ~WithinLimits(q.user, q.voting, q.row, q.card) THEN Ends(r)
        ELSE IF "viewer" \in q.row.permissions.canAddOptions THEN ToCard(r)
        ELSE MovesTo(r, "roles")
     /\ UNCHANGED <<tableVars, limited, asked, clobbered, highest, accepted>>

CreateOptionRolesAnswered(r) ==
  LET q == requests[r]
  IN /\ At(r, "createOption", "roles")
     /\ IF HasPermissions(q.user, q.row.permissions.canAddOptions) THEN ToCard(r) ELSE Ends(r)
     /\ UNCHANGED <<tableVars, limited, asked, clobbered, highest, accepted>>

\* Mutant: the same card may be added twice.
GetsCardAnyway(r) ==
  /\ At(r, "createOption", "card")
  /\ MovesTo(r, "granted")
  /\ UNCHANGED <<tableVars, limited, asked, clobbered, highest, accepted>>

\* getVotingOptionCard: unless the voting has the same card, it is fetched from
\* Kinopoisk or IGDB, which takes until the next step.
GetsCard(r) ==
  LET q == requests[r]
  IN /\ At(r, "createOption", "card")
     /\ IF \E o \in OptionsOf(q.voting) : SameCard(q.card, options[o].card)
        THEN Ends(r) ELSE MovesTo(r, "granted")
     /\ UNCHANGED <<tableVars, limited, asked, clobbered, highest, accepted>>

\* The INSERT needs the voting (foreign key), and takes the next id.
InsertsOption(r) ==
  LET q == requests[r]
  IN /\ At(r, "createOption", "granted")
     /\ IF votings[q.voting] # None
        THEN \E o \in OptionIds \ optionIds :
               /\ \A other \in OptionIds \ optionIds : o <= other
               /\ options' = [options EXCEPT
                    ![o] = [voting |-> q.voting, author |-> q.user, card |-> q.card]]
               /\ optionIds' = optionIds \cup {o}
        ELSE UNCHANGED <<options, optionIds>>
     /\ Ends(r)
     /\ UNCHANGED <<votings, votes, votingIds, limited, asked, clobbered, highest, accepted>>

\* canDeleteVotingOption reads the option and its voting.
DeleteOptionBegins(r, u, o) ==
  /\ options[o] # None
  /\ u \in Actors[options[o].voting]["deleteOption"]
  /\ LET v == options[o].voting
     IN Begin(r, IF IsBroadcaster(u, v)
                 THEN [NewRequest("deleteOption", u, v, "granted") EXCEPT !.option = o]
                 ELSE [NewRequest("deleteOption", u, v, "editor")
                         EXCEPT !.option = o, !.row = votings[v]])
  /\ UNCHANGED <<tableVars, limited, asked, clobbered, highest, accepted>>

\* The count of the votes is asked for together with Twitch (Promise.all), and is
\* done at any time before Twitch answers: what is voted after it counts for nothing.
DeleteOptionCounts(r) ==
  /\ At(r, "deleteOption", "editor")
  /\ requests' = [requests EXCEPT
       ![r].stage = IF VotesFor(requests[r].option) = {} THEN "unvoted" ELSE "voted"]
  /\ overtaken' = [overtaken EXCEPT ![r] = {}]
  /\ UNCHANGED <<tableVars, limited, asked, clobbered, highest, accepted>>

\* Mutant: an option is its author's to delete, voted for or not.
MayDeleteVoted(q) ==
  /\ q.row.canManageVotingOptions
  /\ options[q.option] # None => options[q.option].author = q.user

\* The author of an option keeps it when there were votes.  (An option that is gone
\* by now had the author it was read with; deleting it again changes nothing.)
MayDelete(q) ==
  /\ q.row.canManageVotingOptions
  /\ options[q.option] # None => options[q.option].author = q.user
  /\ q.stage = "unvoted"

\* Twitch has answered, and the votes have been counted.
DeleteOptionAnswered(r) ==
  /\ At(r, "deleteOption", "voted") \/ At(r, "deleteOption", "unvoted")
  /\ IF IsEditor(r) \/ MayDelete(requests[r]) THEN Granted(r) ELSE Ends(r)
  /\ UNCHANGED <<tableVars, limited, asked, clobbered, highest, accepted>>

DeletesOption(r) ==
  /\ At(r, "deleteOption", "granted")
  /\ DeletesOptions({requests[r].option})
  /\ Ends(r)
  /\ UNCHANGED <<votings, votingIds, optionIds, limited, asked, clobbered, highest, accepted>>

OptionStep(r) ==
  \/ /\ Idle(r)
     /\ \E u \in Users :
          \/ \E v \in VotingIds, card \in Cards : CreateOptionBegins(r, u, v, card)
          \/ \E o \in OptionIds : DeleteOptionBegins(r, u, o)
  \/ CreateOptionEditorAnswered(r)
  \/ CreateOptionRolesAnswered(r)
  \/ GetsCard(r)
  \/ InsertsOption(r)
  \/ DeleteOptionCounts(r)
  \/ DeleteOptionAnswered(r)
  \/ DeletesOption(r)
=============================================================================
