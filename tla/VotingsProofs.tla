--------------------------- MODULE VotingsProofs ---------------------------
(* Theorems about the votings: every variable keeps its type, a vote has    *)
(* its option and an option its voting, rows follow the requests, no vote   *)
(* is lost unasked, the rate limit of votes, and the limits of options.     *)
EXTENDS Votings, FiniteSetTheorems, TLAPS

----------------------------------------------------------------------------
(* The invariant                                                            *)

\* What a request carries until it needs it, whatever it is about.
RequestOK(q) ==
  /\ q \in Request
  /\ q.op \in {"createVoting", "updateVoting"} => q.body \in Bodies
  /\ q.op = "updateVoting" => q.row \in Voting
  /\ q.op = "createOption" => q.card \in Cards
  /\ q.op = "deleteOption" => q.option \in OptionIds

\* The option of a vote, or a deletion, under way has been there.  Options do not move
\* to another voting, and an id is not used again: while the option is there, it still
\* belongs to the voting the request is about.
OptionKnown(q, opts, ids) ==
  q.op \in {"createVote", "deleteOption"} =>
    /\ q.option \in ids
    /\ opts[q.option] # None => opts[q.option].voting = q.voting

RequestsOK ==
  \A r \in Requests :
    requests[r] # None => RequestOK(requests[r]) /\ OptionKnown(requests[r], options, optionIds)

\* Only an id that has been handed out is in use.
IdsKnown == \A o \in OptionIds : options[o] # None => o \in optionIds

Inv == TypeOK /\ RequestsOK /\ IdsKnown /\ VotesHaveOptions /\ RowFollowsRequests

\* TypeOK, without the requests.
TablesOK ==
  /\ votings \in [VotingIds -> Voting \cup {None}]
  /\ options \in [OptionIds -> VotingOption \cup {None}]
  /\ votes \in [Users -> [VotingIds -> OptionIds \cup {None}]]
  /\ votingIds \subseteq VotingIds
  /\ optionIds \subseteq OptionIds

HistoryOK ==
  /\ limited \subseteq Users \X VotingIds
  /\ asked \in [VotingIds -> Voting \cup {None}]
  /\ clobbered \subseteq VotingIds
  /\ highest \in [VotingIds -> Nat]
  /\ accepted \in [Users \X VotingIds -> Nat]
  /\ overtaken \in [Requests -> SUBSET (Users \X VotingIds)]

LEMMA TypeParts ==
  TypeOK <=> TablesOK /\ HistoryOK /\ requests \in [Requests -> Request \cup {None}]
BY DEF TypeOK, TablesOK, HistoryOK

LEMMA DefaultIsVoting == VotingDefault \in Voting
<1>1. {"mod", "vip", "sub"} \in SUBSET Role
  BY DEF Role
<1>2. LimitDefault \in Limits
  BY VotingsAssumption
<1> QED BY <1>1, <1>2 DEF VotingDefault, Voting, VotingPermissions

LEMMA InvInit == Init => Inv
<1> SUFFICES ASSUME Init PROVE Inv
  OBVIOUS
<1>1. TypeOK
  BY DEF Init, TypeOK
<1>2. RequestsOK
  BY DEF Init, RequestsOK
<1>3. IdsKnown
  BY DEF Init, IdsKnown
<1>4. VotesHaveOptions
  BY DEF Init, VotesHaveOptions
<1>5. RowFollowsRequests
  BY DEF Init, RowFollowsRequests
<1> QED BY <1>1, <1>2, <1>3, <1>4, <1>5 DEF Inv

----------------------------------------------------------------------------
(* Steps of requests                                                        *)

\* The options a request may be about: those that are there stay what they were,
\* go away, or have an id of their own.
OptionsKeep ==
  /\ optionIds \subseteq optionIds'
  /\ \A o \in optionIds : options'[o] = options[o] \/ options'[o] = None

\* One request takes a step, and is sound after it.
LEMMA RequestStep ==
  ASSUME Inv, OptionsKeep, NEW r \in Requests, NEW q,
         requests' = [requests EXCEPT ![r] = q],
         q = None \/ (RequestOK(q) /\ OptionKnown(q, options', optionIds'))
  PROVE  requests' \in [Requests -> Request \cup {None}] /\ RequestsOK'
<1>1. requests \in [Requests -> Request \cup {None}]
  BY DEF Inv, TypeOK
<1>2. q \in Request \cup {None}
  BY DEF RequestOK
<1>3. requests' \in [Requests -> Request \cup {None}]
  BY <1>1, <1>2
<1>4. ASSUME NEW s \in Requests, requests'[s] # None
      PROVE  RequestOK(requests'[s]) /\ OptionKnown(requests'[s], options', optionIds')
  <2>1. CASE s = r
    BY <2>1, <1>1, <1>4
  <2>2. CASE s # r
    <3>1. requests'[s] = requests[s]
      BY <2>2, <1>1
    <3>2. RequestOK(requests[s]) /\ OptionKnown(requests[s], options, optionIds)
      BY <3>1, <1>4 DEF Inv, RequestsOK
    <3>3. OptionKnown(requests[s], options', optionIds')
      BY <3>1, <3>2 DEF OptionKnown, OptionsKeep
    <3> QED BY <3>1, <3>2, <3>3
  <2> QED BY <2>1, <2>2
<1> QED BY <1>3, <1>4 DEF RequestsOK

\* Nothing but the request, the rate limit and the history changes.
LEMMA QuietStep ==
  ASSUME Inv, UNCHANGED <<tableVars, asked, clobbered>>, HistoryOK', NEW r \in Requests, NEW q,
         requests' = [requests EXCEPT ![r] = q],
         q = None \/ (RequestOK(q) /\ OptionKnown(q, options, optionIds))
  PROVE  Inv'
<1>1. UNCHANGED <<votings, options, votes, votingIds, optionIds>>
  BY DEF tableVars
<1>2. OptionsKeep
  BY <1>1 DEF OptionsKeep
<1>3. requests' \in [Requests -> Request \cup {None}] /\ RequestsOK'
  BY <1>1, <1>2, RequestStep
<1>4. TablesOK'
  BY <1>1, TypeParts DEF Inv, TablesOK
<1>5. TypeOK'
  BY <1>3, <1>4 DEF TypeOK, TablesOK, HistoryOK
<1>6. IdsKnown' /\ VotesHaveOptions' /\ RowFollowsRequests'
  BY <1>1 DEF Inv, IdsKnown, VotesHaveOptions, RowFollowsRequests
<1> QED BY <1>3, <1>5, <1>6 DEF Inv

\* Only the request changes.
LEMMA RequestOnlyStep ==
  ASSUME Inv, UNCHANGED <<tableVars, limited, asked, clobbered, highest, accepted>>,
         overtaken' \in [Requests -> SUBSET (Users \X VotingIds)],
         NEW r \in Requests, NEW q,
         requests' = [requests EXCEPT ![r] = q],
         q = None \/ (RequestOK(q) /\ OptionKnown(q, options, optionIds))
  PROVE  Inv'
<1>1. HistoryOK'
  BY DEF Inv, TypeOK, HistoryOK
<1> QED BY <1>1, QuietStep

LEMMA OvertakenKept ==
  ASSUME Inv, NEW r \in Requests,
         UNCHANGED overtaken \/ overtaken' = [overtaken EXCEPT ![r] = {}]
  PROVE  overtaken' \in [Requests -> SUBSET (Users \X VotingIds)]
BY DEF Inv, TypeOK

----------------------------------------------------------------------------
(* Votings                                                                  *)

LEMMA BeginsVotingRequest ==
  ASSUME Inv, NEW r \in Requests, NEW u \in Users, NEW v \in VotingIds
  PROVE  /\ \A data \in Bodies : CreateVotingBegins(r, u, v, data) => Inv'
         /\ \A data \in Bodies : UpdateVotingBegins(r, u, v, data) => Inv'
         /\ DeleteVotingBegins(r, u, v) => Inv'
<1>1. AccessStage(u, v) \in Stage
  BY DEF AccessStage, Stage
<1>2. ASSUME NEW data \in Bodies, CreateVotingBegins(r, u, v, data) PROVE Inv'
  <2> DEFINE q == [NewRequest("createVoting", u, v, AccessStage(u, v)) EXCEPT !.body = data]
  <2>1. RequestOK(q) /\ OptionKnown(q, options', optionIds')
    BY <1>1 DEF RequestOK, OptionKnown, NewRequest, Request, Operation
  <2>2. requests' = [requests EXCEPT ![r] = q]
    BY <1>2 DEF CreateVotingBegins, Begin
  <2> HIDE DEF q
  <2>3. UNCHANGED <<votings, options, votes, optionIds, limited, asked, clobbered, highest, accepted, overtaken>>
    BY <1>2 DEF CreateVotingBegins, Begin, unchangedByVoting
  <2>4. votingIds' \subseteq VotingIds
    BY <1>2 DEF CreateVotingBegins, Inv, TypeOK
  <2>5. OptionsKeep
    BY <2>3 DEF OptionsKeep
  <2>6. requests' \in [Requests -> Request \cup {None}] /\ RequestsOK'
    BY <2>1, <2>2, <2>5, RequestStep
  <2>7. TypeOK'
    BY <2>3, <2>4, <2>6 DEF Inv, TypeOK
  <2>8. IdsKnown' /\ VotesHaveOptions' /\ RowFollowsRequests'
    BY <2>3 DEF Inv, IdsKnown, VotesHaveOptions, RowFollowsRequests
  <2> QED BY <2>6, <2>7, <2>8 DEF Inv
<1>3. ASSUME NEW data \in Bodies, UpdateVotingBegins(r, u, v, data) PROVE Inv'
  <2> DEFINE q == [NewRequest("updateVoting", u, v, AccessStage(u, v))
                     EXCEPT !.body = data, !.row = votings[v]]
  <2>1. votings[v] \in Voting
    BY <1>3 DEF UpdateVotingBegins, Inv, TypeOK
  <2>2. RequestOK(q) /\ OptionKnown(q, options, optionIds)
    BY <1>1, <2>1 DEF RequestOK, OptionKnown, NewRequest, Request, Operation
  <2>3. requests' = [requests EXCEPT ![r] = q] /\ UNCHANGED overtaken
    BY <1>3 DEF UpdateVotingBegins, Begin
  <2>4. UNCHANGED <<tableVars, limited, asked, clobbered, highest, accepted>>
    BY <1>3 DEF UpdateVotingBegins
  <2> HIDE DEF q
  <2> QED BY <2>2, <2>3, <2>4, OvertakenKept, RequestOnlyStep
<1>4. ASSUME DeleteVotingBegins(r, u, v) PROVE Inv'
  <2> DEFINE q == NewRequest("deleteVoting", u, v, AccessStage(u, v))
  <2>2. RequestOK(q) /\ OptionKnown(q, options, optionIds)
    BY <1>1 DEF RequestOK, OptionKnown, NewRequest, Request, Operation
  <2>3. requests' = [requests EXCEPT ![r] = q] /\ UNCHANGED overtaken
    BY <1>4 DEF DeleteVotingBegins, Begin
  <2>4. UNCHANGED <<tableVars, limited, asked, clobbered, highest, accepted>>
    BY <1>4 DEF DeleteVotingBegins
  <2> HIDE DEF q
  <2> QED BY <2>2, <2>3, <2>4, OvertakenKept, RequestOnlyStep
<1> QED BY <1>2, <1>3, <1>4

\* A request that is still there after its step is as sound as before.
LEMMA MovedIsOK ==
  ASSUME Inv, NEW r \in Requests, requests[r] # None, NEW stage \in Stage
  PROVE  LET q == [requests[r] EXCEPT !.stage = stage]
             p == [requests[r] EXCEPT !.stage = stage, !.row = None]
         IN /\ RequestOK(q) /\ OptionKnown(q, options, optionIds)
            /\ requests[r].op # "updateVoting" =>
                 RequestOK(p) /\ OptionKnown(p, options, optionIds)
<1>1. RequestOK(requests[r]) /\ OptionKnown(requests[r], options, optionIds)
  BY DEF Inv, RequestsOK
<1> DEFINE q == [requests[r] EXCEPT !.stage = stage]
           p == [requests[r] EXCEPT !.stage = stage, !.row = None]
<1>2. requests[r] \in Request
  BY <1>1 DEF RequestOK
<1>3. q \in Request /\ p \in Request
  BY <1>2 DEF Request
<1>4. /\ q.op = requests[r].op /\ q.option = requests[r].option /\ q.row = requests[r].row
      /\ q.card = requests[r].card /\ q.body = requests[r].body
      /\ q.voting = requests[r].voting
      /\ p.op = requests[r].op /\ p.option = requests[r].option /\ p.card = requests[r].card
      /\ p.body = requests[r].body /\ p.voting = requests[r].voting
  BY <1>2 DEF Request
<1> HIDE DEF q, p
<1>5. RequestOK(q) /\ OptionKnown(q, options, optionIds)
  BY <1>1, <1>3, <1>4 DEF RequestOK, OptionKnown
<1>6. ASSUME requests[r].op # "updateVoting"
      PROVE  RequestOK(p) /\ OptionKnown(p, options, optionIds)
  BY <1>1, <1>3, <1>4, <1>6 DEF RequestOK, OptionKnown
<1> QED BY <1>5, <1>6 DEF q, p

LEMMA MovingStep ==
  ASSUME Inv, NEW r \in Requests, requests[r] # None, NEW stage \in Stage,
         UNCHANGED <<tableVars, limited, asked, clobbered, highest, accepted>>
  PROVE  /\ MovesTo(r, stage) => Inv'
         /\ /\ requests' = [requests EXCEPT ![r].stage = stage, ![r].row = None]
            /\ UNCHANGED overtaken
            /\ requests[r].op # "updateVoting"
            => Inv'
         /\ /\ requests' = [requests EXCEPT ![r].stage = stage]
            /\ overtaken' = [overtaken EXCEPT ![r] = {}]
            => Inv'
<1>1. ASSUME MovesTo(r, stage) PROVE Inv'
  <2> DEFINE q == [requests[r] EXCEPT !.stage = stage]
  <2>1. RequestOK(q) /\ OptionKnown(q, options, optionIds)
    BY MovedIsOK
  <2>2. requests' = [requests EXCEPT ![r] = q] /\ UNCHANGED overtaken
    BY <1>1 DEF MovesTo, Inv, TypeOK
  <2> HIDE DEF q
  <2> QED BY <2>1, <2>2, OvertakenKept, RequestOnlyStep
<1>2. ASSUME requests' = [requests EXCEPT ![r].stage = stage, ![r].row = None],
             UNCHANGED overtaken, requests[r].op # "updateVoting"
      PROVE  Inv'
  <2> DEFINE q == [requests[r] EXCEPT !.stage = stage, !.row = None]
  <2>1. RequestOK(q) /\ OptionKnown(q, options, optionIds)
    BY <1>2, MovedIsOK
  <2>2. requests' = [requests EXCEPT ![r] = q]
    BY <1>2 DEF Inv, TypeOK
  <2> HIDE DEF q
  <2> QED BY <1>2, <2>1, <2>2, OvertakenKept, RequestOnlyStep
<1>3. ASSUME requests' = [requests EXCEPT ![r].stage = stage],
             overtaken' = [overtaken EXCEPT ![r] = {}]
      PROVE  Inv'
  <2> DEFINE q == [requests[r] EXCEPT !.stage = stage]
  <2>1. RequestOK(q) /\ OptionKnown(q, options, optionIds)
    BY MovedIsOK
  <2>2. requests' = [requests EXCEPT ![r] = q]
    BY <1>3 DEF Inv, TypeOK
  <2> HIDE DEF q
  <2> QED BY <1>3, <2>1, <2>2, OvertakenKept, RequestOnlyStep
<1> QED BY <1>1, <1>2, <1>3

LEMMA EndingStep ==
  ASSUME Inv, NEW r \in Requests, Ends(r),
         UNCHANGED <<tableVars, limited, asked, clobbered, highest, accepted>>
  PROVE  Inv'
<1>1. requests' = [requests EXCEPT ![r] = None] /\ overtaken' = [overtaken EXCEPT ![r] = {}]
  BY DEF Ends
<1> QED BY <1>1, OvertakenKept, RequestOnlyStep

LEMMA Stages ==
  /\ "editor" \in Stage /\ "voted" \in Stage /\ "unvoted" \in Stage /\ "roles" \in Stage /\ "card" \in Stage
  /\ "granted" \in Stage /\ "insert" \in Stage /\ "update" \in Stage
BY DEF Stage

LEMMA VotingEditorAnsweredKeepsInv ==
  ASSUME Inv, NEW r \in Requests, VotingEditorAnswered(r)
  PROVE  Inv'
<1>1. requests[r] # None
  BY DEF VotingEditorAnswered, At
<1>2. UNCHANGED <<tableVars, limited, asked, clobbered, highest, accepted>>
  BY DEF VotingEditorAnswered
<1>3. MovesTo(r, "granted") \/ Ends(r)
  BY DEF VotingEditorAnswered
<1> QED BY <1>1, <1>2, <1>3, Stages, MovingStep, EndingStep

\* A voting is written: the options and the votes stay.
LEMMA WritesVoting ==
  ASSUME Inv, NEW r \in Requests, Ends(r), NEW v \in VotingIds, NEW row \in Voting,
         votings' = [votings EXCEPT ![v] = row],
         asked' = [asked EXCEPT ![v] = row] \/ v \in clobbered',
         \A w \in VotingIds \ {v} : asked'[w] = asked[w],
         clobbered \subseteq clobbered', \A w \in clobbered' : w \in clobbered \/ w = v,
         HistoryOK', UNCHANGED <<options, votes, votingIds, optionIds>>
  PROVE  Inv'
<1>1. requests' = [requests EXCEPT ![r] = None]
  BY DEF Ends
<1>2. OptionsKeep
  BY DEF OptionsKeep
<1>3. requests' \in [Requests -> Request \cup {None}] /\ RequestsOK'
  BY <1>1, <1>2, RequestStep
<1>4. TypeOK'
  BY <1>3 DEF Inv, TypeOK, HistoryOK
<1>5. \A w \in VotingIds : votings[w] # None => votings'[w] # None
  BY VotingsAssumption DEF Inv, TypeOK
<1>6. IdsKnown'
  BY DEF Inv, IdsKnown
<1>7. ASSUME NEW o \in OptionIds, options[o] # None PROVE options[o].voting \in VotingIds
  BY <1>7 DEF Inv, TypeOK, VotingOption
<1>8. VotesHaveOptions'
  BY <1>5, <1>7 DEF Inv, VotesHaveOptions
<1>9. RowFollowsRequests'
  BY DEF Inv, TypeOK, RowFollowsRequests
<1> QED BY <1>3, <1>4, <1>6, <1>8, <1>9 DEF Inv

LEMMA NotedIsOK ==
  ASSUME Inv, NEW v \in VotingIds, NEW row \in Voting, NotesLimit(v, row)
  PROVE  /\ highest' \in [VotingIds -> Nat]
         /\ highest'[v] >= row.votingOptionsLimit
         /\ \A w \in VotingIds : highest[w] <= highest'[w]
<1>1. row.votingOptionsLimit \in Nat
  BY VotingsAssumption DEF Voting
<1>2. highest \in [VotingIds -> Nat]
  BY DEF Inv, TypeOK
<1> QED BY <1>1, <1>2 DEF NotesLimit

LEMMA InsertsVotingKeepsInv ==
  ASSUME Inv, NEW r \in Requests, InsertsVoting(r)
  PROVE  Inv'
<1> DEFINE v == requests[r].voting
           row == Assign(VotingDefault, requests[r].body)
<1>1. RequestOK(requests[r]) /\ requests[r].op = "createVoting"
  BY DEF InsertsVoting, At, Inv, RequestsOK
<1>2. v \in VotingIds /\ requests[r].body \in Bodies
  BY <1>1 DEF RequestOK, Request
<1>3. row \in Voting
  BY <1>2, DefaultIsVoting, VotingsAssumption
<1>4. /\ votings' = [votings EXCEPT ![v] = row] /\ Ends(r)
      /\ asked' = [asked EXCEPT ![v] = votings'[v]]
      /\ NotesLimit(v, votings'[v])
      /\ UNCHANGED <<options, votes, votingIds, optionIds, limited, accepted, clobbered>>
  BY DEF InsertsVoting, unchangedByVoting
<1> HIDE DEF v, row
<1>5. asked' = [asked EXCEPT ![v] = row]
  BY <1>2, <1>4 DEF Inv, TypeOK
<1>6. overtaken' \in [Requests -> SUBSET (Users \X VotingIds)]
  BY <1>4 DEF Ends, Inv, TypeOK
<1>7. highest' \in [VotingIds -> Nat]
  <2>1. votings'[v] = row
    BY <1>2, <1>4 DEF Inv, TypeOK
  <2> QED BY <1>2, <1>3, <1>4, <2>1, NotedIsOK
<1>8. HistoryOK'
  <2>1. asked' \in [VotingIds -> Voting \cup {None}]
    BY <1>2, <1>3, <1>5 DEF Inv, TypeOK
  <2>2. /\ clobbered' \subseteq VotingIds /\ limited' \subseteq Users \X VotingIds
        /\ accepted' \in [Users \X VotingIds -> Nat]
    BY <1>4 DEF Inv, TypeOK
  <2> QED BY <1>6, <1>7, <2>1, <2>2 DEF HistoryOK
<1>9. \A w \in VotingIds \ {v} : asked'[w] = asked[w]
  BY <1>2, <1>5 DEF Inv, TypeOK
<1> QED BY <1>2, <1>3, <1>4, <1>5, <1>8, <1>9, WritesVoting

LEMMA SavesVotingKeepsInv ==
  ASSUME Inv, NEW r \in Requests, SavesVoting(r)
  PROVE  Inv'
<1> DEFINE v == requests[r].voting
           row == Assign(requests[r].row, requests[r].body)
<1>1. RequestOK(requests[r]) /\ requests[r].op = "updateVoting"
  BY DEF SavesVoting, At, Inv, RequestsOK
<1>2. v \in VotingIds /\ requests[r].body \in Bodies /\ requests[r].row \in Voting
  BY <1>1 DEF RequestOK, Request
<1>3. row \in Voting
  BY <1>2, VotingsAssumption
<1>4. /\ votings' = [votings EXCEPT ![v] = row] /\ Ends(r)
      /\ clobbered' = IF votings[v] = requests[r].row THEN clobbered ELSE clobbered \cup {v}
      /\ asked' = [asked EXCEPT ![v] = IF v \in clobbered' THEN votings'[v]
                                       ELSE Assign(@, requests[r].body)]
      /\ NotesLimit(v, votings'[v])
      /\ UNCHANGED <<options, votes, votingIds, optionIds, limited, accepted>>
  BY DEF SavesVoting, unchangedByVoting
<1> HIDE DEF v, row
<1>5. asked' = [asked EXCEPT ![v] = row]
  <2>1. CASE v \in clobbered'
    BY <1>2, <1>4, <2>1 DEF Inv, TypeOK
  <2>2. CASE v \notin clobbered'
    <3>1. votings[v] = requests[r].row /\ v \notin clobbered
      BY <1>4, <2>2
    <3>2. asked[v] = requests[r].row
      BY <1>2, <3>1 DEF Inv, RowFollowsRequests
    <3> QED BY <1>2, <1>4, <2>2, <3>2 DEF Inv, TypeOK, row
  <2> QED BY <2>1, <2>2
<1>6. overtaken' \in [Requests -> SUBSET (Users \X VotingIds)]
  BY <1>4 DEF Ends, Inv, TypeOK
<1>7. clobbered \subseteq clobbered' /\ \A w \in clobbered' : w \in clobbered \/ w = v
  BY <1>4
<1>8. highest' \in [VotingIds -> Nat]
  <2>1. votings'[v] = row
    BY <1>2, <1>4 DEF Inv, TypeOK
  <2> QED BY <1>2, <1>3, <1>4, <2>1, NotedIsOK
<1>9. HistoryOK'
  <2>1. asked' \in [VotingIds -> Voting \cup {None}]
    BY <1>2, <1>3, <1>5 DEF Inv, TypeOK
  <2>2. clobbered' \subseteq VotingIds
    BY <1>2, <1>7 DEF Inv, TypeOK
  <2>3. limited' \subseteq Users \X VotingIds /\ accepted' \in [Users \X VotingIds -> Nat]
    BY <1>4 DEF Inv, TypeOK
  <2> QED BY <1>6, <1>8, <2>1, <2>2, <2>3 DEF HistoryOK
<1>10. \A w \in VotingIds \ {v} : asked'[w] = asked[w]
  BY <1>2, <1>5 DEF Inv, TypeOK
<1> QED BY <1>2, <1>3, <1>4, <1>5, <1>7, <1>9, <1>10, WritesVoting

----------------------------------------------------------------------------
(* Options and votes                                                        *)

\* Options are deleted, and the votes for them, and nothing is left without what it
\* belongs to.
LEMMA DeletesStep ==
  ASSUME Inv, NEW r \in Requests, Ends(r), NEW os \in SUBSET OptionIds,
         DeletesOptions(os), HistoryOK', UNCHANGED <<votingIds, optionIds, clobbered>>,
         votings' \in [VotingIds -> Voting \cup {None}],
         \A v \in VotingIds :
           votings'[v] = votings[v]
             \/ \A o \in OptionIds : options[o] # None /\ options[o].voting = v => o \in os,
         \A v \in VotingIds :
           (votings'[v] = votings[v] /\ asked'[v] = asked[v]) \/ votings'[v] = asked'[v]
  PROVE  Inv'
<1>1. /\ \A o \in OptionIds : options'[o] = IF o \in os THEN None ELSE options[o]
      /\ options' \in [OptionIds -> VotingOption \cup {None}]
  BY DEF DeletesOptions, Inv, TypeOK
<1>2. \A u \in Users, v \in VotingIds :
        votes'[u][v] = IF votes[u][v] \in os THEN None ELSE votes[u][v]
  BY DEF DeletesOptions
<1>3. votes' \in [Users -> [VotingIds -> OptionIds \cup {None}]]
  <2>1. \A u \in Users, v \in VotingIds : votes[u][v] \in OptionIds \cup {None}
    BY DEF Inv, TypeOK
  <2> QED BY <2>1 DEF DeletesOptions
<1>4. OptionsKeep
  BY <1>1 DEF OptionsKeep, Inv, TypeOK
<1>5. requests' = [requests EXCEPT ![r] = None]
  BY DEF Ends
<1>6. requests' \in [Requests -> Request \cup {None}] /\ RequestsOK'
  BY <1>4, <1>5, RequestStep
<1>7. TypeOK'
  BY <1>1, <1>3, <1>6 DEF Inv, TypeOK, HistoryOK
<1>8. IdsKnown'
  BY <1>1 DEF Inv, IdsKnown
<1>9. ASSUME NEW o \in OptionIds, options'[o] # None
      PROVE  votings'[options'[o].voting] # None
  <2>1. o \notin os /\ options'[o] = options[o] /\ options[o] # None
    BY <1>1, <1>9
  <2>2. options[o].voting \in VotingIds /\ votings[options[o].voting] # None
    BY <2>1 DEF Inv, TypeOK, VotesHaveOptions, VotingOption
  <2> QED BY <2>1, <2>2
<1>10. ASSUME NEW u \in Users, NEW v \in VotingIds, votes'[u][v] # None
       PROVE  options'[votes'[u][v]] # None /\ options'[votes'[u][v]].voting = v
  <2>1. votes'[u][v] = votes[u][v] /\ votes[u][v] \notin os /\ votes[u][v] # None
    BY <1>2, <1>10
  <2>2. votes[u][v] \in OptionIds
    BY <2>1 DEF Inv, TypeOK
  <2>3. options[votes[u][v]] # None /\ options[votes[u][v]].voting = v
    BY <2>1 DEF Inv, VotesHaveOptions
  <2> QED BY <1>1, <2>1, <2>2, <2>3
<1>11. VotesHaveOptions'
  BY <1>9, <1>10 DEF VotesHaveOptions
<1>12. RowFollowsRequests'
  BY DEF Inv, RowFollowsRequests
<1> QED BY <1>6, <1>7, <1>8, <1>11, <1>12 DEF Inv

LEMMA DeletesVotingKeepsInv ==
  ASSUME Inv, NEW r \in Requests, DeletesVoting(r)
  PROVE  Inv'
<1> DEFINE v == requests[r].voting
<1>1. v \in VotingIds
  BY DEF DeletesVoting, At, Inv, TypeOK, Request
<1>2. /\ votings' = [votings EXCEPT ![v] = None] /\ DeletesOptions(OptionsOf(v)) /\ Ends(r)
      /\ asked' = [asked EXCEPT ![v] = None]
      /\ UNCHANGED <<votingIds, optionIds, limited, accepted, clobbered, highest>>
  BY DEF DeletesVoting, unchangedByVoting
<1> HIDE DEF v
<1>3. HistoryOK'
  BY <1>1, <1>2 DEF Ends, Inv, TypeOK, HistoryOK
<1>4. /\ votings' \in [VotingIds -> Voting \cup {None}]
      /\ votings'[v] = None /\ asked'[v] = None
      /\ \A w \in VotingIds : w # v => votings'[w] = votings[w] /\ asked'[w] = asked[w]
  BY <1>1, <1>2 DEF Inv, TypeOK
<1>5. OptionsOf(v) \in SUBSET OptionIds
  BY DEF OptionsOf
<1>6. \A o \in OptionIds : options[o] # None /\ options[o].voting = v => o \in OptionsOf(v)
  BY DEF OptionsOf
<1> QED BY <1>1, <1>2, <1>3, <1>4, <1>5, <1>6, DeletesStep

LEMMA DeletesOptionKeepsInv ==
  ASSUME Inv, NEW r \in Requests, DeletesOption(r)
  PROVE  Inv'
<1>1. RequestOK(requests[r]) /\ requests[r].op = "deleteOption"
  BY DEF DeletesOption, At, Inv, RequestsOK
<1>2. {requests[r].option} \in SUBSET OptionIds
  BY <1>1 DEF RequestOK
<1>3. HistoryOK'
  BY DEF DeletesOption, Ends, Inv, TypeOK, HistoryOK
<1>4. /\ DeletesOptions({requests[r].option}) /\ Ends(r)
      /\ UNCHANGED <<votings, votingIds, optionIds, asked, clobbered>>
  BY DEF DeletesOption
<1>5. votings' \in [VotingIds -> Voting \cup {None}]
  BY <1>4 DEF Inv, TypeOK
<1> QED BY <1>2, <1>3, <1>4, <1>5, DeletesStep

LEMMA BeginsOptionRequest ==
  ASSUME Inv, NEW r \in Requests, NEW u \in Users
  PROVE  /\ \A v \in VotingIds, card \in Cards : CreateOptionBegins(r, u, v, card) => Inv'
         /\ \A o \in OptionIds : DeleteOptionBegins(r, u, o) => Inv'
<1>1. ASSUME NEW v \in VotingIds, NEW card \in Cards, CreateOptionBegins(r, u, v, card)
      PROVE  Inv'
  <2> DEFINE q == IF IsBroadcaster(u, v)
                  THEN [NewRequest("createOption", u, v, "card") EXCEPT !.card = card]
                  ELSE [NewRequest("createOption", u, v, "editor")
                          EXCEPT !.card = card, !.row = votings[v]]
  <2>1. votings[v] \in Voting
    BY <1>1 DEF CreateOptionBegins, Inv, TypeOK
  <2>2. RequestOK(q) /\ OptionKnown(q, options, optionIds)
    BY <2>1, Stages DEF RequestOK, OptionKnown, NewRequest, Request, Operation
  <2>3. requests' = [requests EXCEPT ![r] = q] /\ UNCHANGED overtaken
    BY <1>1 DEF CreateOptionBegins, Begin
  <2>4. UNCHANGED <<tableVars, limited, asked, clobbered, highest, accepted>>
    BY <1>1 DEF CreateOptionBegins
  <2> HIDE DEF q
  <2> QED BY <2>2, <2>3, <2>4, OvertakenKept, RequestOnlyStep
<1>2. ASSUME NEW o \in OptionIds, DeleteOptionBegins(r, u, o) PROVE Inv'
  <2> DEFINE v == options[o].voting
             q == IF IsBroadcaster(u, v)
                  THEN [NewRequest("deleteOption", u, v, "granted") EXCEPT !.option = o]
                  ELSE [NewRequest("deleteOption", u, v, "editor")
                          EXCEPT !.option = o, !.row = votings[v]]
  <2>1. options[o] # None
    BY <1>2 DEF DeleteOptionBegins
  <2>2. v \in VotingIds
    BY <2>1 DEF Inv, TypeOK, VotingOption
  <2>3. votings[v] \in Voting
    BY <2>1, <2>2 DEF Inv, TypeOK, VotesHaveOptions
  <2>4. requests' = [requests EXCEPT ![r] = q] /\ UNCHANGED overtaken
    BY <1>2 DEF DeleteOptionBegins, Begin
  <2>5. UNCHANGED <<tableVars, limited, asked, clobbered, highest, accepted>>
    BY <1>2 DEF DeleteOptionBegins
  <2>6. v = options[o].voting /\ o \in optionIds
    BY <2>1 DEF Inv, IdsKnown
  <2> HIDE DEF v
  <2>7. RequestOK(q)
    BY <2>2, <2>3, Stages DEF RequestOK, NewRequest, Request, Operation
  <2>8. q.option = o /\ q.voting = v
    BY DEF NewRequest
  <2> HIDE DEF q
  <2>9. OptionKnown(q, options, optionIds)
    BY <2>6, <2>8 DEF OptionKnown
  <2> QED BY <2>4, <2>5, <2>7, <2>9, OvertakenKept, RequestOnlyStep
<1> QED BY <1>1, <1>2

LEMMA OptionAnsweredKeepsInv ==
  ASSUME Inv, NEW r \in Requests
  PROVE  /\ CreateOptionEditorAnswered(r) => Inv'
         /\ CreateOptionRolesAnswered(r) => Inv'
         /\ GetsCard(r) => Inv'
         /\ DeleteOptionCounts(r) => Inv'
         /\ DeleteOptionAnswered(r) => Inv'
<1>1. CASE CreateOptionEditorAnswered(r)
  <2>1. /\ requests[r] # None /\ requests[r].op # "updateVoting"
        /\ UNCHANGED <<tableVars, limited, asked, clobbered, highest, accepted>>
        /\ \/ requests' = [requests EXCEPT ![r].stage = "card", ![r].row = None]
              /\ UNCHANGED overtaken
           \/ Ends(r) \/ MovesTo(r, "roles")
    BY <1>1 DEF CreateOptionEditorAnswered, At, ToCard
  <2> QED BY <2>1, Stages, MovingStep, EndingStep
<1>2. CASE CreateOptionRolesAnswered(r)
  <2>1. /\ requests[r] # None /\ requests[r].op # "updateVoting"
        /\ UNCHANGED <<tableVars, limited, asked, clobbered, highest, accepted>>
        /\ \/ requests' = [requests EXCEPT ![r].stage = "card", ![r].row = None]
              /\ UNCHANGED overtaken
           \/ Ends(r)
    BY <1>2 DEF CreateOptionRolesAnswered, At, ToCard
  <2> QED BY <2>1, Stages, MovingStep, EndingStep
<1>3. CASE GetsCard(r)
  <2>1. /\ requests[r] # None
        /\ UNCHANGED <<tableVars, limited, asked, clobbered, highest, accepted>>
        /\ Ends(r) \/ MovesTo(r, "granted")
    BY <1>3 DEF GetsCard, At
  <2> QED BY <2>1, Stages, MovingStep, EndingStep
<1>4. CASE DeleteOptionAnswered(r)
  <2>1. /\ requests[r] # None /\ requests[r].op # "updateVoting"
        /\ UNCHANGED <<tableVars, limited, asked, clobbered, highest, accepted>>
        /\ \/ requests' = [requests EXCEPT ![r].stage = "granted", ![r].row = None]
              /\ UNCHANGED overtaken
           \/ Ends(r)
    BY <1>4 DEF DeleteOptionAnswered, At, Granted
  <2> QED BY <2>1, Stages, MovingStep, EndingStep
<1>5. CASE DeleteOptionCounts(r)
  <2>1. /\ requests[r] # None
        /\ UNCHANGED <<tableVars, limited, asked, clobbered, highest, accepted>>
        /\ overtaken' = [overtaken EXCEPT ![r] = {}]
        /\ \/ requests' = [requests EXCEPT ![r].stage = "unvoted"]
           \/ requests' = [requests EXCEPT ![r].stage = "voted"]
    BY <1>5 DEF DeleteOptionCounts, At
  <2> QED BY <2>1, Stages, MovingStep
<1> QED BY <1>1, <1>2, <1>3, <1>4, <1>5

\* An option takes an id that no vote and no request has heard of.
LEMMA InsertsOptionKeepsInv ==
  ASSUME Inv, NEW r \in Requests, InsertsOption(r)
  PROVE  Inv'
<1>1. /\ requests[r] # None /\ requests[r].op = "createOption" /\ Ends(r)
      /\ UNCHANGED <<votings, votes, votingIds, limited, asked, clobbered, highest, accepted>>
  BY DEF InsertsOption, At
<1>2. CASE votings[requests[r].voting] = None
  <2>1. UNCHANGED <<tableVars, limited, asked, clobbered, highest, accepted>>
    BY <1>1, <1>2 DEF InsertsOption, tableVars
  <2> QED BY <1>1, <2>1, EndingStep
<1>3. CASE votings[requests[r].voting] # None
  <2> DEFINE row == [voting |-> requests[r].voting, author |-> requests[r].user,
                     card |-> requests[r].card]
  <2>1. PICK o \in OptionIds \ optionIds :
          options' = [options EXCEPT ![o] = row] /\ optionIds' = optionIds \cup {o}
    BY <1>3 DEF InsertsOption
  <2>2. row \in VotingOption /\ row.voting = requests[r].voting
    BY <1>1 DEF Inv, RequestsOK, RequestOK, Request, VotingOption
  <2>3. votings[row.voting] # None /\ row # None
    BY <1>3, <2>2, VotingsAssumption
  <2> HIDE DEF row
  <2>4. options[o] = None
    BY DEF Inv, IdsKnown
  <2>5. /\ options'[o] = row
        /\ \A p \in OptionIds : p # o => options'[p] = options[p]
        /\ options' \in [OptionIds -> VotingOption \cup {None}]
    BY <2>1, <2>2 DEF Inv, TypeOK
  <2>6. OptionsKeep
    BY <2>1, <2>5 DEF OptionsKeep, Inv, TypeOK
  <2>7. requests' \in [Requests -> Request \cup {None}] /\ RequestsOK'
    BY <1>1, <2>6, RequestStep DEF Ends
  <2>8. overtaken' \in [Requests -> SUBSET (Users \X VotingIds)]
    BY <1>1 DEF Ends, Inv, TypeOK
  <2>9. TypeOK'
    BY <1>1, <2>1, <2>5, <2>7, <2>8 DEF Inv, TypeOK
  <2>10. IdsKnown'
    BY <2>1, <2>5 DEF Inv, IdsKnown
  <2>11. ASSUME NEW p \in OptionIds, options'[p] # None
         PROVE  votings'[options'[p].voting] # None
    BY <1>1, <2>3, <2>5, <2>11 DEF Inv, VotesHaveOptions
  <2>12. ASSUME NEW u \in Users, NEW v \in VotingIds, votes'[u][v] # None
         PROVE  options'[votes'[u][v]] # None /\ options'[votes'[u][v]].voting = v
    <3>1. votes'[u][v] = votes[u][v] /\ votes[u][v] \in OptionIds
      BY <1>1, <2>12 DEF Inv, TypeOK
    <3>2. options[votes[u][v]] # None /\ options[votes[u][v]].voting = v
      BY <3>1, <2>12 DEF Inv, VotesHaveOptions
    <3> QED BY <2>4, <2>5, <3>1, <3>2
  <2>13. VotesHaveOptions'
    BY <2>11, <2>12 DEF VotesHaveOptions
  <2>14. RowFollowsRequests'
    BY <1>1 DEF Inv, RowFollowsRequests
  <2> QED BY <2>7, <2>9, <2>10, <2>13, <2>14 DEF Inv
<1> QED BY <1>2, <1>3

LEMMA AcceptsKeepsHistory ==
  ASSUME Inv, NEW u \in Users, NEW v \in VotingIds,
         Accepts(u, v) \/ UNCHANGED <<limited, accepted>>,
         overtaken' \in [Requests -> SUBSET (Users \X VotingIds)],
         UNCHANGED <<asked, clobbered, highest>>
  PROVE  HistoryOK'
<1>1. /\ limited \subseteq Users \X VotingIds
      /\ asked \in [VotingIds -> Voting \cup {None}]
      /\ clobbered \subseteq VotingIds
      /\ highest \in [VotingIds -> Nat]
      /\ accepted \in [Users \X VotingIds -> Nat]
  BY DEF Inv, TypeOK
<1>2. <<u, v>> \in Users \X VotingIds
  OBVIOUS
<1>3. accepted[<<u, v>>] + 1 \in Nat
  BY <1>1, <1>2
<1>4. limited' \subseteq Users \X VotingIds
  BY <1>1, <1>2 DEF Accepts
<1>5. accepted' \in [Users \X VotingIds -> Nat]
  BY <1>1, <1>3 DEF Accepts
<1> QED BY <1>1, <1>4, <1>5 DEF HistoryOK

LEMMA BeginsVoteRequest ==
  ASSUME Inv, NEW r \in Requests, NEW u \in Users, NEW o \in OptionIds
  PROVE  /\ CreateVoteBegins(r, u, o) => Inv'
         /\ DeleteVoteBegins(r, u, o) => Inv'
<1> DEFINE v == options[o].voting
<1>1. ASSUME options[o] # None
      PROVE  v \in VotingIds /\ votings[v] \in Voting /\ o \in optionIds
  <2>1. v \in VotingIds
    BY <1>1 DEF Inv, TypeOK, VotingOption
  <2> QED BY <1>1, <2>1 DEF Inv, TypeOK, VotesHaveOptions, IdsKnown
<1>2. ASSUME CreateVoteBegins(r, u, o) PROVE Inv'
  <2> DEFINE q == IF "viewer" \in votings[v].permissions.canVote
                  THEN [NewRequest("createVote", u, v, "granted") EXCEPT !.option = o]
                  ELSE [NewRequest("createVote", u, v, "roles")
                          EXCEPT !.option = o, !.row = votings[v]]
  <2>1. /\ options[o] # None
        /\ requests' = [requests EXCEPT ![r] = q] /\ UNCHANGED overtaken
        /\ Accepts(u, v) \/ UNCHANGED <<limited, accepted>>
        /\ UNCHANGED <<tableVars, asked, clobbered, highest>>
    BY <1>2 DEF CreateVoteBegins, Begin
  <2>2. v \in VotingIds /\ votings[v] \in Voting /\ o \in optionIds
    BY <1>1, <2>1
  <2>3. v = options[o].voting
    OBVIOUS
  <2> HIDE DEF v
  <2>4. RequestOK(q)
    BY <2>2, Stages DEF RequestOK, NewRequest, Request, Operation
  <2>5. q.option = o /\ q.voting = v
    BY DEF NewRequest
  <2> HIDE DEF q
  <2>6. OptionKnown(q, options, optionIds)
    BY <2>2, <2>3, <2>5 DEF OptionKnown
  <2>7. HistoryOK'
    BY <2>1, <2>2, AcceptsKeepsHistory, OvertakenKept
  <2> QED BY <2>1, <2>4, <2>6, <2>7, QuietStep
<1>3. ASSUME DeleteVoteBegins(r, u, o) PROVE Inv'
  <2> DEFINE q == [NewRequest("deleteVote", u, v, "granted") EXCEPT !.option = o]
  <2>1. /\ options[o] # None
        /\ requests' = [requests EXCEPT ![r] = q] /\ UNCHANGED overtaken
        /\ UNCHANGED <<tableVars, limited, asked, clobbered, highest, accepted>>
    BY <1>3 DEF DeleteVoteBegins, Begin
  <2>2. v \in VotingIds
    BY <1>1, <2>1
  <2> HIDE DEF v
  <2>3. RequestOK(q) /\ OptionKnown(q, options, optionIds)
    BY <2>2, Stages DEF RequestOK, OptionKnown, NewRequest, Request, Operation
  <2> HIDE DEF q
  <2> QED BY <2>1, <2>3, OvertakenKept, RequestOnlyStep
<1> QED BY <1>2, <1>3

LEMMA VoteAnsweredKeepsInv ==
  ASSUME Inv, NEW r \in Requests
  PROVE  /\ CreateVoteRolesAnswered(r) => Inv'
         /\ SelectsVote(r) => Inv'
<1>1. ASSUME CreateVoteRolesAnswered(r) PROVE Inv'
  <2>1. /\ requests[r] # None /\ requests[r].op = "createVote"
        /\ UNCHANGED <<tableVars, asked, clobbered, highest>>
    BY <1>1 DEF CreateVoteRolesAnswered, At
  <2>2. CASE Granted(r) /\ Accepts(requests[r].user, requests[r].voting)
    <3> DEFINE q == [requests[r] EXCEPT !.stage = "granted", !.row = None]
    <3>1. RequestOK(q) /\ OptionKnown(q, options, optionIds)
      BY <2>1, Stages, MovedIsOK
    <3>2. requests' = [requests EXCEPT ![r] = q] /\ UNCHANGED overtaken
      BY <2>2 DEF Granted, Inv, TypeOK
    <3>3. requests[r].user \in Users /\ requests[r].voting \in VotingIds
      BY <2>1 DEF Inv, RequestsOK, RequestOK, Request
    <3>4. HistoryOK'
      BY <2>1, <2>2, <3>2, <3>3, AcceptsKeepsHistory, OvertakenKept
    <3> HIDE DEF q
    <3> QED BY <2>1, <3>1, <3>2, <3>4, QuietStep
  <2>3. CASE Ends(r) /\ UNCHANGED <<limited, accepted>>
    BY <2>1, <2>3, EndingStep
  <2> QED BY <1>1, <2>2, <2>3 DEF CreateVoteRolesAnswered
<1>2. ASSUME SelectsVote(r) PROVE Inv'
  <2>1. /\ requests[r] # None
        /\ UNCHANGED <<tableVars, limited, asked, clobbered, highest, accepted>>
        /\ Ends(r) \/ MovesTo(r, "insert") \/ MovesTo(r, "update")
    BY <1>2 DEF SelectsVote, At
  <2> QED BY <2>1, Stages, MovingStep, EndingStep
<1> QED BY <1>1, <1>2

\* The row of one vote changes, to an option of the voting or to no vote.
LEMMA VoteRowStep ==
  ASSUME Inv, NEW r \in Requests, requests' = [requests EXCEPT ![r] = None],
         NEW u \in Users, NEW v \in VotingIds, NEW o \in OptionIds \cup {None},
         votes' = [votes EXCEPT ![u][v] = o],
         o # None => options[o] # None /\ options[o].voting = v,
         overtaken' \in [Requests -> SUBSET (Users \X VotingIds)],
         UNCHANGED <<votings, options, votingIds, optionIds, limited, asked, clobbered, highest, accepted>>
  PROVE  Inv'
<1>1. OptionsKeep
  BY DEF OptionsKeep
<1>2. requests' \in [Requests -> Request \cup {None}] /\ RequestsOK'
  BY <1>1, RequestStep
<1>3. /\ votes' \in [Users -> [VotingIds -> OptionIds \cup {None}]]
      /\ \A w \in Users, x \in VotingIds :
           votes'[w][x] = IF w = u /\ x = v THEN o ELSE votes[w][x]
  BY DEF Inv, TypeOK
<1>4. TypeOK'
  BY <1>2, <1>3 DEF Inv, TypeOK
<1>5. VotesHaveOptions'
  BY <1>3 DEF Inv, VotesHaveOptions
<1>6. IdsKnown' /\ RowFollowsRequests'
  BY DEF Inv, IdsKnown, RowFollowsRequests
<1> QED BY <1>2, <1>4, <1>5, <1>6 DEF Inv

LEMMA WritesVoteKeepsInv ==
  ASSUME Inv, NEW r \in Requests, WritesVote(r)
  PROVE  Inv'
<1> DEFINE u == requests[r].user
           v == requests[r].voting
           o == requests[r].option
<1>1. /\ requests[r] # None /\ requests[r].op = "createVote"
      /\ requests' = [requests EXCEPT ![r] = None]
      /\ UNCHANGED <<votings, options, votingIds, optionIds, limited, asked, clobbered, highest, accepted>>
  BY DEF WritesVote, At
<1>2. RequestOK(requests[r]) /\ OptionKnown(requests[r], options, optionIds)
  BY <1>1 DEF Inv, RequestsOK
<1>3. u \in Users /\ v \in VotingIds /\ o \in optionIds
  BY <1>1, <1>2 DEF RequestOK, Request, OptionKnown
<1>4. CASE options[o] # None /\ votes' = [votes EXCEPT ![u][v] = o] /\ Overtakes(r, u, v)
  <2>1. o \in OptionIds /\ options[o].voting = v
    BY <1>1, <1>2, <1>3, <1>4 DEF OptionKnown, Inv, TypeOK
  <2> HIDE DEF u, v, o
  <2>2. overtaken' \in [Requests -> SUBSET (Users \X VotingIds)]
    BY <1>3, <1>4 DEF Overtakes, Inv, TypeOK
  <2> QED BY <1>1, <1>3, <1>4, <2>1, <2>2, VoteRowStep
<1>5. CASE UNCHANGED <<votes, overtaken>>
  BY <1>1, <1>5, OvertakenKept, RequestOnlyStep DEF tableVars
<1> QED BY <1>4, <1>5 DEF WritesVote

LEMMA RemovesVoteKeepsInv ==
  ASSUME Inv, NEW r \in Requests, RemovesVote(r)
  PROVE  Inv'
<1>1. requests[r].user \in Users /\ requests[r].voting \in VotingIds
  BY DEF RemovesVote, At, Inv, TypeOK, Request
<1>2. overtaken' \in [Requests -> SUBSET (Users \X VotingIds)]
  BY DEF RemovesVote, Ends, Inv, TypeOK
<1> QED BY <1>1, <1>2, VoteRowStep DEF RemovesVote, Ends

LEMMA LimitExpiresKeepsInv ==
  ASSUME Inv, NEW u \in Users, NEW v \in VotingIds, LimitExpires(u, v)
  PROVE  Inv'
<1>1. HistoryOK'
  BY DEF LimitExpires, Inv, TypeOK, HistoryOK
<1>2. UNCHANGED <<votings, options, votes, votingIds, optionIds, requests, asked, clobbered>>
  BY DEF LimitExpires, tableVars
<1> QED BY <1>1, <1>2 DEF Inv, TypeOK, HistoryOK, RequestsOK, RequestOK, OptionKnown, IdsKnown,
           VotesHaveOptions, RowFollowsRequests

LEMMA InvStep == Inv /\ [Next]_vars => Inv'
<1> SUFFICES ASSUME Inv, [Next]_vars PROVE Inv'
  OBVIOUS
<1>1. ASSUME NEW r \in Requests, VotingStep(r) PROVE Inv'
  BY <1>1, BeginsVotingRequest, VotingEditorAnsweredKeepsInv, InsertsVotingKeepsInv,
     SavesVotingKeepsInv, DeletesVotingKeepsInv DEF VotingStep
<1>2. ASSUME NEW r \in Requests, OptionStep(r) PROVE Inv'
  BY <1>2, BeginsOptionRequest, OptionAnsweredKeepsInv, InsertsOptionKeepsInv,
     DeletesOptionKeepsInv DEF OptionStep
<1>3. ASSUME NEW r \in Requests, VoteStep(r) PROVE Inv'
  BY <1>3, BeginsVoteRequest, VoteAnsweredKeepsInv, WritesVoteKeepsInv, RemovesVoteKeepsInv
     DEF VoteStep
<1>4. ASSUME NEW r \in Requests, Fails(r) PROVE Inv'
  BY <1>4, EndingStep DEF Fails
<1>5. CASE UNCHANGED vars
  BY <1>5 DEF vars, tableVars, Inv, TypeOK, RequestsOK, RequestOK, OptionKnown, IdsKnown,
     VotesHaveOptions, RowFollowsRequests
<1> QED BY <1>1, <1>2, <1>3, <1>4, <1>5, LimitExpiresKeepsInv DEF Next

LEMMA SpecInv == Spec => []Inv
BY InvInit, InvStep, PTL DEF Spec

----------------------------------------------------------------------------
(* The rate limit                                                           *)

LEMMA SomeRequests ==
  ASSUME NEW S \in SUBSET Requests
  PROVE  /\ IsFiniteSet(S) /\ Cardinality(S) \in Nat /\ Cardinality(Requests) \in Nat
         /\ Cardinality(S) <= Cardinality(Requests)
BY VotingsAssumption, FS_Subset, FS_CardinalityType

LEMMA FewerRequests ==
  ASSUME NEW S \in SUBSET Requests, NEW r \in Requests, r \notin S
  PROVE  Cardinality(S) + 1 <= Cardinality(Requests)
<1>1. IsFiniteSet(Requests \ {r}) /\ Cardinality(Requests \ {r}) = Cardinality(Requests) - 1
  BY VotingsAssumption, FS_RemoveElement
<1>2. S \in SUBSET (Requests \ {r})
  OBVIOUS
<1>3. Cardinality(S) <= Cardinality(Requests \ {r})
  BY <1>1, <1>2, FS_Subset
<1> QED BY <1>1, <1>3, SomeRequests

\* No request begins to ask whether its user may vote.
NobodyAsks == \A s \in Requests : At(s, "createVote", "roles")' => requests'[s] = requests[s]

LEMMA QuietRate ==
  ASSUME Inv, VotesWithinRate, NobodyAsks, UNCHANGED <<limited, accepted>>
  PROVE  VotesWithinRate'
<1> SUFFICES ASSUME NEW u \in Users, NEW v \in VotingIds
             PROVE  /\ accepted'[<<u, v>>] > 0 <=> <<u, v>> \in limited'
                    /\ accepted'[<<u, v>>] + Cardinality(Asking(u, v)') <= Cardinality(Requests)
  BY DEF VotesWithinRate
<1>1. Asking(u, v)' \subseteq Asking(u, v)
  BY DEF Asking, NobodyAsks, At
<1>2. Asking(u, v) \in SUBSET Requests /\ Asking(u, v)' \in SUBSET Requests
  BY DEF Asking
<1>3. Cardinality(Asking(u, v)') <= Cardinality(Asking(u, v))
  BY <1>1, <1>2, SomeRequests, FS_Subset
<1>4. accepted[<<u, v>>] \in Nat
  BY DEF Inv, TypeOK
<1> QED BY <1>2, <1>3, <1>4, SomeRequests DEF VotesWithinRate

LEMMA EndedAskNothing ==
  ASSUME Inv, NEW r \in Requests, requests' = [requests EXCEPT ![r] = None]
  PROVE  NobodyAsks
BY DEF NobodyAsks, At, Inv, TypeOK

LEMMA OthersAskNothing ==
  ASSUME Inv, NEW r \in Requests, NEW q, requests' = [requests EXCEPT ![r] = q],
         q.op # "createVote" \/ q.stage # "roles"
  PROVE  NobodyAsks
BY DEF NobodyAsks, At, Inv, TypeOK

\* A request that moves on does not ask, except from "editor" to "roles", about
\* options.
LEMMA MovedAskNothing ==
  ASSUME Inv, NEW r \in Requests, requests[r] # None, NEW stage,
         requests[r].op # "createVote" \/ stage # "roles",
         \/ MovesTo(r, stage)
         \/ requests' = [requests EXCEPT ![r].stage = stage, ![r].row = None]
  PROVE  NobodyAsks
<1>1. requests[r] \in Request
  BY DEF Inv, TypeOK
<1>2. \/ requests' = [requests EXCEPT ![r] = [requests[r] EXCEPT !.stage = stage]]
      \/ requests' = [requests EXCEPT ![r] = [requests[r] EXCEPT !.stage = stage, !.row = None]]
  BY DEF MovesTo, Inv, TypeOK
<1>3. /\ [requests[r] EXCEPT !.stage = stage].op = requests[r].op
      /\ [requests[r] EXCEPT !.stage = stage].stage = stage
      /\ [requests[r] EXCEPT !.stage = stage, !.row = None].op = requests[r].op
      /\ [requests[r] EXCEPT !.stage = stage, !.row = None].stage = stage
  BY <1>1 DEF Request
<1> QED BY <1>2, <1>3, OthersAskNothing

LEMMA MovedOnAskNothing ==
  ASSUME Inv, NEW r \in Requests, requests[r] # None,
         NEW stage \in {"card", "granted", "insert", "update"},
         \/ MovesTo(r, stage)
         \/ requests' = [requests EXCEPT ![r].stage = stage, ![r].row = None]
  PROVE  NobodyAsks
<1>1. stage # "roles"
  OBVIOUS
<1> HIDE DEF NobodyAsks
<1> QED BY <1>1, MovedAskNothing

LEMMA VotingStepRate ==
  ASSUME Inv, NEW r \in Requests, VotingStep(r)
  PROVE  NobodyAsks /\ UNCHANGED <<limited, accepted>>
<1>1. ASSUME NEW u, NEW v, NEW data, CreateVotingBegins(r, u, v, data)
      PROVE  NobodyAsks /\ UNCHANGED <<limited, accepted>>
  <2> DEFINE q == [NewRequest("createVoting", u, v, AccessStage(u, v)) EXCEPT !.body = data]
  <2>1. q.op # "createVote"
    BY DEF NewRequest
  <2>2. requests' = [requests EXCEPT ![r] = q] /\ UNCHANGED <<limited, accepted>>
    BY <1>1 DEF CreateVotingBegins, Begin, unchangedByVoting
  <2> HIDE DEF q
  <2> QED BY <2>1, <2>2, OthersAskNothing
<1>2. ASSUME NEW u, NEW v, NEW data, UpdateVotingBegins(r, u, v, data)
      PROVE  NobodyAsks /\ UNCHANGED <<limited, accepted>>
  <2> DEFINE q == [NewRequest("updateVoting", u, v, AccessStage(u, v))
                     EXCEPT !.body = data, !.row = votings[v]]
  <2>1. q.op # "createVote"
    BY DEF NewRequest
  <2>2. requests' = [requests EXCEPT ![r] = q] /\ UNCHANGED <<limited, accepted>>
    BY <1>2 DEF UpdateVotingBegins, Begin
  <2> HIDE DEF q
  <2> QED BY <2>1, <2>2, OthersAskNothing
<1>3. ASSUME NEW u, NEW v, DeleteVotingBegins(r, u, v)
      PROVE  NobodyAsks /\ UNCHANGED <<limited, accepted>>
  <2> DEFINE q == NewRequest("deleteVoting", u, v, AccessStage(u, v))
  <2>1. q.op # "createVote"
    BY DEF NewRequest
  <2>2. requests' = [requests EXCEPT ![r] = q] /\ UNCHANGED <<limited, accepted>>
    BY <1>3 DEF DeleteVotingBegins, Begin
  <2> HIDE DEF q
  <2> QED BY <2>1, <2>2, OthersAskNothing
<1>4. CASE VotingEditorAnswered(r)
  <2>1. requests[r] # None /\ (MovesTo(r, "granted") \/ Ends(r))
    BY <1>4 DEF VotingEditorAnswered, At
  <2>2. NobodyAsks
    BY <2>1, MovedOnAskNothing, EndedAskNothing DEF Ends
  <2> QED BY <1>4, <2>2 DEF VotingEditorAnswered
<1>5. CASE InsertsVoting(r) \/ SavesVoting(r) \/ DeletesVoting(r)
  BY <1>5, EndedAskNothing DEF InsertsVoting, SavesVoting, DeletesVoting, Ends, unchangedByVoting
<1> QED BY <1>1, <1>2, <1>3, <1>4, <1>5 DEF VotingStep

LEMMA OptionStepRate ==
  ASSUME Inv, NEW r \in Requests, OptionStep(r)
  PROVE  NobodyAsks /\ UNCHANGED <<limited, accepted>>
<1>1. ASSUME NEW u, NEW v, NEW card, CreateOptionBegins(r, u, v, card)
      PROVE  NobodyAsks /\ UNCHANGED <<limited, accepted>>
  <2> DEFINE q == IF IsBroadcaster(u, v)
                  THEN [NewRequest("createOption", u, v, "card") EXCEPT !.card = card]
                  ELSE [NewRequest("createOption", u, v, "editor")
                          EXCEPT !.card = card, !.row = votings[v]]
  <2>1. q.op # "createVote"
    BY DEF NewRequest
  <2>2. requests' = [requests EXCEPT ![r] = q] /\ UNCHANGED <<limited, accepted>>
    BY <1>1 DEF CreateOptionBegins, Begin
  <2> HIDE DEF q
  <2> QED BY <2>1, <2>2, OthersAskNothing
<1>2. ASSUME NEW u, NEW o, DeleteOptionBegins(r, u, o)
      PROVE  NobodyAsks /\ UNCHANGED <<limited, accepted>>
  <2> DEFINE q == LET v == options[o].voting
                  IN IF IsBroadcaster(u, v)
                     THEN [NewRequest("deleteOption", u, v, "granted") EXCEPT !.option = o]
                     ELSE [NewRequest("deleteOption", u, v, "editor")
                             EXCEPT !.option = o, !.row = votings[v]]
  <2>1. q.op # "createVote"
    BY DEF NewRequest
  <2>2. requests' = [requests EXCEPT ![r] = q] /\ UNCHANGED <<limited, accepted>>
    BY <1>2 DEF DeleteOptionBegins, Begin
  <2> HIDE DEF q
  <2> QED BY <2>1, <2>2, OthersAskNothing
<1>3. CASE CreateOptionEditorAnswered(r) \/ CreateOptionRolesAnswered(r)
  <2>1. /\ requests[r] # None /\ requests[r].op = "createOption"
        /\ \/ Ends(r) \/ MovesTo(r, "roles")
           \/ requests' = [requests EXCEPT ![r].stage = "card", ![r].row = None]
    BY <1>3 DEF CreateOptionEditorAnswered, CreateOptionRolesAnswered, ToCard, At
  <2>2. NobodyAsks
    BY <2>1, MovedAskNothing, EndedAskNothing DEF Ends
  <2> QED BY <1>3, <2>2 DEF CreateOptionEditorAnswered, CreateOptionRolesAnswered
<1>4. CASE GetsCard(r) \/ DeleteOptionAnswered(r)
  <2>1. /\ requests[r] # None
        /\ \/ Ends(r) \/ MovesTo(r, "granted")
           \/ requests' = [requests EXCEPT ![r].stage = "granted", ![r].row = None]
    BY <1>4 DEF GetsCard, DeleteOptionAnswered, Granted, At
  <2>2. NobodyAsks
    BY <2>1, MovedAskNothing, EndedAskNothing DEF Ends
  <2> QED BY <1>4, <2>2 DEF GetsCard, DeleteOptionAnswered
<1>5. CASE DeleteOptionCounts(r)
  <2>1. /\ requests[r] # None /\ requests[r].op = "deleteOption"
        /\ \E stage \in {"voted", "unvoted"} : requests' = [requests EXCEPT ![r].stage = stage]
    BY <1>5 DEF DeleteOptionCounts, At
  <2>2. PICK stage \in {"voted", "unvoted"} : requests' = [requests EXCEPT ![r].stage = stage]
    BY <2>1
  <2>3. requests[r] \in Request
    BY <2>1 DEF Inv, TypeOK
  <2>4. requests' = [requests EXCEPT ![r] = [requests[r] EXCEPT !.stage = stage]]
    BY <2>2 DEF Inv, TypeOK
  <2>5. [requests[r] EXCEPT !.stage = stage].op # "createVote"
    BY <2>1, <2>3 DEF Request
  <2>6. NobodyAsks
    BY <2>4, <2>5, OthersAskNothing
  <2> QED BY <1>5, <2>6 DEF DeleteOptionCounts
<1>6. CASE InsertsOption(r) \/ DeletesOption(r)
  BY <1>6, EndedAskNothing DEF InsertsOption, DeletesOption, Ends
<1> QED BY <1>1, <1>2, <1>3, <1>4, <1>5, <1>6 DEF OptionStep

\* A vote is let through at once: its request was none of those that ask.
LEMMA LetThroughAtOnce ==
  ASSUME Inv, VotesWithinRate, NEW r \in Requests, NEW u \in Users, NEW v \in VotingIds,
         NobodyAsks, ~At(r, "createVote", "roles")', <<u, v>> \notin limited, Accepts(u, v)
  PROVE  VotesWithinRate'
<1> SUFFICES ASSUME NEW w \in Users, NEW x \in VotingIds
             PROVE  /\ accepted'[<<w, x>>] > 0 <=> <<w, x>> \in limited'
                    /\ accepted'[<<w, x>>] + Cardinality(Asking(w, x)') <= Cardinality(Requests)
  BY DEF VotesWithinRate
<1>1. Asking(w, x)' \subseteq Asking(w, x)
  BY DEF Asking, NobodyAsks, At
<1>2. Asking(w, x) \in SUBSET Requests /\ Asking(w, x)' \in SUBSET Requests
  BY DEF Asking
<1>3. Cardinality(Asking(w, x)') <= Cardinality(Asking(w, x))
  BY <1>1, <1>2, SomeRequests, FS_Subset
<1>4. accepted[<<w, x>>] \in Nat /\ accepted[<<u, v>>] = 0
  BY DEF Inv, TypeOK, VotesWithinRate
<1>5. CASE w = u /\ x = v
  <2>1. accepted'[<<w, x>>] = 1 /\ <<w, x>> \in limited'
    BY <1>4, <1>5 DEF Accepts, Inv, TypeOK
  <2>2. r \notin Asking(w, x)'
    BY DEF Asking
  <2> QED BY <1>2, <2>1, <2>2, FewerRequests, SomeRequests
<1>6. CASE ~(w = u /\ x = v)
  <2>1. accepted'[<<w, x>>] = accepted[<<w, x>>] /\ (<<w, x>> \in limited' <=> <<w, x>> \in limited)
    BY <1>6 DEF Accepts, Inv, TypeOK
  <2> QED BY <1>2, <1>3, <1>4, <2>1, SomeRequests DEF VotesWithinRate
<1> QED BY <1>5, <1>6

\* A vote is let through when Twitch has answered: one request less asks.
LEMMA LetThroughLater ==
  ASSUME Inv, VotesWithinRate, NEW r \in Requests, NobodyAsks,
         At(r, "createVote", "roles"), ~At(r, "createVote", "roles")',
         Accepts(requests[r].user, requests[r].voting)
  PROVE  VotesWithinRate'
<1> DEFINE u == requests[r].user
           v == requests[r].voting
<1>0. u \in Users /\ v \in VotingIds
  BY DEF Inv, TypeOK, Request, At
<1> SUFFICES ASSUME NEW w \in Users, NEW x \in VotingIds
             PROVE  /\ accepted'[<<w, x>>] > 0 <=> <<w, x>> \in limited'
                    /\ accepted'[<<w, x>>] + Cardinality(Asking(w, x)') <= Cardinality(Requests)
  BY DEF VotesWithinRate
<1>1. Asking(w, x)' \subseteq Asking(w, x)
  BY DEF Asking, NobodyAsks, At
<1>2. Asking(w, x) \in SUBSET Requests /\ Asking(w, x)' \in SUBSET Requests
  BY DEF Asking
<1>3. Cardinality(Asking(w, x)') <= Cardinality(Asking(w, x))
  BY <1>1, <1>2, SomeRequests, FS_Subset
<1>4. accepted[<<w, x>>] \in Nat
  BY DEF Inv, TypeOK
<1>5. CASE w = u /\ x = v
  <2>1. accepted'[<<w, x>>] = accepted[<<w, x>>] + 1 /\ <<w, x>> \in limited'
    BY <1>4, <1>5 DEF Accepts, Inv, TypeOK
  <2>2. r \in Asking(w, x) /\ r \notin Asking(w, x)'
    BY <1>5 DEF Asking
  <2>3. Asking(w, x)' \subseteq Asking(w, x) \ {r}
    BY <1>1, <2>2
  <2>4. IsFiniteSet(Asking(w, x))
    BY <1>2, SomeRequests
  <2>5. /\ IsFiniteSet(Asking(w, x) \ {r})
        /\ Cardinality(Asking(w, x) \ {r}) = Cardinality(Asking(w, x)) - 1
    BY <2>2, <2>4, FS_RemoveElement
  <2>6. Cardinality(Asking(w, x)') <= Cardinality(Asking(w, x)) - 1
    BY <2>3, <2>5, FS_Subset
  <2>7. accepted[<<w, x>>] + Cardinality(Asking(w, x)) <= Cardinality(Requests)
    BY DEF VotesWithinRate
  <2>8. /\ Cardinality(Asking(w, x)) \in Nat /\ Cardinality(Asking(w, x)') \in Nat
        /\ Cardinality(Requests) \in Nat
    BY <1>2, SomeRequests
  <2> QED BY <1>4, <2>1, <2>6, <2>7, <2>8
<1>6. CASE ~(w = u /\ x = v)
  <2>1. accepted'[<<w, x>>] = accepted[<<w, x>>] /\ (<<w, x>> \in limited' <=> <<w, x>> \in limited)
    BY <1>0, <1>6 DEF Accepts, Inv, TypeOK
  <2> QED BY <1>2, <1>3, <1>4, <2>1, SomeRequests DEF VotesWithinRate
<1> QED BY <1>5, <1>6

LEMMA BeginsToAsk ==
  ASSUME Inv, VotesWithinRate, NEW r \in Requests, NEW u \in Users, NEW v \in VotingIds, NEW q,
         requests' = [requests EXCEPT ![r] = q], q.user = u, q.voting = v,
         <<u, v>> \notin limited, UNCHANGED <<limited, accepted>>
  PROVE  VotesWithinRate'
<1> SUFFICES ASSUME NEW w \in Users, NEW x \in VotingIds
             PROVE  /\ accepted'[<<w, x>>] > 0 <=> <<w, x>> \in limited'
                    /\ accepted'[<<w, x>>] + Cardinality(Asking(w, x)') <= Cardinality(Requests)
  BY DEF VotesWithinRate
<1>1. Asking(w, x) \in SUBSET Requests /\ Asking(w, x)' \in SUBSET Requests
  BY DEF Asking
<1>2. accepted[<<w, x>>] \in Nat /\ accepted[<<u, v>>] = 0
  BY DEF Inv, TypeOK, VotesWithinRate
<1>3. CASE w = u /\ x = v
  BY <1>1, <1>2, <1>3, SomeRequests DEF VotesWithinRate
<1>4. CASE ~(w = u /\ x = v)
  <2>1. Asking(w, x)' \subseteq Asking(w, x)
    BY <1>4 DEF Asking, At, Inv, TypeOK
  <2>2. Cardinality(Asking(w, x)') <= Cardinality(Asking(w, x))
    BY <1>1, <2>1, SomeRequests, FS_Subset
  <2> QED BY <1>1, <1>2, <2>2, SomeRequests DEF VotesWithinRate
<1> QED BY <1>3, <1>4

LEMMA VoteStepRate ==
  ASSUME Inv, VotesWithinRate, NEW r \in Requests, VoteStep(r)
  PROVE  VotesWithinRate'
<1>1. ASSUME NEW u \in Users, NEW o \in OptionIds, CreateVoteBegins(r, u, o)
      PROVE  VotesWithinRate'
  <2> DEFINE v == options[o].voting
  <2>1. options[o] # None /\ <<u, v>> \notin limited
    BY <1>1 DEF CreateVoteBegins
  <2>2. v \in VotingIds
    BY <2>1 DEF Inv, TypeOK, VotingOption
  <2>3. CASE "viewer" \in votings[v].permissions.canVote
    <3> DEFINE q == [NewRequest("createVote", u, v, "granted") EXCEPT !.option = o]
    <3>1. q.stage # "roles"
      BY DEF NewRequest
    <3>2. requests' = [requests EXCEPT ![r] = q] /\ Accepts(u, v)
      BY <1>1, <2>3 DEF CreateVoteBegins, Begin
    <3> HIDE DEF q, v
    <3>3. NobodyAsks /\ ~At(r, "createVote", "roles")'
      BY <3>1, <3>2, OthersAskNothing DEF At, Inv, TypeOK
    <3> QED BY <2>1, <2>2, <3>2, <3>3, LetThroughAtOnce
  <2>4. CASE "viewer" \notin votings[v].permissions.canVote
    <3> DEFINE q == [NewRequest("createVote", u, v, "roles")
                       EXCEPT !.option = o, !.row = votings[v]]
    <3>1. q.user = u /\ q.voting = v
      BY DEF NewRequest
    <3>2. requests' = [requests EXCEPT ![r] = q] /\ UNCHANGED <<limited, accepted>>
      BY <1>1, <2>4 DEF CreateVoteBegins, Begin
    <3> HIDE DEF q, v
    <3> QED BY <2>1, <2>2, <3>1, <3>2, BeginsToAsk
  <2> QED BY <2>3, <2>4
<1>2. ASSUME NEW u \in Users, NEW o \in OptionIds, DeleteVoteBegins(r, u, o)
      PROVE  VotesWithinRate'
  <2> DEFINE q == [NewRequest("deleteVote", u, options[o].voting, "granted") EXCEPT !.option = o]
  <2>1. q.op # "createVote"
    BY DEF NewRequest
  <2>2. requests' = [requests EXCEPT ![r] = q] /\ UNCHANGED <<limited, accepted>>
    BY <1>2 DEF DeleteVoteBegins, Begin
  <2> HIDE DEF q
  <2> QED BY <2>1, <2>2, OthersAskNothing, QuietRate
<1>3. CASE CreateVoteRolesAnswered(r)
  <2>1. At(r, "createVote", "roles") /\ requests[r] # None
    BY <1>3 DEF CreateVoteRolesAnswered, At
  <2>2. CASE Granted(r) /\ Accepts(requests[r].user, requests[r].voting)
    <3>1. NobodyAsks
      BY <2>1, <2>2, MovedOnAskNothing DEF Granted
    <3>2. ~At(r, "createVote", "roles")'
      BY <2>1, <2>2 DEF Granted, At, Inv, TypeOK, Request
    <3> QED BY <2>1, <2>2, <3>1, <3>2, LetThroughLater
  <2>3. CASE Ends(r) /\ UNCHANGED <<limited, accepted>>
    BY <2>3, EndedAskNothing, QuietRate DEF Ends
  <2> QED BY <1>3, <2>2, <2>3 DEF CreateVoteRolesAnswered
<1>4. CASE SelectsVote(r)
  <2>1. /\ requests[r] # None /\ UNCHANGED <<limited, accepted>>
        /\ Ends(r) \/ MovesTo(r, "insert") \/ MovesTo(r, "update")
    BY <1>4 DEF SelectsVote, At
  <2> QED BY <2>1, MovedOnAskNothing, EndedAskNothing, QuietRate DEF Ends
<1>5. CASE WritesVote(r) \/ RemovesVote(r)
  BY <1>5, EndedAskNothing, QuietRate DEF WritesVote, RemovesVote, Ends
<1> QED BY <1>1, <1>2, <1>3, <1>4, <1>5 DEF VoteStep

LEMMA RateStep == Inv /\ VotesWithinRate /\ [Next]_vars => VotesWithinRate'
<1> SUFFICES ASSUME Inv, VotesWithinRate, [Next]_vars PROVE VotesWithinRate'
  OBVIOUS
<1>1. ASSUME NEW r \in Requests, VotingStep(r) \/ OptionStep(r) PROVE VotesWithinRate'
  BY <1>1, VotingStepRate, OptionStepRate, QuietRate
<1>2. ASSUME NEW r \in Requests, Fails(r) PROVE VotesWithinRate'
  BY <1>2, EndedAskNothing, QuietRate DEF Fails, Ends
<1>3. ASSUME NEW u \in Users, NEW v \in VotingIds, LimitExpires(u, v) PROVE VotesWithinRate'
  <2> SUFFICES ASSUME NEW w \in Users, NEW x \in VotingIds
               PROVE  /\ accepted'[<<w, x>>] > 0 <=> <<w, x>> \in limited'
                      /\ accepted'[<<w, x>>] + Cardinality(Asking(w, x)') <= Cardinality(Requests)
    BY DEF VotesWithinRate
  <2>1. Asking(w, x)' = Asking(w, x) /\ Asking(w, x) \in SUBSET Requests
    BY <1>3 DEF LimitExpires, Asking, At
  <2>2. accepted[<<w, x>>] \in Nat
    BY DEF Inv, TypeOK
  <2>3. CASE w = u /\ x = v
    <3>1. accepted'[<<w, x>>] = 0 /\ <<w, x>> \notin limited'
      BY <1>3, <2>3 DEF LimitExpires, Inv, TypeOK
    <3> QED BY <2>1, <3>1, SomeRequests
  <2>4. CASE ~(w = u /\ x = v)
    <3>1. accepted'[<<w, x>>] = accepted[<<w, x>>] /\ (<<w, x>> \in limited' <=> <<w, x>> \in limited)
      BY <1>3, <2>4 DEF LimitExpires, Inv, TypeOK
    <3> QED BY <2>1, <3>1 DEF VotesWithinRate
  <2> QED BY <2>3, <2>4
<1>4. CASE UNCHANGED vars
  BY <1>4 DEF vars, tableVars, VotesWithinRate, Asking, At
<1> QED BY <1>1, <1>2, <1>3, <1>4, VoteStepRate DEF Next

----------------------------------------------------------------------------
(* Votes that go away                                                       *)

\* Why a request may delete what it is about, once nothing but the statement is left.
\* It is a deletion of a voting by the broadcaster or an editor; of an option by
\* them, or for which every vote has come after the count; or of a vote, which is as
\* the request has read it unless another has come later.
GroundsOK(q, vs, seen) ==
  /\ q.op = "deleteVoting" /\ q.stage = "granted" => IsStaff(q.user, q.voting)
  /\ \/ q.op = "deleteOption" /\ q.stage = "unvoted"
     \/ q.op = "deleteOption" /\ q.stage = "granted" /\ ~IsStaff(q.user, q.voting)
     =>
       \A u \in Users, v \in VotingIds : vs[u][v] = q.option => <<u, v>> \in seen
  /\ q.op = "deleteVote" =>
       vs[q.user][q.voting] \in {None, q.option} \/ <<q.user, q.voting>> \in seen

Grounds ==
  \A r \in Requests : requests[r] # None => GroundsOK(requests[r], votes, overtaken[r])

LEMMA NoGroundsNeeded ==
  ASSUME NEW q, NEW vs, NEW seen,
         \/ q.op \notin {"deleteVoting", "deleteOption", "deleteVote"}
         \/ q.op # "deleteVote" /\ q.stage \notin {"unvoted", "granted"}
  PROVE  GroundsOK(q, vs, seen)
BY DEF GroundsOK

\* Whatever one request does, the others keep their grounds: votes are left alone, go
\* away, or overtake the deletions under way.
LEMMA OthersKeepGrounds ==
  ASSUME Inv, Grounds, NEW r \in Requests, NEW q, requests' = [requests EXCEPT ![r] = q],
         q = None \/ GroundsOK(q, votes', overtaken'[r]),
         \A s \in Requests \ {r} : overtaken[s] \subseteq overtaken'[s],
         \A u \in Users, v \in VotingIds :
           \/ votes'[u][v] \in {None, votes[u][v]}
           \/ \A s \in Requests \ {r} :
                requests[s] # None /\ requests[s].op \in {"deleteOption", "deleteVote"} =>
                  <<u, v>> \in overtaken'[s]
  PROVE  Grounds'
<1> SUFFICES ASSUME NEW s \in Requests, requests'[s] # None
             PROVE  GroundsOK(requests'[s], votes', overtaken'[s])
  BY DEF Grounds
<1>1. CASE s = r
  BY <1>1 DEF Inv, TypeOK
<1>2. CASE s # r
  <2>1. /\ requests'[s] = requests[s] /\ requests[s] # None
        /\ GroundsOK(requests[s], votes, overtaken[s]) /\ overtaken[s] \subseteq overtaken'[s]
    BY <1>2 DEF Grounds, Inv, TypeOK
  <2>2. RequestOK(requests[s])
    BY <2>1 DEF Inv, RequestsOK
  <2>3. requests[s].user \in Users /\ requests[s].voting \in VotingIds
    BY <2>2 DEF RequestOK, Request
  <2>4. ASSUME requests[s].op = "deleteOption",
               \/ requests[s].stage = "unvoted"
               \/ /\ requests[s].stage = "granted"
                  /\ ~IsStaff(requests[s].user, requests[s].voting),
               NEW u \in Users, NEW v \in VotingIds, votes'[u][v] = requests[s].option
        PROVE  <<u, v>> \in overtaken'[s]
    <3>1. requests[s].option # None
      BY <2>2, <2>4, VotingsAssumption DEF RequestOK
    <3>2. votes[u][v] = requests[s].option => <<u, v>> \in overtaken[s]
      BY <2>1, <2>4 DEF GroundsOK
    <3> QED BY <1>2, <2>1, <2>4, <3>1, <3>2
  <2>5. ASSUME requests[s].op = "deleteVote"
        PROVE  \/ votes'[requests[s].user][requests[s].voting] \in {None, requests[s].option}
               \/ <<requests[s].user, requests[s].voting>> \in overtaken'[s]
    <3>1. \/ votes[requests[s].user][requests[s].voting] \in {None, requests[s].option}
          \/ <<requests[s].user, requests[s].voting>> \in overtaken[s]
      BY <2>1, <2>5 DEF GroundsOK
    <3> QED BY <1>2, <2>1, <2>3, <2>5, <3>1
  <2>6. requests[s].op = "deleteVoting" /\ requests[s].stage = "granted" =>
          IsStaff(requests[s].user, requests[s].voting)
    BY <2>1 DEF GroundsOK
  <2> QED BY <2>1, <2>4, <2>5, <2>6 DEF GroundsOK
<1> QED BY <1>1, <1>2

\* Only the request changes, and perhaps what has overtaken it.
LEMMA SameVotesKeepGrounds ==
  ASSUME Inv, Grounds, NEW r \in Requests, NEW q, requests' = [requests EXCEPT ![r] = q],
         q = None \/ GroundsOK(q, votes, overtaken'[r]), UNCHANGED votes,
         UNCHANGED overtaken \/ overtaken' = [overtaken EXCEPT ![r] = {}]
  PROVE  Grounds'
<1>1. \A s \in Requests \ {r} : overtaken[s] \subseteq overtaken'[s]
  BY DEF Inv, TypeOK
<1>2. \A u \in Users, v \in VotingIds : votes'[u][v] \in {None, votes[u][v]}
  OBVIOUS
<1> QED BY <1>1, <1>2, OthersKeepGrounds

LEMMA EndedKeepsGrounds ==
  ASSUME Inv, Grounds, NEW r \in Requests, Ends(r),
         \A u \in Users, v \in VotingIds : votes'[u][v] \in {None, votes[u][v]}
  PROVE  Grounds'
<1>1. requests' = [requests EXCEPT ![r] = None] /\ overtaken' = [overtaken EXCEPT ![r] = {}]
  BY DEF Ends
<1>2. \A s \in Requests \ {r} : overtaken[s] \subseteq overtaken'[s]
  BY <1>1 DEF Inv, TypeOK
<1> QED BY <1>1, <1>2, OthersKeepGrounds

\* A request that moves on has the grounds it had, and needs none before "granted".
LEMMA MovedKeepsGrounds ==
  ASSUME Inv, Grounds, NEW r \in Requests, requests[r] # None, NEW stage,
         UNCHANGED <<votes, overtaken>>,
         requests[r].op \notin {"deleteVoting", "deleteOption", "deleteVote"},
         \/ requests' = [requests EXCEPT ![r].stage = stage]
         \/ requests' = [requests EXCEPT ![r].stage = stage, ![r].row = None]
  PROVE  Grounds'
<1>1. requests[r] \in Request
  BY DEF Inv, TypeOK
<1>2. \/ requests' = [requests EXCEPT ![r] = [requests[r] EXCEPT !.stage = stage]]
      \/ requests' = [requests EXCEPT ![r] = [requests[r] EXCEPT !.stage = stage, !.row = None]]
  BY DEF Inv, TypeOK
<1>3. /\ [requests[r] EXCEPT !.stage = stage].op = requests[r].op
      /\ [requests[r] EXCEPT !.stage = stage, !.row = None].op = requests[r].op
  BY <1>1 DEF Request
<1> QED BY <1>2, <1>3, NoGroundsNeeded, SameVotesKeepGrounds

LEMMA VotingStepGrounds ==
  ASSUME Inv, Grounds, NEW r \in Requests, VotingStep(r)
  PROVE  Grounds'
<1>1. ASSUME NEW u, NEW v, NEW data, CreateVotingBegins(r, u, v, data) PROVE Grounds'
  <2> DEFINE q == [NewRequest("createVoting", u, v, AccessStage(u, v)) EXCEPT !.body = data]
  <2>1. q.op \notin {"deleteVoting", "deleteOption", "deleteVote"}
    BY DEF NewRequest
  <2>2. requests' = [requests EXCEPT ![r] = q] /\ UNCHANGED <<votes, overtaken>>
    BY <1>1 DEF CreateVotingBegins, Begin
  <2> HIDE DEF q
  <2> QED BY <2>1, <2>2, NoGroundsNeeded, SameVotesKeepGrounds
<1>2. ASSUME NEW u, NEW v, NEW data, UpdateVotingBegins(r, u, v, data) PROVE Grounds'
  <2> DEFINE q == [NewRequest("updateVoting", u, v, AccessStage(u, v))
                     EXCEPT !.body = data, !.row = votings[v]]
  <2>1. q.op \notin {"deleteVoting", "deleteOption", "deleteVote"}
    BY DEF NewRequest
  <2>2. requests' = [requests EXCEPT ![r] = q] /\ UNCHANGED <<votes, overtaken>>
    BY <1>2 DEF UpdateVotingBegins, Begin, tableVars
  <2> HIDE DEF q
  <2> QED BY <2>1, <2>2, NoGroundsNeeded, SameVotesKeepGrounds
<1>3. ASSUME NEW u, NEW v, DeleteVotingBegins(r, u, v) PROVE Grounds'
  <2> DEFINE q == NewRequest("deleteVoting", u, v, AccessStage(u, v))
  <2>1. GroundsOK(q, votes, overtaken[r])
    BY DEF NewRequest, GroundsOK, AccessStage, IsStaff
  <2>2. requests' = [requests EXCEPT ![r] = q] /\ UNCHANGED <<votes, overtaken>>
    BY <1>3 DEF DeleteVotingBegins, Begin, tableVars
  <2> HIDE DEF q
  <2> QED BY <2>1, <2>2, SameVotesKeepGrounds
<1>4. CASE VotingEditorAnswered(r)
  <2>1. requests[r] \in Request /\ UNCHANGED votes
    BY <1>4 DEF VotingEditorAnswered, At, Inv, TypeOK, tableVars
  <2>2. CASE IsEditor(r) /\ MovesTo(r, "granted")
    <3> DEFINE q == [requests[r] EXCEPT !.stage = "granted"]
    <3>1. q.op = requests[r].op /\ q.user = requests[r].user /\ q.voting = requests[r].voting
      BY <2>1 DEF Request
    <3>2. requests' = [requests EXCEPT ![r] = q] /\ UNCHANGED overtaken
      BY <2>2 DEF MovesTo, Inv, TypeOK
    <3>3. IsStaff(q.user, q.voting)
      BY <2>2, <3>1 DEF IsEditor, IsStaff
    <3>4. q.op \notin {"deleteOption", "deleteVote"}
      BY <1>4, <3>1 DEF VotingEditorAnswered, At
    <3> HIDE DEF q
    <3>5. GroundsOK(q, votes, overtaken[r])
      BY <3>3, <3>4 DEF GroundsOK
    <3> QED BY <2>1, <3>2, <3>5, SameVotesKeepGrounds
  <2>3. CASE Ends(r)
    BY <2>1, <2>3, EndedKeepsGrounds
  <2> QED BY <1>4, <2>2, <2>3 DEF VotingEditorAnswered
<1>5. CASE InsertsVoting(r) \/ SavesVoting(r)
  BY <1>5, EndedKeepsGrounds DEF InsertsVoting, SavesVoting
<1>6. CASE DeletesVoting(r)
  BY <1>6, EndedKeepsGrounds DEF DeletesVoting, DeletesOptions
<1> QED BY <1>1, <1>2, <1>3, <1>4, <1>5, <1>6 DEF VotingStep

LEMMA OptionStepGrounds ==
  ASSUME Inv, Grounds, NEW r \in Requests, OptionStep(r)
  PROVE  Grounds'
<1>1. ASSUME NEW u, NEW v, NEW card, CreateOptionBegins(r, u, v, card) PROVE Grounds'
  <2> DEFINE q == IF IsBroadcaster(u, v)
                  THEN [NewRequest("createOption", u, v, "card") EXCEPT !.card = card]
                  ELSE [NewRequest("createOption", u, v, "editor")
                          EXCEPT !.card = card, !.row = votings[v]]
  <2>1. q.op \notin {"deleteVoting", "deleteOption", "deleteVote"}
    BY DEF NewRequest
  <2>2. requests' = [requests EXCEPT ![r] = q] /\ UNCHANGED <<votes, overtaken>>
    BY <1>1 DEF CreateOptionBegins, Begin, tableVars
  <2> HIDE DEF q
  <2> QED BY <2>1, <2>2, NoGroundsNeeded, SameVotesKeepGrounds
<1>2. ASSUME NEW u, NEW o, DeleteOptionBegins(r, u, o) PROVE Grounds'
  <2> DEFINE v == options[o].voting
             q == IF IsBroadcaster(u, v)
                  THEN [NewRequest("deleteOption", u, v, "granted") EXCEPT !.option = o]
                  ELSE [NewRequest("deleteOption", u, v, "editor")
                          EXCEPT !.option = o, !.row = votings[v]]
  <2>1. GroundsOK(q, votes, overtaken[r])
    BY DEF NewRequest, GroundsOK, IsStaff
  <2>2. requests' = [requests EXCEPT ![r] = q] /\ UNCHANGED <<votes, overtaken>>
    BY <1>2 DEF DeleteOptionBegins, Begin, tableVars
  <2> HIDE DEF v, q
  <2> QED BY <2>1, <2>2, SameVotesKeepGrounds
<1>3. CASE CreateOptionEditorAnswered(r) \/ CreateOptionRolesAnswered(r) \/ GetsCard(r)
  <2>1. /\ requests[r] # None /\ requests[r].op = "createOption" /\ UNCHANGED votes
        /\ \/ Ends(r)
           \/ UNCHANGED overtaken /\ \E stage \in Stage :
                \/ requests' = [requests EXCEPT ![r].stage = stage]
                \/ requests' = [requests EXCEPT ![r].stage = stage, ![r].row = None]
    BY <1>3 DEF CreateOptionEditorAnswered, CreateOptionRolesAnswered, GetsCard, ToCard,
                MovesTo, At, tableVars, Stage
  <2>2. CASE Ends(r)
    BY <2>1, <2>2, EndedKeepsGrounds
  <2>3. CASE ~Ends(r)
    BY <2>1, <2>3, MovedKeepsGrounds
  <2> QED BY <2>2, <2>3
<1>4. CASE DeleteOptionAnswered(r)
  <2>1. requests[r] \in Request /\ requests[r].op = "deleteOption" /\ UNCHANGED votes
    BY <1>4 DEF DeleteOptionAnswered, At, Inv, TypeOK, tableVars
  <2>2. CASE IsEditor(r) \/ MayDelete(requests[r])
    <3> DEFINE q == [requests[r] EXCEPT !.stage = "granted", !.row = None]
    <3>1. /\ q.op = "deleteOption" /\ q.user = requests[r].user /\ q.stage = "granted"
          /\ q.voting = requests[r].voting /\ q.option = requests[r].option
      BY <2>1 DEF Request
    <3>2. requests' = [requests EXCEPT ![r] = q] /\ UNCHANGED overtaken
      BY <1>4, <2>2 DEF DeleteOptionAnswered, Granted, Inv, TypeOK
    <3>3. IsStaff(q.user, q.voting) \/ requests[r].stage = "unvoted"
      BY <2>2, <3>1 DEF IsEditor, IsStaff, MayDelete
    <3>4. GroundsOK(requests[r], votes, overtaken[r])
      BY <1>4 DEF DeleteOptionAnswered, At, Grounds
    <3> HIDE DEF q
    <3>5. GroundsOK(q, votes, overtaken[r])
      BY <2>1, <3>1, <3>3, <3>4 DEF GroundsOK
    <3> QED BY <2>1, <3>2, <3>5, SameVotesKeepGrounds
  <2>3. CASE ~(IsEditor(r) \/ MayDelete(requests[r]))
    BY <1>4, <2>1, <2>3, EndedKeepsGrounds DEF DeleteOptionAnswered
  <2> QED BY <2>2, <2>3
<1>7. CASE DeleteOptionCounts(r)
  <2>1. /\ requests[r] \in Request /\ requests[r].op = "deleteOption" /\ UNCHANGED votes
        /\ overtaken' = [overtaken EXCEPT ![r] = {}]
    BY <1>7 DEF DeleteOptionCounts, At, Inv, TypeOK, tableVars
  <2>2. PICK stage : /\ requests' = [requests EXCEPT ![r].stage = stage]
                     /\ \/ stage = "unvoted" /\ VotesFor(requests[r].option) = {}
                        \/ stage = "voted"
    BY <1>7 DEF DeleteOptionCounts
  <2> DEFINE q == [requests[r] EXCEPT !.stage = stage]
  <2>3. requests' = [requests EXCEPT ![r] = q]
    BY <2>2 DEF Inv, TypeOK
  <2>4. q.op = "deleteOption" /\ q.stage = stage /\ q.option = requests[r].option
    BY <2>1 DEF Request
  <2> HIDE DEF q
  <2>5. GroundsOK(q, votes, overtaken'[r])
    BY <2>2, <2>4 DEF GroundsOK, VotesFor
  <2> QED BY <2>1, <2>3, <2>5, SameVotesKeepGrounds
<1>5. CASE InsertsOption(r)
  BY <1>5, EndedKeepsGrounds DEF InsertsOption
<1>6. CASE DeletesOption(r)
  BY <1>6, EndedKeepsGrounds DEF DeletesOption, DeletesOptions
<1> QED BY <1>1, <1>2, <1>3, <1>4, <1>5, <1>6, <1>7 DEF OptionStep

LEMMA VoteStepGrounds ==
  ASSUME Inv, Grounds, NEW r \in Requests, VoteStep(r)
  PROVE  Grounds'
<1>1. ASSUME NEW u, NEW o, CreateVoteBegins(r, u, o) PROVE Grounds'
  <2> DEFINE q == IF "viewer" \in votings[options[o].voting].permissions.canVote
                  THEN [NewRequest("createVote", u, options[o].voting, "granted")
                          EXCEPT !.option = o]
                  ELSE [NewRequest("createVote", u, options[o].voting, "roles")
                          EXCEPT !.option = o, !.row = votings[options[o].voting]]
  <2>1. q.op \notin {"deleteVoting", "deleteOption", "deleteVote"}
    BY DEF NewRequest
  <2>2. requests' = [requests EXCEPT ![r] = q] /\ UNCHANGED <<votes, overtaken>>
    BY <1>1 DEF CreateVoteBegins, Begin, tableVars
  <2> HIDE DEF q
  <2> QED BY <2>1, <2>2, NoGroundsNeeded, SameVotesKeepGrounds
<1>2. ASSUME NEW u, NEW o, DeleteVoteBegins(r, u, o) PROVE Grounds'
  <2> DEFINE v == options[o].voting
             q == [NewRequest("deleteVote", u, v, "granted") EXCEPT !.option = o]
  <2>1. votes[u][v] = o
    BY <1>2 DEF DeleteVoteBegins
  <2>2. requests' = [requests EXCEPT ![r] = q] /\ UNCHANGED <<votes, overtaken>>
    BY <1>2 DEF DeleteVoteBegins, Begin, tableVars
  <2> HIDE DEF v
  <2>3. q.op = "deleteVote" /\ q.user = u /\ q.voting = v /\ q.option = o
    BY DEF NewRequest
  <2> HIDE DEF q
  <2>4. GroundsOK(q, votes, overtaken[r])
    BY <2>1, <2>3 DEF GroundsOK
  <2> QED BY <2>2, <2>4, SameVotesKeepGrounds
<1>3. CASE CreateVoteRolesAnswered(r) \/ SelectsVote(r)
  <2>1. /\ requests[r] # None /\ requests[r].op = "createVote" /\ UNCHANGED votes
        /\ \/ Ends(r)
           \/ UNCHANGED overtaken /\ \E stage \in Stage :
                \/ requests' = [requests EXCEPT ![r].stage = stage]
                \/ requests' = [requests EXCEPT ![r].stage = stage, ![r].row = None]
    BY <1>3 DEF CreateVoteRolesAnswered, SelectsVote, Granted, MovesTo, At, tableVars, Stage
  <2>2. CASE Ends(r)
    BY <2>1, <2>2, EndedKeepsGrounds
  <2>3. CASE ~Ends(r)
    BY <2>1, <2>3, MovedKeepsGrounds
  <2> QED BY <2>2, <2>3
<1>4. CASE WritesVote(r)
  <2>1. requests[r].user \in Users /\ requests[r].voting \in VotingIds
    BY <1>4 DEF WritesVote, At, Inv, TypeOK, Request
  <2>2. requests' = [requests EXCEPT ![r] = None]
    BY <1>4 DEF WritesVote
  <2>3. CASE /\ votes' = [votes EXCEPT ![requests[r].user][requests[r].voting] = requests[r].option]
             /\ Overtakes(r, requests[r].user, requests[r].voting)
    <3>1. \A s \in Requests \ {r} : overtaken[s] \subseteq overtaken'[s]
      BY <2>3 DEF Overtakes
    <3>2. ASSUME NEW u \in Users, NEW v \in VotingIds,
                 ~(u = requests[r].user /\ v = requests[r].voting)
          PROVE  votes'[u][v] = votes[u][v]
      BY <2>3, <3>2 DEF Inv, TypeOK
    <3>3. \A s \in Requests \ {r} :
            requests[s] # None /\ requests[s].op \in {"deleteOption", "deleteVote"} =>
              <<requests[r].user, requests[r].voting>> \in overtaken'[s]
      BY <2>3 DEF Overtakes
    <3>4. \A u \in Users, v \in VotingIds :
            \/ votes'[u][v] \in {None, votes[u][v]}
            \/ \A s \in Requests \ {r} :
                 requests[s] # None /\ requests[s].op \in {"deleteOption", "deleteVote"} =>
                   <<u, v>> \in overtaken'[s]
      BY <3>2, <3>3
    <3> QED BY <2>2, <3>1, <3>4, OthersKeepGrounds
  <2>4. CASE UNCHANGED <<votes, overtaken>>
    BY <2>2, <2>4, SameVotesKeepGrounds
  <2> QED BY <1>4, <2>3, <2>4 DEF WritesVote
<1>5. CASE RemovesVote(r)
  <2>1. \A u \in Users, v \in VotingIds : votes'[u][v] \in {None, votes[u][v]}
    BY <1>5 DEF RemovesVote, Inv, TypeOK
  <2> QED BY <1>5, <2>1, EndedKeepsGrounds DEF RemovesVote
<1> QED BY <1>1, <1>2, <1>3, <1>4, <1>5 DEF VoteStep

LEMMA GroundsStep == Inv /\ Grounds /\ [Next]_vars => Grounds'
<1> SUFFICES ASSUME Inv, Grounds, [Next]_vars PROVE Grounds'
  OBVIOUS
<1>1. ASSUME NEW r \in Requests, Fails(r) PROVE Grounds'
  BY <1>1, EndedKeepsGrounds DEF Fails, tableVars
<1>2. ASSUME NEW u \in Users, NEW v \in VotingIds, LimitExpires(u, v) PROVE Grounds'
  BY <1>2 DEF LimitExpires, tableVars, Grounds, GroundsOK
<1>3. CASE UNCHANGED vars
  BY <1>3 DEF vars, tableVars, Grounds, GroundsOK
<1> QED BY <1>1, <1>2, <1>3, VotingStepGrounds, OptionStepGrounds, VoteStepGrounds DEF Next

\* The step VotesNotLost is about.
Lost(u, v) == votes[u][v] # None /\ votes'[u][v] = None

Deletes(r, u, v) ==
  /\ requests[r] # None /\ requests'[r] = None
  /\ requests[r].op \in {"deleteVote", "deleteOption", "deleteVoting"}
  /\ \/ requests[r].op = "deleteVote" /\ requests[r].user = u
        /\ requests[r].option = votes[u][v]
     \/ requests[r].op # "deleteVote" /\ IsStaff(requests[r].user, v)
     \/ <<u, v>> \in overtaken[r]

LEMMA VotesKept ==
  ASSUME UNCHANGED votes \/ \E r \in Requests : requests[r] # None /\ WritesVote(r),
         Inv, NEW u \in Users, NEW v \in VotingIds
  PROVE  ~Lost(u, v)
<1>1. CASE UNCHANGED votes
  BY <1>1 DEF Lost
<1>2. ASSUME NEW r \in Requests, requests[r] # None, WritesVote(r) PROVE ~Lost(u, v)
  <2>1. requests[r].op = "createVote"
    BY <1>2 DEF WritesVote, At
  <2>2. requests[r].option \in OptionIds
    BY <1>2, <2>1 DEF Inv, RequestsOK, OptionKnown, TypeOK
  <2>3. \/ UNCHANGED votes
        \/ votes' = [votes EXCEPT ![requests[r].user][requests[r].voting] = requests[r].option]
    BY <1>2 DEF WritesVote
  <2>4. votes'[u][v] \in {votes[u][v], requests[r].option}
    <3> DEFINE w == requests[r].user
               x == requests[r].voting
               o == requests[r].option
    <3>1. votes \in [Users -> [VotingIds -> OptionIds \cup {None}]]
      BY DEF Inv, TypeOK
    <3>2. UNCHANGED votes \/ votes' = [votes EXCEPT ![w][x] = o]
      BY <2>3
    <3> HIDE DEF w, x, o
    <3>3. votes'[u][v] \in {votes[u][v], o}
      BY <3>1, <3>2
    <3> QED BY <3>3 DEF o
  <2> QED BY <2>2, <2>4, VotingsAssumption DEF Lost
<1> QED BY <1>1, <1>2

LEMMA DeletingVotes ==
  ASSUME Inv, Grounds, NEW u \in Users, NEW v \in VotingIds, Lost(u, v), NEW r \in Requests
  PROVE  DeletesVoting(r) \/ DeletesOption(r) \/ RemovesVote(r) => Deletes(r, u, v)
<1> DEFINE o == votes[u][v]
<1>1. o \in OptionIds /\ options[o] # None /\ options[o].voting = v
  BY DEF Lost, Inv, TypeOK, VotesHaveOptions
<1>2. ASSUME requests[r] # None, Ends(r)
      PROVE  /\ requests'[r] = None /\ RequestOK(requests[r])
             /\ GroundsOK(requests[r], votes, overtaken[r])
             /\ OptionKnown(requests[r], options, optionIds)
  BY <1>2 DEF Ends, Grounds, Inv, RequestsOK, TypeOK
<1>3. ASSUME DeletesVoting(r) PROVE Deletes(r, u, v)
  <2>1. /\ requests[r] # None /\ Ends(r)
        /\ requests[r].op = "deleteVoting" /\ requests[r].stage = "granted"
        /\ DeletesOptions(OptionsOf(requests[r].voting))
    BY <1>3 DEF DeletesVoting, At
  <2>2. o \in OptionsOf(requests[r].voting)
    BY <2>1 DEF DeletesOptions, Lost
  <2>3. requests[r].voting = v
    BY <1>1, <2>2 DEF OptionsOf
  <2>4. IsStaff(requests[r].user, v)
    BY <1>2, <2>1, <2>3 DEF GroundsOK
  <2> QED BY <1>2, <2>1, <2>4 DEF Deletes
<1>4. ASSUME DeletesOption(r) PROVE Deletes(r, u, v)
  <2>1. /\ requests[r] # None /\ Ends(r)
        /\ requests[r].op = "deleteOption" /\ requests[r].stage = "granted"
        /\ DeletesOptions({requests[r].option})
    BY <1>4 DEF DeletesOption, At
  <2>2. o = requests[r].option
    BY <2>1 DEF DeletesOptions, Lost
  <2>3. requests[r].voting = v
    BY <1>1, <1>2, <2>1, <2>2 DEF OptionKnown
  <2>4. IsStaff(requests[r].user, v) \/ <<u, v>> \in overtaken[r]
    BY <1>2, <2>1, <2>2, <2>3 DEF GroundsOK
  <2> QED BY <1>2, <2>1, <2>4 DEF Deletes
<1>5. ASSUME RemovesVote(r) PROVE Deletes(r, u, v)
  <2>1. /\ requests[r] # None /\ Ends(r) /\ requests[r].op = "deleteVote"
        /\ votes' = [votes EXCEPT ![requests[r].user][requests[r].voting] = None]
    BY <1>5 DEF RemovesVote, At
  <2>2. requests[r].user = u /\ requests[r].voting = v
    BY <2>1 DEF Lost, Inv, TypeOK
  <2>3. requests[r].option = o \/ <<u, v>> \in overtaken[r]
    BY <1>2, <2>1, <2>2 DEF GroundsOK, Lost
  <2> QED BY <1>2, <2>1, <2>2, <2>3 DEF Deletes
<1> QED BY <1>3, <1>4, <1>5

LEMMA LostStep ==
  Inv /\ Grounds /\ [Next]_vars =>
    \A u \in Users, v \in VotingIds : Lost(u, v) => \E r \in Requests : Deletes(r, u, v)
<1> SUFFICES ASSUME Inv, Grounds, [Next]_vars, NEW u \in Users, NEW v \in VotingIds, Lost(u, v)
             PROVE  \E r \in Requests : Deletes(r, u, v)
  OBVIOUS
<1>1. ASSUME NEW r \in Requests, VotingStep(r), ~DeletesVoting(r) PROVE UNCHANGED votes
  BY <1>1 DEF VotingStep, CreateVotingBegins, UpdateVotingBegins, DeleteVotingBegins,
     VotingEditorAnswered, InsertsVoting, SavesVoting, tableVars
<1>2. ASSUME NEW r \in Requests, OptionStep(r), ~DeletesOption(r) PROVE UNCHANGED votes
  BY <1>2 DEF OptionStep, CreateOptionBegins, DeleteOptionBegins, CreateOptionEditorAnswered,
     CreateOptionRolesAnswered, GetsCard, InsertsOption, DeleteOptionCounts,
     DeleteOptionAnswered, tableVars
<1>3. ASSUME NEW r \in Requests, VoteStep(r), ~RemovesVote(r)
      PROVE  UNCHANGED votes \/ (requests[r] # None /\ WritesVote(r))
  BY <1>3 DEF VoteStep, CreateVoteBegins, DeleteVoteBegins, CreateVoteRolesAnswered,
     SelectsVote, WritesVote, At, tableVars
<1>4. CASE UNCHANGED vars \/ (\E r \in Requests : Fails(r))
             \/ (\E w \in Users, x \in VotingIds : LimitExpires(w, x))
  BY <1>4, VotesKept DEF vars, tableVars, Fails, LimitExpires
<1> QED BY <1>1, <1>2, <1>3, <1>4, VotesKept, DeletingVotes DEF Next

----------------------------------------------------------------------------
(* The limits of options                                                    *)

\* A request of a user that will add an option unless it fails, and one that has looked
\* for the same card.
InCount(q) ==
  /\ q # None /\ q.op = "createOption" /\ q.stage \in {"roles", "card", "granted"}
  /\ ~IsStaff(q.user, q.voting)

InFetch(q) == q # None /\ q.op = "createOption" /\ q.stage = "granted"

SameOption(p, q) == p.user = q.user /\ p.voting = q.voting /\ p.card = q.card

CountsKept ==
  \A s \in Requests : InCount(requests'[s]) =>
    InCount(requests[s]) /\ SameOption(requests'[s], requests[s])

FetchesKept ==
  \A s \in Requests : InFetch(requests'[s]) =>
    InFetch(requests[s]) /\ SameOption(requests'[s], requests[s])

OptionsFewer == \A o \in OptionIds : options'[o] # None => options'[o] = options[o]

\* Who waits to hear whether the user is an editor has read the voting, and in it a limit
\* that is not higher than the highest.
LimitRead(q) == q.row \in Voting /\ q.row.votingOptionsLimit <= highest[q.voting]

RowsRead == \A r \in Requests : At(r, "createOption", "editor") => LimitRead(requests[r])

\* No row has a limit higher than the highest.
LimitsNoted ==
  \A v \in VotingIds : votings[v] # None => votings[v].votingOptionsLimit <= highest[v]

HighestGrows == \A v \in VotingIds : highest[v] <= highest'[v]

Limited == RowsRead /\ OptionsPerUser /\ OptionsWithinLimit /\ CardsPerVoting

CountedBy(u, v) == {r \in Counted(v) : requests[r].user = u}

LEMMA CountedIs ==
  ASSUME NEW v \in VotingIds
  PROVE  /\ Counted(v) = {r \in Requests : InCount(requests[r]) /\ requests[r].voting = v}
         /\ Counted(v)' = {r \in Requests : InCount(requests'[r]) /\ requests'[r].voting = v}
BY DEF Counted, InCount, At

LEMMA LookedUpIs ==
  ASSUME NEW v \in VotingIds, NEW card \in Cards
  PROVE  /\ LookedUp(v, card) = {r \in Requests :
              InFetch(requests[r]) /\ requests[r].voting = v /\ requests[r].card = card}
         /\ LookedUp(v, card)' = {r \in Requests :
              InFetch(requests'[r]) /\ requests'[r].voting = v /\ requests'[r].card = card}
BY DEF LookedUp, InFetch, At

LEMMA SomeOptions ==
  ASSUME NEW S \in SUBSET OptionIds
  PROVE  IsFiniteSet(S) /\ Cardinality(S) \in Nat
BY VotingsAssumption, FS_Subset, FS_CardinalityType

\* Options and requests that there were: none has come.
LEMMA FewerFit ==
  ASSUME NEW A \in SUBSET OptionIds, NEW B \in SUBSET Requests,
         NEW C \in SUBSET A, NEW D \in SUBSET B
  PROVE  Cardinality(C) + Cardinality(D) <= Cardinality(A) + Cardinality(B)
<1>1. Cardinality(C) <= Cardinality(A) /\ Cardinality(D) <= Cardinality(B)
  BY SomeOptions, SomeRequests, FS_Subset
<1> QED BY <1>1, SomeOptions, SomeRequests

\* An option has come for a request that has gone.
LEMMA OneFits ==
  ASSUME NEW A \in SUBSET OptionIds, NEW B \in SUBSET Requests,
         NEW o \in OptionIds, NEW r \in B,
         NEW C \in SUBSET (A \cup {o}), NEW D \in SUBSET (B \ {r})
  PROVE  Cardinality(C) + Cardinality(D) <= Cardinality(A) + Cardinality(B)
<1>1. IsFiniteSet(A \cup {o}) /\ Cardinality(A \cup {o}) <= Cardinality(A) + 1
  BY SomeOptions, FS_AddElement
<1>2. Cardinality(C) <= Cardinality(A \cup {o}) /\ C \in SUBSET OptionIds
  BY <1>1, FS_Subset
<1>3. IsFiniteSet(B \ {r}) /\ Cardinality(B \ {r}) = Cardinality(B) - 1
  BY SomeRequests, FS_RemoveElement
<1>4. Cardinality(D) <= Cardinality(B \ {r}) /\ D \in SUBSET Requests
  BY <1>3, FS_Subset
<1>5. A \cup {o} \in SUBSET OptionIds
  OBVIOUS
<1> QED BY <1>1, <1>2, <1>3, <1>4, <1>5, SomeOptions, SomeRequests

\* The properties, for the users, votings and cards whose options and requests fit as
\* they did.
LEMMA UserFits ==
  ASSUME OptionsPerUser, NEW u \in Users, NEW v \in VotingIds, ~IsStaff(u, v),
         Cardinality(OptionsBy(u, v)') + Cardinality(CountedBy(u, v)')
           <= Cardinality(OptionsBy(u, v)) + Cardinality(CountedBy(u, v))
  PROVE  Cardinality(OptionsBy(u, v)') + Cardinality(CountedBy(u, v)') <= Cardinality(Requests)
<1>1. /\ OptionsBy(u, v) \in SUBSET OptionIds /\ OptionsBy(u, v)' \in SUBSET OptionIds
      /\ CountedBy(u, v) \in SUBSET Requests /\ CountedBy(u, v)' \in SUBSET Requests
  BY DEF OptionsBy, OptionsOf, CountedBy, Counted
<1>2. Cardinality(OptionsBy(u, v)) + Cardinality(CountedBy(u, v)) <= Cardinality(Requests)
  BY DEF OptionsPerUser, CountedBy
<1> QED BY <1>1, <1>2, SomeOptions, SomeRequests

LEMMA VotingFits ==
  ASSUME Inv, Inv', OptionsWithinLimit, HighestGrows, NEW v \in VotingIds,
         Cardinality(UserOptions(v)') + Cardinality(Counted(v)')
           <= Cardinality(UserOptions(v)) + Cardinality(Counted(v))
  PROVE  Cardinality(UserOptions(v)') + Cardinality(Counted(v)')
           < highest'[v] + Cardinality(Requests)
<1>1. /\ UserOptions(v) \in SUBSET OptionIds /\ UserOptions(v)' \in SUBSET OptionIds
      /\ Counted(v) \in SUBSET Requests /\ Counted(v)' \in SUBSET Requests
  BY DEF UserOptions, OptionsOf, Counted
<1>2. Cardinality(UserOptions(v)) + Cardinality(Counted(v)) < highest[v] + Cardinality(Requests)
  BY DEF OptionsWithinLimit
<1>3. highest[v] \in Nat /\ highest'[v] \in Nat /\ highest[v] <= highest'[v]
  BY DEF Inv, TypeOK, HighestGrows
<1>4. {} \in SUBSET Requests
  OBVIOUS
<1> QED BY <1>1, <1>2, <1>3, <1>4, SomeOptions, SomeRequests

LEMMA CardFits ==
  ASSUME CardsPerVoting, NEW v \in VotingIds, NEW card \in Cards,
         Cardinality(SameCards(v, card)') + Cardinality(LookedUp(v, card)')
           <= Cardinality(SameCards(v, card)) + Cardinality(LookedUp(v, card))
  PROVE  Cardinality(SameCards(v, card)') + Cardinality(LookedUp(v, card)') <= Cardinality(Requests)
<1>1. /\ SameCards(v, card) \in SUBSET OptionIds /\ SameCards(v, card)' \in SUBSET OptionIds
      /\ LookedUp(v, card) \in SUBSET Requests /\ LookedUp(v, card)' \in SUBSET Requests
  BY DEF SameCards, OptionsOf, LookedUp
<1>2. Cardinality(SameCards(v, card)) + Cardinality(LookedUp(v, card)) <= Cardinality(Requests)
  BY DEF CardsPerVoting
<1> QED BY <1>1, <1>2, SomeOptions, SomeRequests

LEMMA FewerOptions ==
  ASSUME OptionsFewer, NEW v \in VotingIds
  PROVE  /\ \A u \in Users : OptionsBy(u, v)' \subseteq OptionsBy(u, v)
         /\ UserOptions(v)' \subseteq UserOptions(v)
         /\ \A card \in Cards : SameCards(v, card)' \subseteq SameCards(v, card)
BY DEF OptionsFewer, OptionsBy, UserOptions, SameCards, OptionsOf

LEMMA KeptCounts ==
  ASSUME Inv, Inv', OptionsPerUser, OptionsWithinLimit, OptionsFewer, CountsKept, HighestGrows
  PROVE  OptionsPerUser' /\ OptionsWithinLimit'
<1>1. ASSUME NEW v \in VotingIds, NEW u \in Users, ~IsStaff(u, v)
      PROVE  Cardinality(OptionsBy(u, v)') + Cardinality(CountedBy(u, v)') <= Cardinality(Requests)
  <2>1. OptionsBy(u, v)' \in SUBSET OptionsBy(u, v) /\ OptionsBy(u, v) \in SUBSET OptionIds
    BY FewerOptions DEF OptionsBy, OptionsOf
  <2>2. CountedBy(u, v)' \in SUBSET CountedBy(u, v) /\ CountedBy(u, v) \in SUBSET Requests
    BY CountedIs DEF CountsKept, CountedBy, SameOption
  <2> QED BY <1>1, <2>1, <2>2, FewerFit, UserFits
<1>2. ASSUME NEW v \in VotingIds
      PROVE  Cardinality(UserOptions(v)') + Cardinality(Counted(v)')
               < highest'[v] + Cardinality(Requests)
  <2>1. UserOptions(v)' \in SUBSET UserOptions(v) /\ UserOptions(v) \in SUBSET OptionIds
    BY FewerOptions DEF UserOptions, OptionsOf
  <2>2. Counted(v)' \in SUBSET Counted(v) /\ Counted(v) \in SUBSET Requests
    BY CountedIs DEF CountsKept, SameOption
  <2> QED BY <2>1, <2>2, FewerFit, VotingFits
<1>3. OptionsPerUser'
  BY <1>1 DEF OptionsPerUser, CountedBy, IsStaff, IsBroadcaster
<1>4. OptionsWithinLimit'
  BY <1>2 DEF OptionsWithinLimit
<1> QED BY <1>3, <1>4

LEMMA KeptFetches ==
  ASSUME CardsPerVoting, OptionsFewer, FetchesKept
  PROVE  CardsPerVoting'
<1>1. ASSUME NEW v \in VotingIds, NEW card \in Cards
      PROVE  Cardinality(SameCards(v, card)') + Cardinality(LookedUp(v, card)')
               <= Cardinality(Requests)
  <2>1. /\ SameCards(v, card)' \in SUBSET SameCards(v, card)
        /\ SameCards(v, card) \in SUBSET OptionIds
    BY FewerOptions DEF SameCards, OptionsOf
  <2>2. /\ LookedUp(v, card)' \in SUBSET LookedUp(v, card)
        /\ LookedUp(v, card) \in SUBSET Requests
    BY LookedUpIs DEF FetchesKept, SameOption
  <2> QED BY <2>1, <2>2, FewerFit, CardFits
<1> QED BY <1>1 DEF CardsPerVoting

\* A request that is not about to add an option of a user: all counts stay, or fall.
NotAdding(q) ==
  \/ q = None
  \/ q.op # "createOption"
  \/ q.stage = "editor" /\ q.voting \in VotingIds /\ LimitRead(q)
  \/ q.stage = "card" /\ IsStaff(q.user, q.voting)

LEMMA StillRead ==
  ASSUME Inv, Inv', HighestGrows, NEW q, q.voting \in VotingIds, LimitRead(q)
  PROVE  LimitRead(q)'
<1>1. q.row.votingOptionsLimit \in Nat
  BY VotingsAssumption DEF LimitRead, Voting
<1>2. /\ highest[q.voting] \in Nat /\ highest'[q.voting] \in Nat
      /\ highest[q.voting] <= highest'[q.voting]
  BY DEF Inv, TypeOK, HighestGrows
<1> QED BY <1>1, <1>2 DEF LimitRead

LEMMA RowsStayRead ==
  ASSUME Inv, Inv', HighestGrows, RowsRead,
         \A r \in Requests : At(r, "createOption", "editor")' => requests'[r] = requests[r]
  PROVE  RowsRead'
<1> SUFFICES ASSUME NEW r \in Requests, At(r, "createOption", "editor")'
             PROVE  LimitRead(requests[r])'
  BY DEF RowsRead
<1> DEFINE q == requests[r]
<1>1. requests'[r] = q /\ At(r, "createOption", "editor")
  BY DEF At
<1>2. LimitRead(q) /\ q.voting \in VotingIds
  BY <1>1 DEF RowsRead, At, Inv, TypeOK, Request
<1>3. PICK p : p = q
  OBVIOUS
<1>4. LimitRead(p)'
  BY <1>2, <1>3, StillRead
<1> QED BY <1>1, <1>3, <1>4 DEF LimitRead

LEMMA NotAddingKeeps ==
  ASSUME Inv, Inv', HighestGrows, RowsRead, NEW r \in Requests, NEW q, NotAdding(q),
         requests' = [requests EXCEPT ![r] = q]
  PROVE  CountsKept /\ FetchesKept /\ RowsRead'
<1>1. requests'[r] = q /\ \A s \in Requests : s # r => requests'[s] = requests[s]
  BY DEF Inv, TypeOK
<1>2. ~InCount(q) /\ ~InFetch(q)
  BY DEF NotAdding, InCount, InFetch
<1>3. CountsKept /\ FetchesKept
  BY <1>1, <1>2 DEF CountsKept, FetchesKept, SameOption
<1>4. CASE At(r, "createOption", "editor")'
  <2>1. q.voting \in VotingIds /\ LimitRead(q)
    BY <1>1, <1>4 DEF At, NotAdding
  <2>2. LimitRead(q)'
    BY <2>1, StillRead
  <2>3. ASSUME NEW s \in Requests, s # r, At(s, "createOption", "editor")'
        PROVE  LimitRead(requests[s])'
    <3>1. requests'[s] = requests[s] /\ LimitRead(requests[s]) /\ requests[s].voting \in VotingIds
      BY <1>1, <2>3 DEF RowsRead, At, Inv, TypeOK, Request
    <3>2. PICK p : p = requests[s]
      OBVIOUS
    <3>3. LimitRead(p)'
      BY <3>1, <3>2, StillRead
    <3> QED BY <3>1, <3>2, <3>3 DEF LimitRead
  <2>4. LimitRead(requests[r])'
    BY <1>1, <2>2 DEF LimitRead
  <2> QED BY <1>3, <2>3, <2>4 DEF RowsRead
<1>5. CASE ~At(r, "createOption", "editor")'
  <2>1. RowsRead'
    BY <1>1, <1>5, RowsStayRead
  <2> QED BY <1>3, <2>1
<1> QED BY <1>4, <1>5

LEMMA QuietLimits ==
  ASSUME Inv, Inv', HighestGrows, Limited, OptionsFewer, CountsKept, FetchesKept, RowsRead'
  PROVE  Limited'
BY KeptCounts, KeptFetches DEF Limited

LEMMA EndedLimits ==
  ASSUME Inv, Inv', HighestGrows, Limited, NEW r \in Requests,
         requests' = [requests EXCEPT ![r] = None], OptionsFewer
  PROVE  Limited'
BY NotAddingKeeps, QuietLimits DEF NotAdding, Limited

\* A request that moves on is about what it was about.
LEMMA MovedRequest ==
  ASSUME Inv, NEW r \in Requests, requests[r] # None, NEW stage,
         \/ MovesTo(r, stage)
         \/ requests' = [requests EXCEPT ![r].stage = stage, ![r].row = None]
  PROVE  /\ requests'[r].op = requests[r].op /\ requests'[r].stage = stage
         /\ SameOption(requests'[r], requests[r])
         /\ \A s \in Requests : s # r => requests'[s] = requests[s]
         /\ \E q : q = requests'[r] /\ requests' = [requests EXCEPT ![r] = q]
<1>1. requests[r] \in Request
  BY DEF Inv, TypeOK
<1> DEFINE q == [requests[r] EXCEPT !.stage = stage]
           p == [requests[r] EXCEPT !.stage = stage, !.row = None]
<1>2. requests' = [requests EXCEPT ![r] = q] \/ requests' = [requests EXCEPT ![r] = p]
  BY DEF MovesTo, Inv, TypeOK
<1>3. /\ q.op = requests[r].op /\ q.stage = stage /\ SameOption(q, requests[r])
      /\ p.op = requests[r].op /\ p.stage = stage /\ SameOption(p, requests[r])
  BY <1>1 DEF Request, SameOption
<1> HIDE DEF q, p
<1> QED BY <1>2, <1>3 DEF Inv, TypeOK

LEMMA MovedOtherLimits ==
  ASSUME Inv, Inv', HighestGrows, Limited, OptionsFewer, NEW r \in Requests, requests[r] # None,
         requests[r].op # "createOption", NEW stage,
         \/ MovesTo(r, stage)
         \/ requests' = [requests EXCEPT ![r].stage = stage, ![r].row = None]
  PROVE  Limited'
<1>1. PICK q : q = requests'[r] /\ requests' = [requests EXCEPT ![r] = q]
  BY MovedRequest
<1>2. NotAdding(q)
  BY <1>1, MovedRequest DEF NotAdding
<1> QED BY <1>1, <1>2, NotAddingKeeps, QuietLimits DEF Limited

LEMMA NewRequestLimits ==
  ASSUME Inv, Inv', HighestGrows, Limited, NEW r \in Requests, NEW q, NotAdding(q), Begin(r, q),
         UNCHANGED options
  PROVE  Limited'
BY NotAddingKeeps, QuietLimits DEF Begin, Limited, OptionsFewer

LEMMA VotingStepLimits ==
  ASSUME Inv, Inv', HighestGrows, Limited, NEW r \in Requests, VotingStep(r)
  PROVE  Limited'
<1>1. ASSUME NEW u, NEW v, NEW data, CreateVotingBegins(r, u, v, data) PROVE Limited'
  <2> DEFINE q == [NewRequest("createVoting", u, v, AccessStage(u, v)) EXCEPT !.body = data]
  <2>1. NotAdding(q)
    BY DEF NewRequest, NotAdding
  <2>2. Begin(r, q) /\ UNCHANGED options
    BY <1>1 DEF CreateVotingBegins
  <2> HIDE DEF q
  <2> QED BY <2>1, <2>2, NewRequestLimits
<1>2. ASSUME NEW u, NEW v, NEW data, UpdateVotingBegins(r, u, v, data) PROVE Limited'
  <2> DEFINE q == [NewRequest("updateVoting", u, v, AccessStage(u, v))
                     EXCEPT !.body = data, !.row = votings[v]]
  <2>1. NotAdding(q)
    BY DEF NewRequest, NotAdding
  <2>2. Begin(r, q) /\ UNCHANGED options
    BY <1>2 DEF UpdateVotingBegins, tableVars
  <2> HIDE DEF q
  <2> QED BY <2>1, <2>2, NewRequestLimits
<1>3. ASSUME NEW u, NEW v, DeleteVotingBegins(r, u, v) PROVE Limited'
  <2> DEFINE q == NewRequest("deleteVoting", u, v, AccessStage(u, v))
  <2>1. NotAdding(q)
    BY DEF NewRequest, NotAdding
  <2>2. Begin(r, q) /\ UNCHANGED options
    BY <1>3 DEF DeleteVotingBegins, tableVars
  <2> HIDE DEF q
  <2> QED BY <2>1, <2>2, NewRequestLimits
<1>4. CASE VotingEditorAnswered(r)
  <2>1. /\ requests[r] # None /\ requests[r].op # "createOption"
        /\ MovesTo(r, "granted") \/ Ends(r)
        /\ UNCHANGED options
    BY <1>4 DEF VotingEditorAnswered, At, tableVars
  <2>2. OptionsFewer
    BY <2>1 DEF OptionsFewer
  <2> QED BY <2>1, <2>2, MovedOtherLimits, EndedLimits DEF Ends
<1>5. CASE InsertsVoting(r) \/ SavesVoting(r) \/ DeletesVoting(r)
  <2>1. OptionsFewer
    BY <1>5 DEF InsertsVoting, SavesVoting, DeletesVoting, DeletesOptions, OptionsFewer
  <2> QED BY <1>5, <2>1, EndedLimits DEF InsertsVoting, SavesVoting, DeletesVoting, Ends
<1> QED BY <1>1, <1>2, <1>3, <1>4, <1>5 DEF VotingStep

LEMMA VoteStepLimits ==
  ASSUME Inv, Inv', HighestGrows, Limited, NEW r \in Requests, VoteStep(r)
  PROVE  Limited'
<1>1. UNCHANGED options
  BY DEF VoteStep, CreateVoteBegins, DeleteVoteBegins, CreateVoteRolesAnswered, SelectsVote,
         WritesVote, RemovesVote, tableVars
<1>2. OptionsFewer
  BY <1>1 DEF OptionsFewer
<1>3. ASSUME NEW u, NEW o, CreateVoteBegins(r, u, o) PROVE Limited'
  <2> DEFINE v == options[o].voting
             q == IF "viewer" \in votings[v].permissions.canVote
                  THEN [NewRequest("createVote", u, v, "granted") EXCEPT !.option = o]
                  ELSE [NewRequest("createVote", u, v, "roles")
                          EXCEPT !.option = o, !.row = votings[v]]
  <2>1. NotAdding(q)
    BY DEF NewRequest, NotAdding
  <2>2. Begin(r, q)
    BY <1>3 DEF CreateVoteBegins
  <2> HIDE DEF q
  <2> QED BY <1>1, <2>1, <2>2, NewRequestLimits
<1>4. ASSUME NEW u, NEW o, DeleteVoteBegins(r, u, o) PROVE Limited'
  <2> DEFINE q == [NewRequest("deleteVote", u, options[o].voting, "granted") EXCEPT !.option = o]
  <2>1. NotAdding(q)
    BY DEF NewRequest, NotAdding
  <2>2. Begin(r, q)
    BY <1>4 DEF DeleteVoteBegins
  <2> HIDE DEF q
  <2> QED BY <1>1, <2>1, <2>2, NewRequestLimits
<1>5. CASE CreateVoteRolesAnswered(r) \/ SelectsVote(r)
  <2>1. /\ requests[r] # None /\ requests[r].op # "createOption"
        /\ \/ Ends(r) \/ MovesTo(r, "insert") \/ MovesTo(r, "update")
           \/ requests' = [requests EXCEPT ![r].stage = "granted", ![r].row = None]
    BY <1>5 DEF CreateVoteRolesAnswered, SelectsVote, Granted, At
  <2> QED BY <1>2, <2>1, MovedOtherLimits, EndedLimits DEF Ends
<1>6. CASE WritesVote(r) \/ RemovesVote(r)
  BY <1>2, <1>6, EndedLimits DEF WritesVote, RemovesVote, Ends
<1> QED BY <1>3, <1>4, <1>5, <1>6 DEF VoteStep

\* The user has no option in the voting, and the voting is below its limit: however
\* many requests are counted now, they are requests.
LEMMA CountingStep ==
  ASSUME Inv, Inv', HighestGrows, Limited, NEW r \in Requests,
         At(r, "createOption", "editor"), UNCHANGED options,
         WithinLimits(requests[r].user, requests[r].voting, requests[r].row, requests[r].card),
         NEW stage \in {"card", "roles"},
         \/ MovesTo(r, stage)
         \/ requests' = [requests EXCEPT ![r].stage = stage, ![r].row = None]
  PROVE  Limited'
<1> DEFINE u == requests[r].user
           v == requests[r].voting
           limit == requests[r].row.votingOptionsLimit
<1>1. /\ requests[r] # None /\ u \in Users /\ v \in VotingIds /\ limit \in Limits
      /\ OptionsBy(u, v) = {} /\ Cardinality(OptionsOf(v)) < limit /\ limit <= highest[v]
  BY DEF At, Inv, TypeOK, Request, Limited, RowsRead, Voting, WithinLimits, LimitRead
<1>2. /\ SameOption(requests'[r], requests[r]) /\ requests'[r].stage = stage
      /\ \A s \in Requests : s # r => requests'[s] = requests[s]
  BY <1>1, MovedRequest
<1>3. OptionsFewer
  BY DEF OptionsFewer
<1>4. FetchesKept
  BY <1>2 DEF FetchesKept, InFetch, SameOption
<1>5. RowsRead'
  BY <1>2, RowsStayRead DEF Limited, At
<1>6. CardsPerVoting'
  BY <1>3, <1>4, KeptFetches DEF Limited
<1>7. /\ v = requests[r].voting /\ u = requests[r].user
  OBVIOUS
<1> HIDE DEF u, v, limit
<1>8. ASSUME NEW x \in VotingIds, NEW w \in Users, ~IsStaff(w, x)
      PROVE  Cardinality(OptionsBy(w, x)') + Cardinality(CountedBy(w, x)') <= Cardinality(Requests)
  <2>1. CASE x = v /\ w = u
    <3>1. OptionsBy(w, x)' = {}
      BY <1>1, <1>3, <2>1, FewerOptions
    <3>2. CountedBy(w, x)' \in SUBSET Requests
      BY DEF CountedBy, Counted
    <3>3. Cardinality(OptionsBy(w, x)') = 0
      BY <3>1, FS_EmptySet
    <3> QED BY <3>2, <3>3, SomeRequests
  <2>2. CASE ~(x = v /\ w = u)
    <3>1. OptionsBy(w, x)' \in SUBSET OptionsBy(w, x) /\ OptionsBy(w, x) \in SUBSET OptionIds
      BY <1>3, FewerOptions DEF OptionsBy, OptionsOf
    <3>2. CountedBy(w, x)' \in SUBSET CountedBy(w, x) /\ CountedBy(w, x) \in SUBSET Requests
      BY <1>2, <1>7, <2>2, CountedIs DEF CountedBy, SameOption
    <3> QED BY <1>8, <3>1, <3>2, FewerFit, UserFits DEF Limited
  <2> QED BY <2>1, <2>2
<1>9. ASSUME NEW x \in VotingIds
      PROVE  Cardinality(UserOptions(x)') + Cardinality(Counted(x)')
               < highest'[x] + Cardinality(Requests)
  <2>1. UserOptions(x)' \in SUBSET UserOptions(x) /\ UserOptions(x) \in SUBSET OptionIds
    BY <1>3, FewerOptions DEF UserOptions, OptionsOf
  <2>2. CASE x = v
    <3>1. UserOptions(x)' \in SUBSET OptionsOf(v) /\ OptionsOf(v) \in SUBSET OptionIds
      BY <2>1, <2>2 DEF UserOptions, OptionsOf
    <3>2. Cardinality(UserOptions(x)') <= Cardinality(OptionsOf(v))
      BY <3>1, SomeOptions, FS_Subset
    <3>3. Counted(x)' \in SUBSET Requests
      BY DEF Counted
    <3>4. limit \in Nat /\ highest[v] \in Nat /\ highest'[v] \in Nat /\ highest[v] <= highest'[v]
      BY <1>1, VotingsAssumption DEF Inv, TypeOK, HighestGrows
    <3>5. /\ Cardinality(UserOptions(x)') \in Nat /\ Cardinality(OptionsOf(v)) \in Nat
          /\ Cardinality(Counted(x)') \in Nat /\ Cardinality(Requests) \in Nat
          /\ Cardinality(Counted(x)') <= Cardinality(Requests)
      BY <2>1, <3>1, <3>3, SomeOptions, SomeRequests
    <3>6. Cardinality(UserOptions(x)') + Cardinality(Counted(x)') < limit + Cardinality(Requests)
      BY <1>1, <3>2, <3>4, <3>5
    <3> QED BY <1>1, <2>2, <3>4, <3>5, <3>6
  <2>3. CASE x # v
    <3>1. Counted(x)' \in SUBSET Counted(x) /\ Counted(x) \in SUBSET Requests
      BY <1>2, <1>7, <2>3, CountedIs DEF SameOption
    <3> QED BY <2>1, <3>1, FewerFit, VotingFits DEF Limited
  <2> QED BY <2>2, <2>3
<1>10. OptionsPerUser'
  BY <1>8 DEF OptionsPerUser, CountedBy, IsStaff, IsBroadcaster
<1>11. OptionsWithinLimit'
  BY <1>9 DEF OptionsWithinLimit
<1> QED BY <1>5, <1>6, <1>10, <1>11 DEF Limited

\* No option of the voting has the card: however many requests have looked, they are
\* requests.
LEMMA FetchingStep ==
  ASSUME Inv, Inv', HighestGrows, Limited, NEW r \in Requests,
         At(r, "createOption", "card"), UNCHANGED options,
         ~\E o \in OptionsOf(requests[r].voting) : SameCard(requests[r].card, options[o].card),
         MovesTo(r, "granted")
  PROVE  Limited'
<1> DEFINE v == requests[r].voting
           c == requests[r].card
<1>1. requests[r] # None /\ v \in VotingIds
  BY DEF At, Inv, TypeOK, Request
<1>2. /\ SameOption(requests'[r], requests[r]) /\ requests'[r].stage = "granted"
      /\ requests'[r].op = "createOption"
      /\ \A s \in Requests : s # r => requests'[s] = requests[s]
  BY <1>1, MovedRequest DEF At
<1>3. OptionsFewer
  BY DEF OptionsFewer
<1>4. CountsKept
  BY <1>2 DEF CountsKept, InCount, SameOption, At
<1>5. RowsRead'
  BY <1>2, RowsStayRead DEF Limited, At
<1>6. OptionsPerUser' /\ OptionsWithinLimit'
  BY <1>3, <1>4, KeptCounts DEF Limited
<1>7. SameCards(v, c) = {}
  BY DEF SameCards, SameCard
<1>8. v = requests[r].voting /\ c = requests[r].card
  OBVIOUS
<1> HIDE DEF v, c
<1>9. ASSUME NEW x \in VotingIds, NEW card \in Cards
      PROVE  Cardinality(SameCards(x, card)') + Cardinality(LookedUp(x, card)')
               <= Cardinality(Requests)
  <2>1. /\ SameCards(x, card)' \in SUBSET SameCards(x, card)
        /\ SameCards(x, card) \in SUBSET OptionIds
    BY <1>3, FewerOptions DEF SameCards, OptionsOf
  <2>2. CASE x = v /\ card = c
    <3>1. Cardinality(SameCards(x, card)') = 0
      BY <1>7, <2>1, <2>2, FS_EmptySet
    <3>2. LookedUp(x, card)' \in SUBSET Requests
      BY DEF LookedUp
    <3> QED BY <3>1, <3>2, SomeRequests
  <2>3. CASE ~(x = v /\ card = c)
    <3>1. /\ LookedUp(x, card)' \in SUBSET LookedUp(x, card)
          /\ LookedUp(x, card) \in SUBSET Requests
      BY <1>2, <1>8, <2>3, LookedUpIs DEF SameOption
    <3> QED BY <2>1, <3>1, FewerFit, CardFits DEF Limited
  <2> QED BY <2>2, <2>3
<1>10. CardsPerVoting'
  BY <1>9 DEF CardsPerVoting
<1> QED BY <1>5, <1>6, <1>10 DEF Limited

\* An option has come, and its request is no more.
LEMMA InsertingStep ==
  ASSUME Inv, Inv', HighestGrows, Limited, NEW r \in Requests,
         At(r, "createOption", "granted"), NEW o \in OptionIds,
         options' = [options EXCEPT ![o] = [voting |-> requests[r].voting,
                                            author |-> requests[r].user,
                                            card |-> requests[r].card]],
         requests' = [requests EXCEPT ![r] = None]
  PROVE  Limited'
<1> DEFINE v == requests[r].voting
           u == requests[r].user
           c == requests[r].card
           row == [voting |-> v, author |-> u, card |-> c]
<1>1. NotAdding(None)
  BY DEF NotAdding
<1>2. CountsKept /\ FetchesKept /\ RowsRead'
  BY <1>1, NotAddingKeeps DEF Limited
<1>3. requests'[r] = None /\ \A s \in Requests : s # r => requests'[s] = requests[s]
  BY DEF Inv, TypeOK
<1>4. row.voting = v /\ row.author = u /\ row.card = c
  OBVIOUS
<1>5. /\ v = requests[r].voting /\ u = requests[r].user /\ c = requests[r].card
      /\ options' = [options EXCEPT ![o] = row]
  OBVIOUS
<1> HIDE DEF v, u, c, row
<1>6. options'[o] = row /\ \A p \in OptionIds : p # o => options'[p] = options[p]
  BY <1>5 DEF Inv, TypeOK
<1>7. InFetch(requests[r]) /\ (~IsStaff(u, v) => InCount(requests[r]))
  BY <1>5 DEF At, InFetch, InCount
<1>8. ~InCount(requests'[r]) /\ ~InFetch(requests'[r])
  BY <1>3 DEF InCount, InFetch
<1>9. ASSUME NEW x \in VotingIds, NEW w \in Users, ~IsStaff(w, x)
      PROVE  Cardinality(OptionsBy(w, x)') + Cardinality(CountedBy(w, x)') <= Cardinality(Requests)
  <2>1. CountedBy(w, x)' \in SUBSET CountedBy(w, x) /\ CountedBy(w, x) \in SUBSET Requests
    BY <1>2, CountedIs DEF CountsKept, CountedBy, SameOption
  <2>2. OptionsBy(w, x) \in SUBSET OptionIds
    BY DEF OptionsBy, OptionsOf
  <2>3. CASE x = v /\ w = u
    <3>1. OptionsBy(w, x)' \in SUBSET (OptionsBy(w, x) \cup {o})
      BY <1>6 DEF OptionsBy, OptionsOf
    <3>2. r \in CountedBy(w, x) /\ r \notin CountedBy(w, x)'
      BY <1>5, <1>7, <1>8, <1>9, <2>3, CountedIs DEF CountedBy
    <3>3. CountedBy(w, x)' \in SUBSET (CountedBy(w, x) \ {r})
      BY <2>1, <3>2
    <3> QED BY <1>9, <2>1, <2>2, <3>1, <3>2, <3>3, OneFits, UserFits DEF Limited
  <2>4. CASE ~(x = v /\ w = u)
    <3>1. OptionsBy(w, x)' \in SUBSET OptionsBy(w, x)
      BY <1>4, <1>6, <2>4 DEF OptionsBy, OptionsOf
    <3> QED BY <1>9, <2>1, <2>2, <3>1, FewerFit, UserFits DEF Limited
  <2> QED BY <2>3, <2>4
<1>10. ASSUME NEW x \in VotingIds
       PROVE  Cardinality(UserOptions(x)') + Cardinality(Counted(x)')
                < highest'[x] + Cardinality(Requests)
  <2>1. Counted(x)' \in SUBSET Counted(x) /\ Counted(x) \in SUBSET Requests
    BY <1>2, CountedIs DEF CountsKept, SameOption
  <2>2. UserOptions(x) \in SUBSET OptionIds
    BY DEF UserOptions, OptionsOf
  <2>3. CASE x = v /\ ~IsStaff(u, v)
    <3>1. UserOptions(x)' \in SUBSET (UserOptions(x) \cup {o})
      BY <1>6 DEF UserOptions, OptionsOf, IsStaff, IsBroadcaster
    <3>2. r \in Counted(x) /\ r \notin Counted(x)'
      BY <1>5, <1>7, <1>8, <2>3, CountedIs
    <3>3. Counted(x)' \in SUBSET (Counted(x) \ {r})
      BY <2>1, <3>2
    <3> QED BY <2>1, <2>2, <3>1, <3>2, <3>3, OneFits, VotingFits DEF Limited
  <2>4. CASE ~(x = v /\ ~IsStaff(u, v))
    <3>1. UserOptions(x)' \in SUBSET UserOptions(x)
      BY <1>4, <1>6, <2>4 DEF UserOptions, OptionsOf, IsStaff, IsBroadcaster
    <3> QED BY <2>1, <2>2, <3>1, FewerFit, VotingFits DEF Limited
  <2> QED BY <2>3, <2>4
<1>11. ASSUME NEW x \in VotingIds, NEW card \in Cards
       PROVE  Cardinality(SameCards(x, card)') + Cardinality(LookedUp(x, card)')
                <= Cardinality(Requests)
  <2>1. LookedUp(x, card)' \in SUBSET LookedUp(x, card) /\ LookedUp(x, card) \in SUBSET Requests
    BY <1>2, LookedUpIs DEF FetchesKept, SameOption
  <2>2. SameCards(x, card) \in SUBSET OptionIds
    BY DEF SameCards, OptionsOf
  <2>3. CASE x = v /\ card = c
    <3>1. SameCards(x, card)' \in SUBSET (SameCards(x, card) \cup {o})
      BY <1>6 DEF SameCards, OptionsOf
    <3>2. r \in LookedUp(x, card) /\ r \notin LookedUp(x, card)'
      BY <1>5, <1>7, <1>8, <2>3, LookedUpIs
    <3>3. LookedUp(x, card)' \in SUBSET (LookedUp(x, card) \ {r})
      BY <2>1, <3>2
    <3> QED BY <2>1, <2>2, <3>1, <3>2, <3>3, OneFits, CardFits DEF Limited
  <2>4. CASE ~(x = v /\ card = c)
    <3>1. SameCards(x, card)' \in SUBSET SameCards(x, card)
      BY <1>4, <1>6, <2>4 DEF SameCards, OptionsOf
    <3> QED BY <2>1, <2>2, <3>1, FewerFit, CardFits DEF Limited
  <2> QED BY <2>3, <2>4
<1>12. OptionsPerUser'
  BY <1>9 DEF OptionsPerUser, CountedBy, IsStaff, IsBroadcaster
<1>13. OptionsWithinLimit' /\ CardsPerVoting'
  BY <1>10, <1>11 DEF OptionsWithinLimit, CardsPerVoting
<1> QED BY <1>2, <1>12, <1>13 DEF Limited

LEMMA OptionStepLimits ==
  ASSUME Inv, Inv', HighestGrows, LimitsNoted, Limited, NEW r \in Requests, OptionStep(r)
  PROVE  Limited'
<1>1. ASSUME NEW u, NEW v \in VotingIds, NEW card, CreateOptionBegins(r, u, v, card) PROVE Limited'
  <2> DEFINE q == IF IsBroadcaster(u, v)
                  THEN [NewRequest("createOption", u, v, "card") EXCEPT !.card = card]
                  ELSE [NewRequest("createOption", u, v, "editor")
                          EXCEPT !.card = card, !.row = votings[v]]
  <2>1. votings[v] \in Voting /\ votings[v].votingOptionsLimit <= highest[v]
    BY <1>1 DEF CreateOptionBegins, Inv, TypeOK, LimitsNoted
  <2>2. NotAdding(q)
    BY <2>1 DEF NewRequest, NotAdding, IsStaff, LimitRead
  <2>3. Begin(r, q) /\ UNCHANGED options
    BY <1>1 DEF CreateOptionBegins, tableVars
  <2> HIDE DEF q
  <2> QED BY <2>2, <2>3, NewRequestLimits
<1>2. ASSUME NEW u, NEW o, DeleteOptionBegins(r, u, o) PROVE Limited'
  <2> DEFINE q == LET v == options[o].voting
                  IN IF IsBroadcaster(u, v)
                     THEN [NewRequest("deleteOption", u, v, "granted") EXCEPT !.option = o]
                     ELSE [NewRequest("deleteOption", u, v, "editor")
                             EXCEPT !.option = o, !.row = votings[v]]
  <2>1. NotAdding(q)
    BY DEF NewRequest, NotAdding
  <2>2. Begin(r, q) /\ UNCHANGED options
    BY <1>2 DEF DeleteOptionBegins, tableVars
  <2> HIDE DEF q
  <2> QED BY <2>1, <2>2, NewRequestLimits
<1>3. CASE CreateOptionEditorAnswered(r)
  <2> DEFINE q == requests[r]
  <2>1. At(r, "createOption", "editor") /\ UNCHANGED options /\ OptionsFewer
    BY <1>3 DEF CreateOptionEditorAnswered, tableVars, OptionsFewer
  <2>2. CASE IsEditor(r)
    <3>1. requests' = [requests EXCEPT ![r].stage = "card", ![r].row = None]
      BY <1>3, <2>2 DEF CreateOptionEditorAnswered, ToCard
    <3>2. PICK p : p = requests'[r] /\ requests' = [requests EXCEPT ![r] = p]
      BY <2>1, <3>1, MovedRequest DEF At
    <3>3. p.stage = "card" /\ SameOption(p, q)
      BY <2>1, <3>1, <3>2, MovedRequest DEF At
    <3>4. NotAdding(p)
      BY <2>2, <3>3 DEF NotAdding, IsEditor, IsStaff, SameOption
    <3> QED BY <2>1, <3>2, <3>4, NotAddingKeeps, QuietLimits DEF Limited
  <2>3. CASE ~IsEditor(r) /\ ~WithinLimits(q.user, q.voting, q.row, q.card)
    BY <1>3, <2>1, <2>3, EndedLimits DEF CreateOptionEditorAnswered, Ends
  <2>4. CASE ~IsEditor(r) /\ WithinLimits(q.user, q.voting, q.row, q.card)
    <3>1. \/ requests' = [requests EXCEPT ![r].stage = "card", ![r].row = None]
          \/ MovesTo(r, "roles")
      BY <1>3, <2>4 DEF CreateOptionEditorAnswered, ToCard
    <3> QED BY <2>1, <2>4, <3>1, CountingStep
  <2> QED BY <2>2, <2>3, <2>4
<1>4. CASE CreateOptionRolesAnswered(r)
  <2>1. At(r, "createOption", "roles") /\ OptionsFewer
    BY <1>4 DEF CreateOptionRolesAnswered, tableVars, OptionsFewer
  <2>2. CASE requests' = [requests EXCEPT ![r].stage = "card", ![r].row = None]
    <3>1. /\ SameOption(requests'[r], requests[r]) /\ requests'[r].stage = "card"
          /\ \A s \in Requests : s # r => requests'[s] = requests[s]
      BY <2>1, <2>2, MovedRequest DEF At
    <3>2. CountsKept
      BY <2>1, <3>1 DEF CountsKept, InCount, SameOption, At
    <3>3. FetchesKept
      BY <3>1 DEF FetchesKept, InFetch, SameOption
    <3>4. RowsRead'
      BY <3>1, RowsStayRead DEF Limited, At
    <3> QED BY <2>1, <3>2, <3>3, <3>4, QuietLimits
  <2>3. CASE Ends(r)
    BY <2>1, <2>3, EndedLimits DEF Ends
  <2> QED BY <1>4, <2>2, <2>3 DEF CreateOptionRolesAnswered, ToCard
<1>5. CASE GetsCard(r)
  <2>1. At(r, "createOption", "card") /\ UNCHANGED options /\ OptionsFewer
    BY <1>5 DEF GetsCard, tableVars, OptionsFewer
  <2>2. CASE \E o \in OptionsOf(requests[r].voting) : SameCard(requests[r].card, options[o].card)
    BY <1>5, <2>1, <2>2, EndedLimits DEF GetsCard, Ends
  <2>3. CASE ~\E o \in OptionsOf(requests[r].voting) : SameCard(requests[r].card, options[o].card)
    BY <1>5, <2>1, <2>3, FetchingStep DEF GetsCard
  <2> QED BY <2>2, <2>3
<1>6. CASE InsertsOption(r)
  <2>1. At(r, "createOption", "granted") /\ requests' = [requests EXCEPT ![r] = None]
    BY <1>6 DEF InsertsOption, Ends
  <2>2. CASE UNCHANGED options
    BY <2>1, <2>2, EndedLimits DEF OptionsFewer
  <2>3. CASE \E o \in OptionIds :
               options' = [options EXCEPT ![o] = [voting |-> requests[r].voting,
                                                  author |-> requests[r].user,
                                                  card |-> requests[r].card]]
    BY <2>1, <2>3, InsertingStep
  <2> QED BY <1>6, <2>2, <2>3 DEF InsertsOption
<1>9. CASE DeleteOptionCounts(r)
  <2>1. /\ requests[r] \in Request /\ requests[r].op = "deleteOption" /\ OptionsFewer
        /\ \E stage : requests' = [requests EXCEPT ![r].stage = stage]
    BY <1>9 DEF DeleteOptionCounts, At, tableVars, OptionsFewer, Inv, TypeOK
  <2>2. PICK stage : requests' = [requests EXCEPT ![r].stage = stage]
    BY <2>1
  <2> DEFINE q == [requests[r] EXCEPT !.stage = stage]
  <2>3. requests' = [requests EXCEPT ![r] = q]
    BY <2>2 DEF Inv, TypeOK
  <2>4. NotAdding(q)
    BY <2>1 DEF NotAdding, Request
  <2> HIDE DEF q
  <2> QED BY <2>1, <2>3, <2>4, NotAddingKeeps, QuietLimits DEF Limited
<1>7. CASE DeleteOptionAnswered(r)
  <2>1. /\ requests[r] # None /\ requests[r].op # "createOption" /\ OptionsFewer
        /\ \/ Ends(r)
           \/ requests' = [requests EXCEPT ![r].stage = "granted", ![r].row = None]
    BY <1>7 DEF DeleteOptionAnswered, Granted, At, tableVars, OptionsFewer
  <2> QED BY <2>1, MovedOtherLimits, EndedLimits DEF Ends
<1>8. CASE DeletesOption(r)
  <2>1. OptionsFewer
    BY <1>8 DEF DeletesOption, DeletesOptions, OptionsFewer
  <2> QED BY <1>8, <2>1, EndedLimits DEF DeletesOption, Ends
<1> QED BY <1>1, <1>2, <1>3, <1>4, <1>5, <1>6, <1>7, <1>8, <1>9 DEF OptionStep

LEMMA LimitedInit == Init => Limited
<1> SUFFICES ASSUME Init PROVE Limited
  OBVIOUS
<1>1. \A r \in Requests : requests[r] = None
  BY DEF Init
<1>2. \A o \in OptionIds : options[o] = None
  BY DEF Init
<1>3. Cardinality({}) = 0
  BY FS_EmptySet
<1>4. RowsRead
  BY <1>1 DEF RowsRead, At
<1>5. \A v \in VotingIds :
        /\ Counted(v) = {} /\ UserOptions(v) = {}
        /\ \A u \in Users : OptionsBy(u, v) = {}
        /\ \A card \in Cards : SameCards(v, card) = {} /\ LookedUp(v, card) = {}
  BY <1>1, <1>2 DEF Counted, UserOptions, OptionsBy, SameCards, LookedUp, OptionsOf, At
<1>6. Cardinality(Requests) \in Nat
  BY SomeRequests
<1>7. Cardinality(Requests) # 0 /\ \A v \in VotingIds : highest[v] = 0
  BY VotingsAssumption, FS_EmptySet DEF Init
<1>8. OptionsPerUser
  <2>1. \A v \in VotingIds, u \in Users : {r \in Counted(v) : requests[r].user = u} = {}
    BY <1>5
  <2> QED BY <1>3, <1>5, <1>6, <2>1 DEF OptionsPerUser
<1>9. OptionsWithinLimit
  BY <1>3, <1>5, <1>6, <1>7 DEF OptionsWithinLimit
<1>10. CardsPerVoting
  BY <1>3, <1>5, <1>6 DEF CardsPerVoting
<1> QED BY <1>4, <1>8, <1>9, <1>10 DEF Limited

LEMMA NotedInit == Init => LimitsNoted
BY DEF Init, LimitsNoted, At

\* Rows are saved with a note of their limit.
LEMMA RowsNoted ==
  ASSUME Inv, LimitsNoted, NEW r \in Requests, VotingStep(r)
  PROVE  /\ HighestGrows
         /\ \A v \in VotingIds :
              votings'[v] # None => votings'[v].votingOptionsLimit <= highest'[v]
<1>1. highest \in [VotingIds -> Nat] /\ votings \in [VotingIds -> Voting \cup {None}]
  BY DEF Inv, TypeOK
<1>2. CASE UNCHANGED <<votings, highest>>
  BY <1>1, <1>2 DEF HighestGrows, LimitsNoted
<1>3. ASSUME NEW v \in VotingIds, NEW row \in Voting,
             votings' = [votings EXCEPT ![v] = row], NotesLimit(v, votings'[v])
      PROVE  /\ HighestGrows
             /\ \A w \in VotingIds :
                  votings'[w] # None => votings'[w].votingOptionsLimit <= highest'[w]
  <2>1. votings'[v] = row /\ \A w \in VotingIds \ {v} : votings'[w] = votings[w]
    BY <1>1, <1>3
  <2>2. /\ highest' \in [VotingIds -> Nat] /\ highest'[v] >= row.votingOptionsLimit
        /\ \A w \in VotingIds : highest[w] <= highest'[w]
    BY <1>3, <2>1, NotedIsOK
  <2>3. row.votingOptionsLimit \in Nat
    BY VotingsAssumption DEF Voting
  <2>4. ASSUME NEW w \in VotingIds \ {v}, votings'[w] # None
        PROVE  votings'[w].votingOptionsLimit <= highest'[w]
    <3>1. votings[w] \in Voting /\ votings[w].votingOptionsLimit <= highest[w]
      BY <1>1, <2>1, <2>4 DEF LimitsNoted
    <3>2. votings[w].votingOptionsLimit \in Nat
      BY <3>1, VotingsAssumption DEF Voting
    <3>3. highest[w] <= highest'[w] /\ highest[w] \in Nat /\ highest'[w] \in Nat
      BY <1>1, <2>2
    <3> QED BY <2>1, <3>1, <3>2, <3>3
  <2> QED BY <2>1, <2>2, <2>3, <2>4 DEF HighestGrows
<1>4. CASE InsertsVoting(r)
  <2> DEFINE v == requests[r].voting
             row == Assign(VotingDefault, requests[r].body)
  <2>1. v \in VotingIds /\ requests[r].body \in Bodies
    BY <1>4 DEF InsertsVoting, At, Inv, RequestsOK, RequestOK, Request
  <2>2. row \in Voting
    BY <2>1, DefaultIsVoting, VotingsAssumption
  <2>3. votings' = [votings EXCEPT ![v] = row] /\ NotesLimit(v, votings'[v])
    BY <1>4 DEF InsertsVoting
  <2> HIDE DEF v, row
  <2> QED BY <1>3, <2>1, <2>2, <2>3
<1>5. CASE SavesVoting(r)
  <2> DEFINE v == requests[r].voting
             row == Assign(requests[r].row, requests[r].body)
  <2>1. v \in VotingIds /\ requests[r].body \in Bodies /\ requests[r].row \in Voting
    BY <1>5 DEF SavesVoting, At, Inv, RequestsOK, RequestOK, Request
  <2>2. row \in Voting
    BY <2>1, VotingsAssumption
  <2>3. votings' = [votings EXCEPT ![v] = row] /\ NotesLimit(v, votings'[v])
    BY <1>5 DEF SavesVoting
  <2> HIDE DEF v, row
  <2> QED BY <1>3, <2>1, <2>2, <2>3
<1>6. CASE DeletesVoting(r)
  <2>1. UNCHANGED highest /\ \A v \in VotingIds : votings'[v] \in {None, votings[v]}
    BY <1>1, <1>6 DEF DeletesVoting
  <2> QED BY <1>1, <2>1 DEF HighestGrows, LimitsNoted
<1>7. CASE \/ \E u \in Users, v \in VotingIds, data \in Bodies :
                CreateVotingBegins(r, u, v, data) \/ UpdateVotingBegins(r, u, v, data)
           \/ \E u \in Users, v \in VotingIds : DeleteVotingBegins(r, u, v)
           \/ VotingEditorAnswered(r)
  BY <1>2, <1>7 DEF CreateVotingBegins, UpdateVotingBegins, DeleteVotingBegins,
                    VotingEditorAnswered, tableVars
<1> QED BY <1>4, <1>5, <1>6, <1>7 DEF VotingStep

LEMMA NotedStep == Inv /\ LimitsNoted /\ [Next]_vars => LimitsNoted' /\ HighestGrows
<1> SUFFICES ASSUME Inv, LimitsNoted, [Next]_vars PROVE LimitsNoted' /\ HighestGrows
  OBVIOUS
<1>1. CASE UNCHANGED <<votings, highest>>
  BY <1>1 DEF LimitsNoted, HighestGrows, Inv, TypeOK
<1>2. ASSUME NEW r \in Requests, VotingStep(r) PROVE LimitsNoted' /\ HighestGrows
  BY <1>2, RowsNoted DEF LimitsNoted
<1>3. ASSUME NEW r \in Requests, OptionStep(r) PROVE UNCHANGED <<votings, highest>>
  BY <1>3 DEF OptionStep, CreateOptionBegins, DeleteOptionBegins, CreateOptionEditorAnswered,
     CreateOptionRolesAnswered, GetsCard, InsertsOption, DeleteOptionCounts,
     DeleteOptionAnswered, DeletesOption, tableVars
<1>4. ASSUME NEW r \in Requests, VoteStep(r) PROVE UNCHANGED <<votings, highest>>
  BY <1>4 DEF VoteStep, CreateVoteBegins, DeleteVoteBegins, CreateVoteRolesAnswered,
     SelectsVote, WritesVote, RemovesVote, tableVars
<1>5. ASSUME \/ UNCHANGED vars
             \/ \E r \in Requests : Fails(r)
             \/ \E u \in Users, v \in VotingIds : LimitExpires(u, v)
      PROVE  UNCHANGED <<votings, highest>>
  BY <1>5 DEF vars, tableVars, Fails, LimitExpires
<1> QED BY <1>1, <1>2, <1>3, <1>4, <1>5 DEF Next

LEMMA LimitedStep == Inv /\ Inv' /\ LimitsNoted /\ Limited /\ [Next]_vars => Limited'
<1> SUFFICES ASSUME Inv, Inv', LimitsNoted, Limited, [Next]_vars PROVE Limited'
  OBVIOUS
<1>0. HighestGrows
  BY NotedStep
<1>1. ASSUME NEW r \in Requests, Fails(r) PROVE Limited'
  BY <1>0, <1>1, EndedLimits DEF Fails, Ends, tableVars, OptionsFewer
<1>2. CASE UNCHANGED <<options, requests>>
  <2>1. RowsRead'
    BY <1>0, <1>2, RowsStayRead DEF Limited
  <2> QED BY <1>0, <1>2, <2>1, QuietLimits DEF OptionsFewer, CountsKept, FetchesKept, SameOption
<1>3. ASSUME NEW u \in Users, NEW v \in VotingIds, LimitExpires(u, v) PROVE Limited'
  BY <1>2, <1>3 DEF LimitExpires, tableVars
<1>4. CASE UNCHANGED vars
  BY <1>2, <1>4 DEF vars, tableVars
<1> QED BY <1>0, <1>1, <1>3, <1>4, VotingStepLimits, OptionStepLimits, VoteStepLimits DEF Next

----------------------------------------------------------------------------
(* Theorems                                                                 *)

LEMMA SpecGrounds == Spec => [](Inv /\ Grounds)
<1>1. Init => Grounds
  BY DEF Init, Grounds
<1> QED BY <1>1, InvInit, InvStep, GroundsStep, PTL DEF Spec

\* Whatever the requests do, in whatever order their steps come and wherever they
\* fail, the tables, the cache and the requests keep their columns.
THEOREM VotingsTypeCorrect == Spec => []TypeOK
<1>1. Inv => TypeOK
  BY DEF Inv
<1> QED BY <1>1, SpecInv, PTL

\* createVote saves a vote with the option and the voting it read before it asked
\* Twitch; updateVoting and createVotingOption save what belongs to a voting that may
\* be gone.  Still no vote is for an option that is gone or of another voting, and no
\* option is of a voting that is gone.
THEOREM VotesKeepTheirOptions == Spec => []VotesHaveOptions
<1>1. Inv => VotesHaveOptions
  BY DEF Inv
<1> QED BY <1>1, SpecInv, PTL

\* updateVoting saves a whole row that may be out of date.  A voting that no update or
\* deletion has overtaken during an update is as the requests asked for.
THEOREM VotingsFollowRequests == Spec => []RowFollowsRequests
<1>1. Inv => RowFollowsRequests
  BY DEF Inv
<1> QED BY <1>1, SpecInv, PTL

\* canCreateVote looks the rate limit up, waits for Twitch, and sets it.  However many
\* requests there are, the votes that get through are no more than run together.
THEOREM RateLimitHolds == Spec => []VotesWithinRate
<1>1. Init => VotesWithinRate
  <2> SUFFICES ASSUME Init, NEW u \in Users, NEW v \in VotingIds
               PROVE  /\ accepted[<<u, v>>] > 0 <=> <<u, v>> \in limited
                      /\ accepted[<<u, v>>] + Cardinality(Asking(u, v)) <= Cardinality(Requests)
    BY DEF VotesWithinRate
  <2>1. accepted[<<u, v>>] = 0 /\ <<u, v>> \notin limited
    BY DEF Init
  <2>2. Asking(u, v) \in SUBSET Requests
    BY DEF Asking
  <2> QED BY <2>1, <2>2, SomeRequests
<1> QED BY <1>1, SpecInv, RateStep, PTL DEF Spec

\* A vote goes away at the hand of its user, who named that option, of the broadcaster
\* or an editor, or of a deletion it has overtaken; deletes that cascade, and deleteVote,
\* which goes by user and voting alone, take no other vote with them.
THEOREM NoVoteIsLost == Spec => VotesNotLost
<1>1. Inv /\ Grounds /\ [Next]_vars =>
        [\A u \in Users, v \in VotingIds : Lost(u, v) => \E r \in Requests : Deletes(r, u, v)]_vars
  BY LostStep
<1>2. Spec => [][\A u \in Users, v \in VotingIds :
                   Lost(u, v) => \E r \in Requests : Deletes(r, u, v)]_vars
  BY <1>1, SpecGrounds, PTL DEF Spec
<1> QED BY <1>2 DEF VotesNotLost, Lost, Deletes

LEMMA SpecLimited == Spec => []Limited
<1>1. Inv /\ Inv' /\ (LimitsNoted /\ Limited) /\ [Next]_vars => (LimitsNoted /\ Limited)'
  BY NotedStep, LimitedStep
<1> QED BY <1>1, SpecInv, NotedInit, LimitedInit, PTL DEF Spec

\* canCreateVotingOption counts the options of a user, and createVotingOption saves one
\* many awaits later: however requests interleave, a user gets no more options into a
\* voting than requests run together.
THEOREM FewOptionsPerUser == Spec => []OptionsPerUser
<1>1. Limited => OptionsPerUser
  BY DEF Limited
<1> QED BY <1>1, SpecLimited, PTL

\* Nor do the options of all users pass the highest votingOptionsLimit the voting has had
\* by as many as that, whatever updates make of the limit meanwhile.
THEOREM FewOptionsPerVoting == Spec => []OptionsWithinLimit
<1>1. Limited => OptionsWithinLimit
  BY DEF Limited
<1> QED BY <1>1, SpecLimited, PTL

\* getVotingOptionCard looks for the same card before it asks Kinopoisk or IGDB: a card
\* comes into a voting no more often than requests run together.
THEOREM FewEqualCards == Spec => []CardsPerVoting
<1>1. Limited => CardsPerVoting
  BY DEF Limited
<1> QED BY <1>1, SpecLimited, PTL
=============================================================================
