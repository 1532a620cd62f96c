--------------------------- MODULE ChatVotesProofs ---------------------------
(* Proofs about the chat votings, for any channels, viewers, requests in     *)
(* progress, connections and bodies: types, the use of the chat client, the  *)
(* entries the chat handler reads, and what becomes of rows and votes.       *)
EXTENDS ChatVotes, TwitchChatProofs

----------------------------------------------------------------------------
(* Types                                                                    *)

LEMMA EntryIsColumns == EntryColumns \subseteq Columns /\ "listening" \in Columns
BY DEF EntryColumns, Columns

\* Columns put over columns are columns, and so is what an entry keeps of them.
LEMMA AssignIsColumns ==
  ASSUME NEW f, IsColumns(f), NEW g, IsColumns(g)
  PROVE  IsColumns(Assign(f, g)) /\ DOMAIN Assign(f, g) = DOMAIN f \cup DOMAIN g
<1>1. DOMAIN Assign(f, g) = DOMAIN f \cup DOMAIN g
  BY DEF Assign
<1>2. Assign(f, g) = [col \in DOMAIN Assign(f, g) |-> Assign(f, g)[col]]
  BY DEF Assign
<1>3. ASSUME NEW col \in DOMAIN Assign(f, g) PROVE Assign(f, g)[col] \in ColumnType(col)
  <2>1. Assign(f, g)[col] = IF col \in DOMAIN g THEN g[col] ELSE f[col]
    BY <1>3 DEF Assign
  <2>2. QED
    BY <1>1, <1>3, <2>1 DEF IsColumns
<1>4. DOMAIN Assign(f, g) \subseteq Columns
  BY <1>1 DEF IsColumns
<1>5. QED
  BY <1>1, <1>2, <1>3, <1>4 DEF IsColumns

LEMMA ForEntryIsColumns ==
  ASSUME NEW f, IsColumns(f)
  PROVE  IsColumns(ForEntry(f)) /\ DOMAIN ForEntry(f) = DOMAIN f \cap EntryColumns
<1>1. /\ DOMAIN ForEntry(f) = DOMAIN f \cap EntryColumns
      /\ ForEntry(f) = [col \in DOMAIN ForEntry(f) |-> ForEntry(f)[col]]
      /\ \A col \in DOMAIN ForEntry(f) : ForEntry(f)[col] = f[col]
  BY DEF ForEntry
<1>2. QED
  BY <1>1 DEF IsColumns

LEMMA NoRowIsColumns == IsColumns(NoRow) /\ DOMAIN NoRow = {}
BY DEF NoRow, NoColumns, IsColumns

LEMMA ListeningIsColumns ==
  ASSUME NEW b \in BOOLEAN
  PROVE  IsColumns([listening |-> b]) /\ DOMAIN [listening |-> b] = {"listening"}
<1> DEFINE f == [listening |-> b]
<1>1. DOMAIN f = {"listening"} /\ f["listening"] = b
  OBVIOUS
<1>2. f = [col \in {"listening"} |-> f[col]]
  OBVIOUS
<1>3. ColumnType("listening") = BOOLEAN
  BY DEF ColumnType
<1> HIDE DEF f
<1>4. IsColumns(f)
  BY <1>1, <1>2, <1>3, EntryIsColumns DEF IsColumns
<1>5. QED
  BY <1>1, <1>4 DEF f

LEMMA DefaultsAreColumns ==
  /\ IsColumns(EntryDefault) /\ DOMAIN EntryDefault = EntryColumns
  /\ RowOK(VotingDefault)
<1>1. DOMAIN EntryDefault = EntryColumns
  BY DEF EntryDefault, EntryColumns
<1>2. IsColumns(EntryDefault)
  BY VotesAssumption, <1>1, EntryIsColumns
  DEF EntryDefault, EntryColumns, IsColumns, ColumnType
<1>3. IsColumns([listening |-> FALSE]) /\ DOMAIN [listening |-> FALSE] = {"listening"}
  BY ListeningIsColumns
<1>4. QED
  BY <1>1, <1>2, <1>3, AssignIsColumns DEF VotingDefault, RowOK, Columns

\* The rows a statement writes are rows there are.
LEMMA RowsOfTyped ==
  ASSUME NEW q, q = NoStatement \/ StatementOK(q)
  PROVE  RowsOf(q) \subseteq Keys
<1>1. CASE q = NoStatement
  BY <1>1 DEF NoStatement, RowsOf
<1>2. CASE StatementOK(q)
  <2>1. q.channel \in Channels
    BY <1>2 DEF StatementOK
  <2>2. <<q.channel>> \in Keys /\ {q.channel} \X Viewers \subseteq Keys
    BY <2>1 DEF Keys
  <2>3. q.kind \notin {"none", "save", "delete", "clear"} =>
          <<q.channel, q.content.viewer>> \in Keys
    BY <1>2, <2>1 DEF StatementOK, VoteKinds, Keys
  <2>4. QED
    BY <2>1, <2>2, <2>3 DEF RowsOf
<1>3. QED
  BY <1>1, <1>2

LEMMA IssueTyped ==
  ASSUME TypeOK, NEW kind, NEW c, NEW content, NEW detached,
         StatementOK([kind |-> kind, channel |-> c, content |-> content,
                      detached |-> detached]),
         Issue(kind, c, content, detached)
  PROVE  QueriesOK' /\ adrift' \subseteq Keys
<1> DEFINE q == [kind |-> kind, channel |-> c, content |-> content, detached |-> detached]
<1>1. StatementOK(q) /\ RowsOf(q) \subseteq Keys
  BY RowsOfTyped
<1>2. PICK k0 \in Connections : queries' = [queries EXCEPT ![k0] = q]
  BY DEF Issue
<1>3. adrift' \subseteq adrift \cup RowsOf(q)
  BY DEF Issue
<1> HIDE DEF q
<1>4. /\ queries' = [k \in Connections |-> queries'[k]]
      /\ queries'[k0] = q
      /\ \A k \in Connections \ {k0} : queries'[k] = queries[k]
  BY <1>2 DEF TypeOK, QueriesOK
<1>5. QueriesOK'
  <2>1. \A k \in Connections : queries'[k] = NoStatement \/ StatementOK(queries'[k])
    BY <1>1, <1>4 DEF TypeOK, QueriesOK
  <2>2. QED
    BY <1>4, <2>1 DEF QueriesOK
<1>6. QED
  BY <1>1, <1>3, <1>5 DEF TypeOK

LEMMA SettleTyped ==
  ASSUME TypeOK, NEW k0 \in Connections, Settle(k0)
  PROVE  QueriesOK'
<1>1. /\ queries' = [k \in Connections |-> queries'[k]]
      /\ queries'[k0] = NoStatement
      /\ \A k \in Connections \ {k0} : queries'[k] = queries[k]
  BY DEF TypeOK, QueriesOK, Settle
<1>2. \A k \in Connections : queries'[k] = NoStatement \/ StatementOK(queries'[k])
  BY <1>1 DEF TypeOK, QueriesOK
<1>3. QED
  BY <1>1, <1>2 DEF QueriesOK

\* What the process holds, when it goes on or ends.
ProcessOK ==
  /\ proc \in {"down", "starting", "up", "closing"}
  /\ ListOK
  /\ RequestsOK
  /\ clearing \subseteq Channels
  /\ VotesOK(said)
  /\ clobbered \subseteq Channels
  /\ adrift \subseteq Keys

LEMMA NoVotesTyped == VotesOK([c \in Channels |-> NoVotes])
BY DEF VotesOK, NoVotes

LEMMA ProcessTyped ==
  ASSUME TypeOK, ProcessGoesOn \/ ProcessEnds
  PROVE  ProcessOK'
<1>1. CASE ProcessGoesOn
  BY <1>1 DEF TypeOK, ProcessGoesOn, historyVars, ProcessOK, ListOK, RequestsOK, VotesOK
<1>2. CASE ProcessEnds
  <2>1. /\ proc' = "down" /\ clearing' = {} /\ clobbered' = {} /\ adrift' = {}
        /\ list' = [c \in Channels |-> NoRow]
        /\ requests' = [r \in Requests |-> None]
        /\ said' = [c \in Channels |-> NoVotes]
    BY <1>2 DEF ProcessEnds
  <2>2. ListOK'
    BY <2>1, NoRowIsColumns DEF ListOK
  <2>3. RequestsOK'
    BY <2>1 DEF RequestsOK
  <2>4. VotesOK(said)'
    BY <2>1, NoVotesTyped DEF VotesOK
  <2>5. QED
    BY <2>1, <2>2, <2>3, <2>4 DEF ProcessOK
<1>3. QED
  BY <1>1, <1>2

LEMMA InitTyped == Init /\ ChatInv => TypeOK
<1> SUFFICES ASSUME Init, ChatInv PROVE TypeOK
  OBVIOUS
<1>1. ListOK /\ VotingsOK
  BY NoRowIsColumns DEF Init, ListOK, VotingsOK
<1>2. RequestsOK /\ QueriesOK
  BY DEF Init, RequestsOK, QueriesOK
<1>3. VotesOK(votes) /\ VotesOK(said)
  BY NoVotesTyped DEF Init
<1>4. QED
  BY <1>1, <1>2, <1>3 DEF Init, ChatInv, TypeOK

\* The types of the tables and of what is in flight, which statements change.
StoreOK == VotingsOK /\ VotesOK(votes) /\ QueriesOK

LEMMA TypeParts == TypeOK <=> ChatTypeOK /\ ProcessOK /\ StoreOK
BY DEF TypeOK, ProcessOK, StoreOK

LEMMA SameStore ==
  ASSUME StoreOK, UNCHANGED <<databaseVars, queries>>
  PROVE  StoreOK'
BY DEF StoreOK, databaseVars, VotingsOK, VotesOK, QueriesOK

LEMMA SameProcess ==
  ASSUME ProcessOK, UNCHANGED <<proc, list, requests, clearing, historyVars>>
  PROVE  ProcessOK'
BY DEF ProcessOK, historyVars, ListOK, RequestsOK, VotesOK

\* A vote, or the votes of a channel, written by a statement or remembered.
LEMMA VoteTyped ==
  ASSUME NEW f, VotesOK(f), NEW c \in Channels, NEW u \in Viewers,
         NEW m \in Messages \cup {None}
  PROVE  VotesOK([f EXCEPT ![c][u] = m])
BY DEF VotesOK

LEMMA ClearTyped ==
  ASSUME NEW f, VotesOK(f), NEW c \in Channels
  PROVE  VotesOK([f EXCEPT ![c] = NoVotes])
BY DEF VotesOK, NoVotes

LEMMA VotingTyped ==
  ASSUME VotingsOK, NEW c \in Channels, NEW row, row = NoRow \/ RowOK(row),
         votings' = [votings EXCEPT ![c] = row]
  PROVE  VotingsOK'
<1>1. /\ votings' = [x \in Channels |-> votings'[x]]
      /\ votings'[c] = row
      /\ \A x \in Channels \ {c} : votings'[x] = votings[x]
  BY DEF VotingsOK
<1>2. QED
  BY <1>1 DEF VotingsOK

\* The statements leave the tables and the connections in order.
LEMMA SaveTyped ==
  ASSUME TypeOK, NEW k \in Connections, SavesVoting(k)
  PROVE  StoreOK'
<1> DEFINE c == queries[k].channel
           base == IF votings[c] = NoRow THEN VotingDefault ELSE votings[c]
           row == Assign(base, queries[k].content)
<1>1. c \in Channels /\ IsColumns(queries[k].content)
  BY DEF TypeOK, QueriesOK, StatementOK, SavesVoting, Holds, NoStatement
<1>2. RowOK(base)
  BY <1>1, DefaultsAreColumns DEF TypeOK, VotingsOK
<1>3. /\ votings' = [votings EXCEPT ![c] = row]
      /\ Settle(k) /\ votes' = votes
  BY DEF SavesVoting
<1>4. RowOK(row)
  <2>1. DOMAIN queries[k].content \subseteq Columns
    BY <1>1 DEF IsColumns
  <2>2. QED
    BY <1>1, <1>2, <2>1, AssignIsColumns DEF RowOK
<1> HIDE DEF c, row
<1>5. VotingsOK'
  BY <1>1, <1>3, <1>4, VotingTyped DEF TypeOK
<1>6. QED
  BY <1>3, <1>5, SettleTyped DEF StoreOK, TypeOK, VotesOK

LEMMA OtherStatementTyped ==
  ASSUME TypeOK, NEW k \in Connections,
         DeletesVoting(k) \/ DeletesVotes(k) \/ InsertsVote(k) \/ UpdatesVote(k) \/ Fails(k)
  PROVE  StoreOK'
<1> DEFINE c == queries[k].channel
           u == queries[k].content.viewer
           m == queries[k].content.message
<1>1. Settle(k)
  BY DEF DeletesVoting, DeletesVotes, InsertsVote, UpdatesVote, Fails
<1>2. QueriesOK'
  BY <1>1, SettleTyped
<1>3. VotingsOK /\ VotesOK(votes)
  BY DEF TypeOK
<1>4. queries[k].kind \in {"save", "delete", "clear"} \cup VoteKinds => c \in Channels
  BY DEF TypeOK, QueriesOK, StatementOK, NoStatement, VoteKinds
<1>5. queries[k].kind \in {"insert", "update"} => u \in Viewers /\ m \in Messages
  BY DEF TypeOK, QueriesOK, StatementOK, NoStatement, VoteKinds
<1>6. CASE DeletesVoting(k) \/ DeletesVotes(k)
  <2>1. c \in Channels
    BY <1>4, <1>6 DEF DeletesVoting, DeletesVotes, Holds
  <2>2. VotingsOK'
    <3>1. CASE votings' = votings
      BY <1>3, <3>1 DEF VotingsOK
    <3>2. CASE votings' = [votings EXCEPT ![c] = NoRow]
      BY <1>3, <2>1, <3>2, VotingTyped
    <3>3. QED
      BY <1>6, <3>1, <3>2 DEF DeletesVoting, DeletesVotes
  <2>3. votes' = [votes EXCEPT ![c] = NoVotes]
    BY <1>6 DEF DeletesVoting, DeletesVotes
  <2>4. VotesOK(votes')
    BY <1>3, <2>1, <2>3, ClearTyped
  <2>5. QED
    BY <1>2, <2>2, <2>4 DEF StoreOK, VotesOK
<1>7. CASE InsertsVote(k) \/ UpdatesVote(k)
  <2>1. c \in Channels /\ u \in Viewers /\ m \in Messages
    BY <1>4, <1>5, <1>7 DEF InsertsVote, UpdatesVote, Holds, VoteKinds
  <2>2. VotingsOK'
    BY <1>3, <1>7 DEF InsertsVote, UpdatesVote, VotingsOK
  <2>3. \/ votes' = votes
        \/ \E x \in Messages \cup {None} : votes' = [votes EXCEPT ![c][u] = x]
    BY <1>7, <2>1 DEF InsertsVote, UpdatesVote
  <2>4. VotesOK(votes')
    <3>1. CASE votes' = votes
      BY <1>3, <3>1
    <3>2. ASSUME NEW x \in Messages \cup {None}, votes' = [votes EXCEPT ![c][u] = x]
          PROVE  VotesOK(votes')
      <4> HIDE DEF c, u
      <4>1. VotesOK([votes EXCEPT ![c][u] = x])
        BY <1>3, <2>1, VoteTyped
      <4>2. QED
        BY <3>2, <4>1
    <3>3. QED
      BY <2>3, <3>1, <3>2
  <2>5. QED
    BY <1>2, <2>2, <2>4 DEF StoreOK, VotesOK
<1>8. CASE Fails(k)
  BY <1>2, <1>3, <1>8 DEF Fails, databaseVars, StoreOK, VotingsOK, VotesOK
<1>9. QED
  BY <1>6, <1>7, <1>8

LEMMA SelectTyped ==
  ASSUME TypeOK, NEW k \in Connections, SelectsVote(k)
  PROVE  /\ StoreOK'
         /\ \E kind \in {"insert", "update"} :
              /\ queries' = [queries EXCEPT ![k] =
                   [kind |-> kind, channel |-> queries[k].channel,
                    content |-> queries[k].content, detached |-> queries[k].detached]]
              /\ kind = "insert" <=>
                   votes[queries[k].channel][queries[k].content.viewer] = None
<1>1. StatementOK(queries[k]) /\ queries[k].kind = "select"
  BY DEF TypeOK, QueriesOK, SelectsVote, Holds, NoStatement
<1>2. PICK kind \in {"insert", "update"} :
        /\ queries' = [queries EXCEPT ![k] = [queries[k] EXCEPT !.kind = kind]]
        /\ kind = "insert" <=> votes[queries[k].channel][queries[k].content.viewer] = None
  BY DEF SelectsVote
<1> DEFINE q == [kind |-> kind, channel |-> queries[k].channel,
                 content |-> queries[k].content, detached |-> queries[k].detached]
<1>3. [queries[k] EXCEPT !.kind = kind] = q
  BY <1>1 DEF StatementOK
<1>4. StatementOK(q)
  BY <1>1, <1>2 DEF StatementOK, VoteKinds
<1> HIDE DEF q
<1>5. QueriesOK'
  <2>1. /\ queries' = [x \in Connections |-> queries'[x]]
        /\ queries'[k] = q
        /\ \A x \in Connections \ {k} : queries'[x] = queries[x]
    BY <1>2, <1>3 DEF TypeOK, QueriesOK
  <2>2. QED
    BY <1>4, <2>1 DEF TypeOK, QueriesOK
<1>6. VotingsOK' /\ VotesOK(votes')
  BY DEF TypeOK, SelectsVote, databaseVars, VotingsOK, VotesOK
<1>7. StoreOK'
  BY <1>5, <1>6 DEF StoreOK, VotesOK
<1>8. QED
  BY <1>2, <1>3, <1>7 DEF q

\* A failed statement whose request the process survives.
LEMMA FailsTyped ==
  ASSUME TypeOK, NEW k \in Connections, Fails(k)
  PROVE  ProcessOK'
<1>1. CASE ProcessGoesOn \/ ProcessEnds
  BY <1>1, ProcessTyped
<1>2. CASE /\ adrift' = adrift \cup RowsOf(queries[k])
           /\ UNCHANGED <<proc, list, requests, clearing, said, clobbered>>
  <2>1. RowsOf(queries[k]) \subseteq Keys
    BY RowsOfTyped DEF TypeOK, QueriesOK
  <2>2. ProcessOK
    BY TypeParts
  <2>3. QED
    BY <1>2, <2>1, <2>2 DEF ProcessOK, ListOK, RequestsOK, VotesOK
<1>3. QED
  BY <1>1, <1>2 DEF Fails

LEMMA StatementTyped ==
  ASSUME TypeOK, NEW k \in Connections,
         \/ SavesVoting(k) \/ DeletesVoting(k) \/ DeletesVotes(k) \/ SelectsVote(k)
         \/ InsertsVote(k) \/ UpdatesVote(k) \/ Fails(k)
  PROVE  ProcessOK' /\ StoreOK'
<1>1. StoreOK'
  BY SaveTyped, SelectTyped, OtherStatementTyped
<1>2. CASE Fails(k)
  BY <1>1, <1>2, FailsTyped
<1>3. CASE ProcessGoesOn \/ ProcessEnds
  BY <1>1, <1>3, ProcessTyped
<1>4. QED
  BY <1>2, <1>3
  DEF SavesVoting, DeletesVoting, DeletesVotes, SelectsVote, InsertsVote, UpdatesVote

\* Entries of the list, by column.
LEMMA EntryTyped ==
  ASSUME ListOK, NEW c \in Channels, NEW e, IsColumns(e), DOMAIN e \subseteq EntryColumns,
         list' = [list EXCEPT ![c] = e]
  PROVE  ListOK'
<1>1. /\ list' = [x \in Channels |-> list'[x]]
      /\ list'[c] = e
      /\ \A x \in Channels \ {c} : list'[x] = list[x]
  BY DEF ListOK
<1>2. QED
  BY <1>1 DEF ListOK

LEMMA LifeTyped ==
  ASSUME TypeOK, Start \/ ModuleInit \/ ModuleDestroy \/ Exit \/ Crash \/ ChatMoves
  PROVE  ProcessOK' /\ StoreOK'
<1>1. ProcessOK /\ StoreOK
  BY TypeParts
<1>2. UNCHANGED <<databaseVars, queries>>
  BY DEF Start, ModuleInit, ModuleDestroy, Exit, Crash, ChatMoves
<1>3. StoreOK'
  BY <1>1, <1>2, SameStore
<1>4. CASE Exit \/ Crash
  BY <1>3, <1>4, ProcessTyped DEF Exit, Crash
<1>5. CASE Start \/ ModuleDestroy \/ ChatMoves
  <2>1. /\ UNCHANGED <<list, requests, clearing, historyVars>>
        /\ proc' \in {"down", "starting", "up", "closing"}
    BY <1>1, <1>5 DEF Start, ModuleDestroy, ChatMoves, ProcessOK
  <2>2. QED
    BY <1>1, <1>3, <2>1 DEF ProcessOK, historyVars, ListOK, RequestsOK, VotesOK
<1>6. CASE ModuleInit
  <2>1. /\ list' = [c \in Channels |-> ForEntry(votings[c])]
        /\ proc' = "up" /\ said' = votes
        /\ UNCHANGED <<requests, clearing, clobbered, adrift>>
    BY <1>6 DEF ModuleInit
  <2>2. \A c \in Channels : IsColumns(votings[c])
    BY <1>1, NoRowIsColumns DEF StoreOK, VotingsOK, RowOK
  <2>3. \A c \in Channels : IsColumns(ForEntry(votings[c]))
                            /\ DOMAIN ForEntry(votings[c]) \subseteq EntryColumns
    BY <2>2, ForEntryIsColumns
  <2>4. ListOK'
    BY <2>1, <2>3 DEF ListOK
  <2>5. QED
    BY <1>1, <1>3, <2>1, <2>4 DEF ProcessOK, StoreOK, RequestsOK, VotesOK
<1>7. QED
  BY <1>4, <1>5, <1>6

LEMMA AddTyped ==
  ASSUME TypeOK, NEW c \in Channels, NEW data \in CreateInputs, AddChatVoting(c, data)
  PROVE  ProcessOK' /\ StoreOK'
<1>1. IsColumns(data)
  BY VotesAssumption
<1>2. /\ list' = [list EXCEPT ![c] = Assign(EntryDefault, ForEntry(data))]
      /\ Issue("save", c, data, FALSE)
      /\ clobbered' \subseteq clobbered \cup {c}
      /\ UNCHANGED <<proc, requests, clearing, votings, votes, said>>
  BY DEF AddChatVoting, databaseVars
<1>3. /\ IsColumns(Assign(EntryDefault, ForEntry(data)))
      /\ DOMAIN Assign(EntryDefault, ForEntry(data)) \subseteq EntryColumns
  BY <1>1, DefaultsAreColumns, ForEntryIsColumns, AssignIsColumns
<1>4. ListOK'
  BY <1>2, <1>3, EntryTyped DEF TypeOK
<1>5. StatementOK([kind |-> "save", channel |-> c, content |-> data, detached |-> FALSE])
  BY <1>1 DEF StatementOK, VoteKinds
<1>6. QueriesOK' /\ adrift' \subseteq Keys
  BY <1>2, <1>5, IssueTyped
<1>7. QED
  BY <1>2, <1>4, <1>6
  DEF TypeOK, ProcessOK, StoreOK, RequestsOK, VotingsOK, VotesOK

\* A request that ends leaves the others as they are.
LEMMA RequestEndsTyped ==
  ASSUME RequestsOK, NEW r \in Requests, RequestEnds(r)
  PROVE  RequestsOK' /\ requests[r].channel \in Channels /\ RowOK(requests[r].row)
<1>1. /\ requests' = [x \in Requests |-> requests'[x]]
      /\ requests'[r] = None
      /\ \A x \in Requests \ {r} : requests'[x] = requests[x]
  BY DEF RequestsOK, RequestEnds
<1>2. RequestsOK'
  BY <1>1 DEF RequestsOK
<1>3. QED
  BY <1>2 DEF RequestsOK, RequestEnds

LEMMA UpdateTyped ==
  ASSUME TypeOK, NEW r \in Requests, NEW data \in UpdateInputs, UpdateChatVoting(r, data)
  PROVE  ProcessOK' /\ StoreOK'
<1> DEFINE c == requests[r].channel
           row == Assign(requests[r].row, data)
<1>1. IsColumns(data)
  BY VotesAssumption
<1>2. /\ RequestEnds(r)
      /\ list' = [list EXCEPT ![c] = Assign(@, ForEntry(data))]
      /\ Issue("save", c, row, FALSE)
      /\ clobbered' \subseteq clobbered \cup {c}
      /\ UNCHANGED <<proc, clearing, votings, votes, said>>
  BY DEF UpdateChatVoting, databaseVars
<1>3. RequestsOK' /\ c \in Channels /\ RowOK(requests[r].row)
  BY <1>2, RequestEndsTyped DEF TypeOK
<1>4. IsColumns(row)
  BY <1>1, <1>3, AssignIsColumns DEF RowOK
<1> HIDE DEF c, row
<1>5. /\ IsColumns(Assign(list[c], ForEntry(data)))
      /\ DOMAIN Assign(list[c], ForEntry(data)) \subseteq EntryColumns
  <2>1. IsColumns(list[c]) /\ DOMAIN list[c] \subseteq EntryColumns
    BY <1>3 DEF TypeOK, ListOK
  <2>2. IsColumns(ForEntry(data)) /\ DOMAIN ForEntry(data) \subseteq EntryColumns
    BY <1>1, ForEntryIsColumns
  <2>3. QED
    BY <2>1, <2>2, AssignIsColumns
<1>6. list' = [list EXCEPT ![c] = Assign(list[c], ForEntry(data))]
  BY <1>2
<1>7. ListOK'
  BY <1>3, <1>5, <1>6, EntryTyped DEF TypeOK
<1>8. StatementOK([kind |-> "save", channel |-> c, content |-> row, detached |-> FALSE])
  BY <1>3, <1>4 DEF StatementOK, VoteKinds
<1>9. QueriesOK' /\ adrift' \subseteq Keys
  BY <1>2, <1>8, IssueTyped
<1>10. QED
  BY <1>2, <1>3, <1>7, <1>9 DEF TypeOK, ProcessOK, StoreOK, VotingsOK, VotesOK

LEMMA RequestTyped ==
  ASSUME TypeOK, NEW r \in Requests,
         RequestRejected(r) \/ DeleteChatVoting(r) \/ ClearChatVotes(r)
  PROVE  ProcessOK' /\ StoreOK'
<1> DEFINE c == requests[r].channel
<1>1. /\ RequestEnds(r)
      /\ UNCHANGED <<proc, list, clearing, votings, votes>>
      /\ clobbered' \subseteq clobbered
  BY DEF RequestRejected, DeleteChatVoting, ClearChatVotes, databaseVars, historyVars
<1>2. RequestsOK' /\ c \in Channels
  BY <1>1, RequestEndsTyped DEF TypeOK
<1>3. CASE RequestRejected(r)
  BY <1>1, <1>2, <1>3
  DEF RequestRejected, historyVars, TypeOK, ProcessOK, StoreOK, ListOK, VotingsOK, VotesOK,
      QueriesOK
<1>4. CASE DeleteChatVoting(r) \/ ClearChatVotes(r)
  <2>1. PICK kind \in {"delete", "clear"} : Issue(kind, c, NoColumns, FALSE)
    BY <1>4 DEF DeleteChatVoting, ClearChatVotes
  <2>2. said' = [said EXCEPT ![c] = NoVotes]
    BY <1>4 DEF DeleteChatVoting, ClearChatVotes
  <2> HIDE DEF c
  <2>3. StatementOK([kind |-> kind, channel |-> c, content |-> NoColumns,
                     detached |-> FALSE])
    BY <1>2, <2>1 DEF StatementOK, VoteKinds
  <2>4. QueriesOK' /\ adrift' \subseteq Keys
    BY <2>1, <2>3, IssueTyped
  <2>5. VotesOK(said')
    BY <1>2, <2>2, ClearTyped DEF TypeOK
  <2>6. QED
    BY <1>1, <1>2, <2>4, <2>5 DEF TypeOK, ProcessOK, StoreOK, ListOK, VotingsOK, VotesOK
<1>5. QED
  BY <1>3, <1>4

LEMMA ReadsTyped ==
  ASSUME TypeOK, NEW r \in Requests, NEW c \in Channels, RequestReads(r, c)
  PROVE  ProcessOK' /\ StoreOK'
<1>1. /\ requests' = [requests EXCEPT ![r] = [channel |-> c, row |-> votings[c]]]
      /\ votings[c] # NoRow
      /\ UNCHANGED <<proc, list, clearing, votings, votes, queries, said, clobbered, adrift>>
  BY DEF RequestReads, databaseVars, historyVars
<1>2. RowOK(votings[c])
  BY <1>1 DEF TypeOK, VotingsOK
<1>3. /\ requests' = [x \in Requests |-> requests'[x]]
      /\ requests'[r] = [channel |-> c, row |-> votings[c]]
      /\ \A x \in Requests \ {r} : requests'[x] = requests[x]
  BY <1>1 DEF TypeOK, RequestsOK
<1>4. RequestsOK'
  BY <1>2, <1>3 DEF TypeOK, RequestsOK
<1>5. QED
  BY <1>1, <1>4 DEF TypeOK, ProcessOK, StoreOK, ListOK, VotingsOK, VotesOK, QueriesOK

LEMMA MessageTyped ==
  ASSUME TypeOK, NEW c \in Channels,
         \/ \E m \in Messages : ClearMessage(c, m)
         \/ \E hasAccess \in BOOLEAN : ClearAnswered(c, hasAccess)
         \/ \E u \in Viewers, m \in Messages : VoteMessage(c, u, m)
  PROVE  ProcessOK' /\ StoreOK'
<1>1. /\ UNCHANGED <<proc, list, requests, votings, votes, clobbered>>
      /\ clearing' \subseteq clearing \cup {c}
  BY DEF ClearMessage, ClearAnswered, VoteMessage, databaseVars, historyVars
<1>2. CASE UNCHANGED <<queries, said, adrift>>
  BY <1>1, <1>2
  DEF TypeOK, ProcessOK, StoreOK, ListOK, RequestsOK, VotingsOK, VotesOK, QueriesOK
<1>3. CASE Issue("clear", c, NoColumns, TRUE) /\ said' = [said EXCEPT ![c] = NoVotes]
  <2>1. StatementOK([kind |-> "clear", channel |-> c, content |-> NoColumns,
                     detached |-> TRUE])
    BY DEF StatementOK, VoteKinds
  <2>2. QueriesOK' /\ adrift' \subseteq Keys
    BY <1>3, <2>1, IssueTyped
  <2>3. VotesOK(said')
    BY <1>3, ClearTyped DEF TypeOK
  <2>4. QED
    BY <1>1, <2>2, <2>3
    DEF TypeOK, ProcessOK, StoreOK, ListOK, RequestsOK, VotingsOK, VotesOK
<1>4. ASSUME NEW u \in Viewers, NEW m \in Messages,
             Issue("select", c, [viewer |-> u, message |-> m], TRUE),
             said' = [said EXCEPT ![c][u] = m]
      PROVE  ProcessOK' /\ StoreOK'
  <2>1. StatementOK([kind |-> "select", channel |-> c,
                     content |-> [viewer |-> u, message |-> m], detached |-> TRUE])
    BY DEF StatementOK, VoteKinds
  <2>2. QueriesOK' /\ adrift' \subseteq Keys
    BY <1>4, <2>1, IssueTyped
  <2>3. VotesOK(said')
    BY <1>4, VoteTyped DEF TypeOK
  <2>4. QED
    BY <1>1, <2>2, <2>3
    DEF TypeOK, ProcessOK, StoreOK, ListOK, RequestsOK, VotingsOK, VotesOK
<1>5. QED
  BY <1>2, <1>3, <1>4 DEF ClearMessage, ClearAnswered, VoteMessage, historyVars

LEMMA NextTyped == TypeOK /\ [Next]_vars => ProcessOK' /\ StoreOK'
<1> SUFFICES ASSUME TypeOK, [Next]_vars PROVE ProcessOK' /\ StoreOK'
  OBVIOUS
<1>1. CASE Start \/ ModuleInit \/ ModuleDestroy \/ Exit \/ Crash \/ ChatMoves
  BY <1>1, LifeTyped
<1>2. ASSUME NEW k \in Connections,
             \/ SavesVoting(k) \/ DeletesVoting(k) \/ DeletesVotes(k) \/ SelectsVote(k)
             \/ InsertsVote(k) \/ UpdatesVote(k) \/ Fails(k)
      PROVE  ProcessOK' /\ StoreOK'
  BY <1>2, StatementTyped
<1>3. ASSUME NEW c \in Channels, NEW data \in CreateInputs, AddChatVoting(c, data)
      PROVE  ProcessOK' /\ StoreOK'
  BY <1>3, AddTyped
<1>4. ASSUME NEW c \in Channels, NEW r \in Requests, RequestReads(r, c)
      PROVE  ProcessOK' /\ StoreOK'
  BY <1>4, ReadsTyped
<1>5. ASSUME NEW c \in Channels,
             \/ \E m \in Messages : ClearMessage(c, m)
             \/ \E hasAccess \in BOOLEAN : ClearAnswered(c, hasAccess)
             \/ \E u \in Viewers, m \in Messages : VoteMessage(c, u, m)
      PROVE  ProcessOK' /\ StoreOK'
  BY <1>5, MessageTyped
<1>6. ASSUME NEW r \in Requests, NEW data \in UpdateInputs, UpdateChatVoting(r, data)
      PROVE  ProcessOK' /\ StoreOK'
  BY <1>6, UpdateTyped
<1>7. ASSUME NEW r \in Requests,
             RequestRejected(r) \/ DeleteChatVoting(r) \/ ClearChatVotes(r)
      PROVE  ProcessOK' /\ StoreOK'
  BY <1>7, RequestTyped
<1>8. CASE UNCHANGED vars
  <2>1. ProcessOK /\ StoreOK
    BY TypeParts
  <2>2. QED
    BY <1>8, <2>1, SameProcess, SameStore DEF vars
<1>9. QED
  BY <1>1, <1>2, <1>3, <1>4, <1>5, <1>6, <1>7, <1>8 DEF Next

----------------------------------------------------------------------------
(* Each step of ChatVotes is a step of the chat client, or leaves it alone. *)
(* What is proved of the client on its own then holds of it in ChatVotes.   *)

LEMMA InitIsChatInit == Init => ChatInit
BY DEF Init

\* Requests act on a channel they have found.
LEMMA RequestChannel ==
  ASSUME TypeOK, NEW r \in Requests, RequestEnds(r)
  PROVE  requests[r].channel \in Channels
BY DEF TypeOK, RequestsOK, RequestEnds

LEMMA ListenIsClientStep ==
  ASSUME NEW c \in Channels, NEW data, Listen(c, data)
  PROVE  [ChatNext]_chatVars
<1>1. Self \in ModuleIds /\ {c} \in SUBSET Channels
  BY VotesAssumption
<1>2. QED
  BY <1>1 DEF Listen, ChatNext

LEMMA ProcessIsClientStep ==
  ASSUME Start \/ ModuleInit \/ ModuleDestroy \/ Exit \/ Crash \/ ChatMoves
  PROVE  [ChatNext]_chatVars
<1>1. CASE Start
  BY <1>1 DEF Start
<1>2. CASE ModuleInit
  <2>1. /\ {c \in Channels : votings[c] # NoRow /\ votings[c]["listening"]} \in SUBSET Channels
        /\ Self \in ModuleIds
    BY VotesAssumption
  <2>2. QED
    BY <1>2, <2>1 DEF ModuleInit, ChatNext
<1>3. CASE ModuleDestroy \/ Exit \/ Crash
  BY <1>3 DEF ModuleDestroy, Exit, Crash, ProcessEnds, ChatNext
<1>4. CASE ChatMoves
  <2>1. \A c \in Channels : {c} \in SUBSET Channels
    OBVIOUS
  <2>2. QED
    BY <1>4, <2>1 DEF ChatMoves, ChatNext
<1>5. QED
  BY <1>1, <1>2, <1>3, <1>4

LEMMA StatementIsClientStep ==
  ASSUME NEW k \in Connections,
         \/ SavesVoting(k) \/ DeletesVoting(k) \/ DeletesVotes(k) \/ SelectsVote(k)
         \/ InsertsVote(k) \/ UpdatesVote(k) \/ Fails(k)
  PROVE  [ChatNext]_chatVars
<1>1. UNCHANGED chatVars \/ ProcessEnds
  BY DEF SavesVoting, DeletesVoting, DeletesVotes, SelectsVote, InsertsVote, UpdatesVote,
         Fails, ProcessGoesOn
<1>2. QED
  BY <1>1 DEF ProcessEnds, ChatNext

LEMMA RequestIsClientStep ==
  ASSUME TypeOK, NEW r \in Requests,
         \/ RequestRejected(r) \/ DeleteChatVoting(r) \/ ClearChatVotes(r)
         \/ \E data \in UpdateInputs : UpdateChatVoting(r, data)
  PROVE  [ChatNext]_chatVars
<1>1. CASE RequestRejected(r) \/ ClearChatVotes(r)
  BY <1>1 DEF RequestRejected, ClearChatVotes
<1>2. CASE DeleteChatVoting(r)
  <2>1. requests[r].channel \in Channels /\ Self \in ModuleIds
    BY <1>2, RequestChannel, VotesAssumption DEF DeleteChatVoting
  <2>2. QED
    BY <1>2, <2>1 DEF DeleteChatVoting, ChatNext
<1>3. ASSUME NEW data \in UpdateInputs, UpdateChatVoting(r, data)
      PROVE  [ChatNext]_chatVars
  <2>1. requests[r].channel \in Channels /\ Listen(requests[r].channel, data)
    BY <1>3, RequestChannel DEF UpdateChatVoting
  <2>2. QED
    BY <2>1, ListenIsClientStep
<1>4. QED
  BY <1>1, <1>2, <1>3

LEMMA NextIsClientStep == TypeOK /\ [Next]_vars => [ChatNext]_chatVars
<1> SUFFICES ASSUME TypeOK, [Next]_vars PROVE [ChatNext]_chatVars
  OBVIOUS
<1>1. CASE Start \/ ModuleInit \/ ModuleDestroy \/ Exit \/ Crash \/ ChatMoves
  BY <1>1, ProcessIsClientStep
<1>2. ASSUME NEW k \in Connections,
             \/ SavesVoting(k) \/ DeletesVoting(k) \/ DeletesVotes(k) \/ SelectsVote(k)
             \/ InsertsVote(k) \/ UpdatesVote(k) \/ Fails(k)
      PROVE  [ChatNext]_chatVars
  BY <1>2, StatementIsClientStep
<1>3. ASSUME NEW c \in Channels, NEW data \in CreateInputs, AddChatVoting(c, data)
      PROVE  [ChatNext]_chatVars
  BY <1>3, ListenIsClientStep DEF AddChatVoting
<1>4. ASSUME NEW c \in Channels,
             \/ \E r \in Requests : RequestReads(r, c)
             \/ \E m \in Messages : ClearMessage(c, m)
             \/ \E hasAccess \in BOOLEAN : ClearAnswered(c, hasAccess)
             \/ \E u \in Viewers, m \in Messages : VoteMessage(c, u, m)
      PROVE  [ChatNext]_chatVars
  BY <1>4 DEF RequestReads, ClearMessage, ClearAnswered, VoteMessage
<1>5. ASSUME NEW r \in Requests,
             \/ RequestRejected(r) \/ DeleteChatVoting(r) \/ ClearChatVotes(r)
             \/ \E data \in UpdateInputs : UpdateChatVoting(r, data)
      PROVE  [ChatNext]_chatVars
  BY <1>5, RequestIsClientStep
<1>6. CASE UNCHANGED vars
  BY <1>6 DEF vars
<1>7. QED
  BY <1>1, <1>2, <1>3, <1>4, <1>5, <1>6 DEF Next

\* The inductive invariant of the types: the client keeps its own.
TypeInv == TypeOK /\ ChatInv

LEMMA TypeInvHolds == Spec => []TypeInv
<1>1. Init => TypeInv
  BY InitIsChatInit, InitInv, InitTyped DEF TypeInv
<1>2. TypeInv /\ [Next]_vars => TypeInv'
  <2> SUFFICES ASSUME TypeInv, [Next]_vars PROVE TypeInv'
    OBVIOUS
  <2>1. ChatInv'
    BY NextIsClientStep, NextInv DEF TypeInv
  <2>2. ProcessOK' /\ StoreOK'
    BY NextTyped DEF TypeInv
  <2>3. TypeOK'
    BY <2>1, <2>2 DEF TypeOK, ProcessOK, StoreOK, ChatInv
  <2>4. QED
    BY <2>1, <2>3 DEF TypeInv
<1>3. QED
  BY <1>1, <1>2, PTL DEF Spec

\* Every variable keeps its type; what is in flight and what requests have read, too.
THEOREM VotesTypeCorrect == Spec => []TypeOK
<1>1. TypeInv => TypeOK
  BY DEF TypeInv
<1>2. QED
  BY <1>1, TypeInvHolds, PTL

\* The votings use the shared client within its rules, through restarts too.
LEMMA VotesUseChat == Spec => ChatSpec
<1>1. TypeInv => TypeOK
  BY DEF TypeInv
<1>2. QED
  BY <1>1, TypeInvHolds, InitIsChatInit, NextIsClientStep, PTL DEF Spec, ChatSpec

\* With votings created, updated and deleted while other modules come and go, a
\* subscribed channel that no command is under way for is heard, or was refused.
THEOREM VotingsHeard == Spec => []SubscribedIsHeard
<1>1. QED
  BY VotesUseChat, SubscriptionsHeard, PTL

\* ChatVotes, composed with the client, implements Subscriptions.
THEOREM VotesImplementSubscriptions == Spec => ImplementsSubscriptions
<1>1. QED
  BY VotesUseChat, ClientImplementsSubscriptions, PTL

----------------------------------------------------------------------------
(* Entries                                                                  *)

\* Commands that differ, and those of a body or row that may not give any.
Differ(pair) == pair.vote # pair.clearVotes
DifferIfGiven(f) == "commands" \in DOMAIN f => Differ(f["commands"])

Complete(e) == DOMAIN e = EntryColumns /\ Differ(e["commands"])
Sound(row) == EntryColumns \subseteq DOMAIN row /\ Differ(row["commands"])

Functions ==
  /\ list = [c \in Channels |-> list[c]]
  /\ votings = [c \in Channels |-> votings[c]]
  /\ requests = [r \in Requests |-> requests[r]]
  /\ queries = [k \in Connections |-> queries[k]]

EntriesSound == \A c \in Channels : list[c] = NoRow \/ Complete(list[c])
RowsSound == \A c \in Channels : votings[c] = NoRow \/ Sound(votings[c])
RowsListed == Running => \A c \in Channels : votings[c] # NoRow => list[c] # NoRow

RequestListed(r) ==
  requests[r] # None =>
    /\ requests[r].channel \in Channels
    /\ Sound(requests[r].row)
    /\ list[requests[r].channel] # NoRow

RequestsRun == ~Running => \A r \in Requests : requests[r] = None

SaveListed(k) ==
  Holds(k, "save") =>
    /\ queries[k].channel \in Channels
    /\ DifferIfGiven(queries[k].content)
    /\ Running => list[queries[k].channel] # NoRow

\* The inductive invariant.  A row comes from a save, and a save from a request
\* that found a row or made an entry: all of them have to be listed and sound for
\* the entries to be.
EntryInv ==
  /\ Functions
  /\ EntriesSound
  /\ RowsSound
  /\ RowsListed
  /\ \A r \in Requests : RequestListed(r)
  /\ RequestsRun
  /\ \A k \in Connections : SaveListed(k)

----------------------------------------------------------------------------
(* Functions on columns                                                     *)

\* A sound row is not the absence of one, and neither is a complete entry.
LEMMA SoundIsThere ==
  ASSUME NEW f, Sound(f) \/ Complete(f)
  PROVE  f # NoRow
<1>1. "commands" \in DOMAIN f
  BY DEF Sound, Complete, EntryColumns
<1>2. DOMAIN NoRow = {}
  BY DEF NoRow, NoColumns
<1>3. QED
  BY <1>1, <1>2

\* The entry of a row: nothing of no row, and a complete one of a sound row.
LEMMA EntryOfRow ==
  /\ ForEntry(NoRow) = NoRow
  /\ \A f : Sound(f) => Complete(ForEntry(f))
<1>1. DOMAIN NoRow \cap EntryColumns = {}
  BY DEF NoRow, NoColumns
<1>2. ForEntry(NoRow) = [col \in {} |-> NoRow[col]]
  BY <1>1 DEF ForEntry
<1>3. [col \in {} |-> NoRow[col]] = [col \in {} |-> None]
  OBVIOUS
<1>4. ForEntry(NoRow) = NoRow
  BY <1>2, <1>3 DEF NoRow, NoColumns
<1>5. ASSUME NEW f, Sound(f) PROVE Complete(ForEntry(f))
  BY <1>5 DEF Sound, Complete, ForEntry, EntryColumns
<1>6. QED
  BY <1>4, <1>5

\* Differing commands put over a sound row leave it sound, and over a complete
\* entry leave it complete.
LEMMA AssignSound ==
  ASSUME NEW f, NEW g, DifferIfGiven(g)
  PROVE  /\ Sound(f) => Sound(Assign(f, g))
         /\ Complete(f) => Complete(Assign(f, ForEntry(g)))
<1>1. Sound(f) => Sound(Assign(f, g))
  BY DEF Sound, Assign, DifferIfGiven, EntryColumns
<1>2. ASSUME Complete(f) PROVE Complete(Assign(f, ForEntry(g)))
  <2>1. /\ DOMAIN ForEntry(g) = DOMAIN g \cap EntryColumns
        /\ \A col \in DOMAIN ForEntry(g) : ForEntry(g)[col] = g[col]
    BY DEF ForEntry
  <2>2. DOMAIN Assign(f, ForEntry(g)) = EntryColumns
    BY <1>2, <2>1 DEF Assign, Complete
  <2>3. Assign(f, ForEntry(g))["commands"] =
          IF "commands" \in DOMAIN g THEN g["commands"] ELSE f["commands"]
    BY <1>2, <2>1 DEF Assign, Complete, EntryColumns
  <2>4. QED
    BY <1>2, <2>2, <2>3 DEF Complete, DifferIfGiven
<1>3. QED
  BY <1>1, <1>2

LEMMA DefaultsSound == Complete(EntryDefault) /\ Sound(VotingDefault)
<1>1. Complete(EntryDefault)
  BY VotesAssumption DEF EntryDefault, Complete, EntryColumns, Differ
<1>2. Sound(EntryDefault) /\ DifferIfGiven([listening |-> FALSE])
  BY <1>1 DEF Complete, Sound, DifferIfGiven
<1>3. QED
  BY <1>1, <1>2, AssignSound DEF VotingDefault

----------------------------------------------------------------------------
(* Steps                                                                    *)

\* A statement that does not save a voting.
LEMMA IssueOther ==
  ASSUME EntryInv, NEW kind, kind # "save", NEW c, NEW content, NEW detached,
         Issue(kind, c, content, detached), UNCHANGED <<proc, list>>
  PROVE  /\ queries' = [k \in Connections |-> queries'[k]]
         /\ \A k \in Connections : SaveListed(k)'
<1>1. PICK k0 \in Connections : queries' = [queries EXCEPT ![k0] =
        [kind |-> kind, channel |-> c, content |-> content, detached |-> detached]]
  BY DEF Issue
<1>2. queries' = [k \in Connections |-> queries'[k]]
  BY <1>1 DEF EntryInv, Functions
<1>3. ASSUME NEW k \in Connections PROVE SaveListed(k)'
  <2>1. CASE k = k0
    <3>1. ~Holds(k, "save")'
      BY <1>1, <2>1 DEF EntryInv, Functions, Holds
    <3>2. QED
      BY <3>1 DEF SaveListed
  <2>2. CASE k # k0
    <3>1. queries'[k] = queries[k]
      BY <1>1, <2>2 DEF EntryInv, Functions
    <3>2. SaveListed(k)
      BY DEF EntryInv
    <3>3. QED
      BY <3>1, <3>2 DEF SaveListed, Holds, Running
  <2>3. QED
    BY <2>1, <2>2
<1>4. QED
  BY <1>2, <1>3

\* A save of a voting whose entry is in the list by then; entries do not go.
LEMMA IssueSave ==
  ASSUME EntryInv, NEW c \in Channels, NEW content, DifferIfGiven(content),
         Issue("save", c, content, FALSE), proc' = proc,
         list'[c] # NoRow,
         \A x \in Channels : list[x] # NoRow => list'[x] # NoRow
  PROVE  /\ queries' = [k \in Connections |-> queries'[k]]
         /\ \A k \in Connections : SaveListed(k)'
<1>1. PICK k0 \in Connections : queries' = [queries EXCEPT ![k0] =
        [kind |-> "save", channel |-> c, content |-> content, detached |-> FALSE]]
  BY DEF Issue
<1>2. queries' = [k \in Connections |-> queries'[k]]
  BY <1>1 DEF EntryInv, Functions
<1>3. ASSUME NEW k \in Connections PROVE SaveListed(k)'
  <2>1. CASE k = k0
    <3>1. queries'[k].channel = c /\ queries'[k].content = content
      BY <1>1, <2>1 DEF EntryInv, Functions
    <3>2. QED
      BY <3>1 DEF SaveListed
  <2>2. CASE k # k0
    <3>1. queries'[k] = queries[k]
      BY <1>1, <2>2 DEF EntryInv, Functions
    <3>2. SaveListed(k)
      BY DEF EntryInv
    <3>3. QED
      BY <3>1, <3>2 DEF SaveListed, Holds, Running
  <2>3. QED
    BY <2>1, <2>2
<1>4. QED
  BY <1>2, <1>3

\* A connection becomes free; whether the process goes on or ends.
LEMMA SettleSaves ==
  ASSUME EntryInv, NEW k0 \in Connections, Settle(k0),
         UNCHANGED <<proc, list>> \/ ~Running'
  PROVE  /\ queries' = [k \in Connections |-> queries'[k]]
         /\ \A k \in Connections : SaveListed(k)'
<1>1. queries' = [queries EXCEPT ![k0] = NoStatement]
  BY DEF Settle
<1>2. queries' = [k \in Connections |-> queries'[k]]
  BY <1>1 DEF EntryInv, Functions
<1>3. ASSUME NEW k \in Connections PROVE SaveListed(k)'
  <2>1. CASE k = k0
    <3>1. queries'[k] = NoStatement
      BY <1>1, <2>1 DEF EntryInv, Functions
    <3>2. QED
      BY <3>1 DEF SaveListed, Holds, NoStatement
  <2>2. CASE k # k0
    <3>1. queries'[k] = queries[k]
      BY <1>1, <2>2 DEF EntryInv, Functions
    <3>2. SaveListed(k)
      BY DEF EntryInv
    <3>3. QED
      BY <3>1, <3>2 DEF SaveListed, Holds, Running
  <2>3. QED
    BY <2>1, <2>2
<1>4. QED
  BY <1>2, <1>3

\* The process ends, and the rows and the votings' saves are sound as before.
LEMMA EndsInv ==
  ASSUME EntryInv, ProcessEnds, UNCHANGED votings,
         queries' = [k \in Connections |-> queries'[k]],
         \A k \in Connections : SaveListed(k)'
  PROVE  EntryInv'
<1>1. ~Running'
  BY DEF ProcessEnds, Running
<1>2. Functions'
  BY DEF EntryInv, Functions, ProcessEnds
<1>3. EntriesSound' /\ RowsSound' /\ RowsListed'
  BY <1>1 DEF EntryInv, EntriesSound, RowsSound, RowsListed, ProcessEnds
<1>4. RequestsRun' /\ \A r \in Requests : RequestListed(r)'
  BY DEF RequestsRun, RequestListed, ProcessEnds
<1>5. QED
  BY <1>2, <1>3, <1>4 DEF EntryInv

\* A step that touches neither entries nor votings, and may end a request.
LEMMA KeepsInv ==
  ASSUME EntryInv, UNCHANGED <<list, votings>>, Running' <=> Running,
         requests' = [r \in Requests |-> requests'[r]],
         \A r \in Requests : requests'[r] = None \/ requests'[r] = requests[r],
         queries' = [k \in Connections |-> queries'[k]],
         \A k \in Connections : SaveListed(k)'
  PROVE  EntryInv'
<1>1. Functions'
  BY DEF EntryInv, Functions
<1>2. EntriesSound' /\ RowsSound' /\ RowsListed'
  BY DEF EntryInv, EntriesSound, RowsSound, RowsListed
<1>3. RequestsRun' /\ \A r \in Requests : RequestListed(r)'
  BY DEF EntryInv, RequestListed, RequestsRun
<1>4. QED
  BY <1>1, <1>2, <1>3 DEF EntryInv

LEMMA UnchangedSaves ==
  ASSUME EntryInv, UNCHANGED <<list, queries>>, Running' <=> Running
  PROVE  /\ queries' = [k \in Connections |-> queries'[k]]
         /\ \A k \in Connections : SaveListed(k)'
BY DEF EntryInv, Functions, SaveListed, Holds

LEMMA InitEntries == Init => EntryInv
<1> SUFFICES ASSUME Init PROVE EntryInv
  OBVIOUS
<1>1. Functions /\ EntriesSound /\ RowsSound /\ RowsListed
  BY DEF Init, Functions, EntriesSound, RowsSound, RowsListed
<1>2. /\ \A r \in Requests : RequestListed(r)
      /\ RequestsRun
      /\ \A k \in Connections : SaveListed(k)
  BY DEF Init, RequestListed, RequestsRun, SaveListed, Holds, NoStatement
<1>3. QED
  BY <1>1, <1>2 DEF EntryInv

\* The rows are the entries of a new process.
LEMMA ModuleInitEntries ==
  ASSUME EntryInv, ModuleInit
  PROVE  EntryInv'
<1>1. /\ Functions /\ RowsSound /\ RequestsRun
      /\ ~Running
  BY DEF ModuleInit, EntryInv, Running
<1>2. /\ list' = [c \in Channels |-> ForEntry(votings[c])]
      /\ \A k \in Connections : queries[k] = NoStatement
      /\ UNCHANGED <<requests, votings, queries>>
  BY DEF ModuleInit, databaseVars
<1>3. Functions'
  BY <1>1, <1>2 DEF Functions
<1>4. ASSUME NEW c \in Channels
      PROVE  /\ list'[c] = NoRow \/ Complete(list'[c])
             /\ votings[c] # NoRow => list'[c] # NoRow
  <2>1. list'[c] = ForEntry(votings[c])
    BY <1>2
  <2>2. CASE votings[c] = NoRow
    BY <2>1, <2>2, EntryOfRow
  <2>3. CASE Sound(votings[c])
    <3>1. Complete(list'[c])
      BY <2>1, <2>3, EntryOfRow
    <3>2. QED
      BY <3>1, SoundIsThere
  <2>4. QED
    BY <1>1, <2>2, <2>3 DEF RowsSound
<1>5. EntriesSound'
  BY <1>4 DEF EntriesSound
<1>6. RowsSound' /\ RowsListed'
  BY <1>1, <1>2, <1>4 DEF RowsSound, RowsListed
<1>7. RequestsRun' /\ \A r \in Requests : RequestListed(r)'
  BY <1>1, <1>2 DEF RequestsRun, RequestListed
<1>8. \A k \in Connections : SaveListed(k)'
  BY <1>2 DEF SaveListed, Holds, NoStatement
<1>9. QED
  BY <1>3, <1>5, <1>6, <1>7, <1>8 DEF EntryInv

----------------------------------------------------------------------------
(* One lemma for each group of actions                                      *)

LEMMA ProcessEntries ==
  ASSUME EntryInv, Start \/ ModuleDestroy \/ ChatMoves
  PROVE  EntryInv'
<1>1. /\ UNCHANGED <<list, requests, votings, queries>>
      /\ Running' <=> Running
  BY DEF Start, ModuleDestroy, ChatMoves, databaseVars, Running
<1>2. Functions
  BY DEF EntryInv
<1>3. QED
  BY <1>1, <1>2, UnchangedSaves, KeepsInv DEF Functions

LEMMA EndingEntries ==
  ASSUME EntryInv, Exit \/ Crash
  PROVE  EntryInv'
<1>1. ProcessEnds /\ UNCHANGED <<votings, queries>>
  BY DEF Exit, Crash, databaseVars
<1>2. ~Running'
  BY <1>1 DEF ProcessEnds, Running
<1>3. /\ queries' = [k \in Connections |-> queries'[k]]
      /\ \A k \in Connections : SaveListed(k)'
  BY <1>1, <1>2 DEF EntryInv, Functions, SaveListed, Holds
<1>4. QED
  BY <1>1, <1>3, EndsInv

\* A voting is saved: its entry has been in the list since the request.
LEMMA SavesVotingEntries ==
  ASSUME EntryInv, NEW k0 \in Connections, SavesVoting(k0)
  PROVE  EntryInv'
<1> DEFINE c == queries[k0].channel
           base == IF votings[c] = NoRow THEN VotingDefault ELSE votings[c]
<1>1. /\ c \in Channels
      /\ DifferIfGiven(queries[k0].content)
      /\ Running => list[c] # NoRow
  BY DEF EntryInv, SaveListed, SavesVoting
<1>2. /\ UNCHANGED <<proc, list, requests>>
      /\ Settle(k0)
      /\ votings' = [votings EXCEPT ![c] = Assign(base, queries[k0].content)]
  BY DEF SavesVoting, ProcessGoesOn
<1>3. Functions
  BY DEF EntryInv
<1>4. Sound(base)
  BY <1>1, DefaultsSound DEF EntryInv, RowsSound
<1>5. Sound(Assign(base, queries[k0].content))
  BY <1>1, <1>4, AssignSound
<1> HIDE DEF base, c
<1>6. /\ votings'[c] = Assign(base, queries[k0].content)
      /\ \A x \in Channels \ {c} : votings'[x] = votings[x]
      /\ votings' = [x \in Channels |-> votings'[x]]
  BY <1>1, <1>2, <1>3 DEF Functions
<1>7. Functions'
  <2>1. queries' = [k \in Connections |-> queries'[k]]
    BY <1>2, SettleSaves
  <2>2. QED
    BY <1>2, <1>3, <1>6, <2>1 DEF Functions
<1>8. RowsSound'
  BY <1>5, <1>6 DEF EntryInv, RowsSound
<1>9. EntriesSound' /\ RowsListed'
  BY <1>1, <1>2, <1>6 DEF EntryInv, EntriesSound, RowsListed, Running
<1>10. RequestsRun' /\ \A r \in Requests : RequestListed(r)'
  BY <1>2 DEF EntryInv, RequestsRun, RequestListed, Running
<1>11. \A k \in Connections : SaveListed(k)'
  BY <1>2, SettleSaves
<1>12. QED
  BY <1>7, <1>8, <1>9, <1>10, <1>11 DEF EntryInv

LEMMA DeletesVotingEntries ==
  ASSUME EntryInv, NEW k0 \in Connections, DeletesVoting(k0)
  PROVE  EntryInv'
<1>1. /\ UNCHANGED <<proc, list, requests>>
      /\ Settle(k0)
      /\ \E c : votings' = [votings EXCEPT ![c] = NoRow]
  BY DEF DeletesVoting, ProcessGoesOn
<1>2. Functions
  BY DEF EntryInv
<1>3. /\ \A x \in Channels : votings'[x] = NoRow \/ votings'[x] = votings[x]
      /\ votings' = [x \in Channels |-> votings'[x]]
  BY <1>1, <1>2 DEF Functions
<1>4. queries' = [k \in Connections |-> queries'[k]] /\ \A k \in Connections : SaveListed(k)'
  BY <1>1, SettleSaves
<1>5. Functions'
  BY <1>1, <1>2, <1>3, <1>4 DEF Functions
<1>6. EntriesSound' /\ RowsSound' /\ RowsListed'
  BY <1>1, <1>3 DEF EntryInv, EntriesSound, RowsSound, RowsListed, Running
<1>7. RequestsRun' /\ \A r \in Requests : RequestListed(r)'
  BY <1>1 DEF EntryInv, RequestsRun, RequestListed, Running
<1>8. QED
  BY <1>4, <1>5, <1>6, <1>7 DEF EntryInv

\* The statements about votes, and those that fail.
LEMMA OtherStatementEntries ==
  ASSUME EntryInv, NEW k0 \in Connections,
         DeletesVotes(k0) \/ InsertsVote(k0) \/ UpdatesVote(k0) \/ Fails(k0)
  PROVE  EntryInv'
<1>1. Settle(k0) /\ UNCHANGED votings
  BY DEF DeletesVotes, InsertsVote, UpdatesVote, Fails, databaseVars
<1>2. UNCHANGED <<proc, list, requests>> \/ ProcessEnds
  BY DEF DeletesVotes, InsertsVote, UpdatesVote, Fails, ProcessGoesOn
<1>3. CASE UNCHANGED <<proc, list, requests>>
  <2>1. UNCHANGED <<proc, list, requests>>
    BY <1>3
  <2>2. queries' = [k \in Connections |-> queries'[k]] /\ \A k \in Connections : SaveListed(k)'
    BY <1>1, <2>1, SettleSaves
  <2>3. Functions
    BY DEF EntryInv
  <2>4. QED
    BY <1>1, <2>1, <2>2, <2>3, KeepsInv DEF Functions, Running
<1>4. CASE ProcessEnds
  <2>1. ~Running'
    BY <1>4 DEF ProcessEnds, Running
  <2>2. queries' = [k \in Connections |-> queries'[k]] /\ \A k \in Connections : SaveListed(k)'
    BY <1>1, <2>1, SettleSaves
  <2>3. QED
    BY <1>1, <1>4, <2>2, EndsInv
<1>5. QED
  BY <1>2, <1>3, <1>4

LEMMA SelectsVoteEntries ==
  ASSUME TypeOK, EntryInv, NEW k0 \in Connections, SelectsVote(k0)
  PROVE  EntryInv'
<1>1. UNCHANGED <<proc, list, requests, votings>>
  BY DEF SelectsVote, ProcessGoesOn, databaseVars
<1>2. PICK kind \in {"insert", "update"} :
        queries' = [queries EXCEPT ![k0] =
          [kind |-> kind, channel |-> queries[k0].channel,
           content |-> queries[k0].content, detached |-> queries[k0].detached]]
  BY SelectTyped
<1>3. Functions
  BY DEF EntryInv
<1>4. /\ queries'[k0].kind = kind
      /\ \A k \in Connections \ {k0} : queries'[k] = queries[k]
      /\ queries' = [k \in Connections |-> queries'[k]]
  BY <1>2, <1>3 DEF Functions
<1>5. ASSUME NEW k \in Connections PROVE SaveListed(k)'
  <2>1. CASE k = k0
    <3>1. ~Holds(k, "save")'
      BY <1>2, <1>4, <2>1 DEF Holds
    <3>2. QED
      BY <3>1 DEF SaveListed
  <2>2. CASE k # k0
    BY <1>1, <1>4, <2>2 DEF EntryInv, SaveListed, Holds, Running
  <2>3. QED
    BY <2>1, <2>2
<1>6. QED
  BY <1>1, <1>3, <1>4, <1>5, KeepsInv DEF Functions, Running

\* A create makes a complete entry before it sends the save.
LEMMA AddChatVotingEntries ==
  ASSUME EntryInv, NEW c \in Channels, NEW data, AddChatVoting(c, data)
  PROVE  EntryInv'
<1>1. /\ UNCHANGED <<proc, requests, votings>>
      /\ DifferIfGiven(data)
      /\ list' = [list EXCEPT ![c] = Assign(EntryDefault, ForEntry(data))]
      /\ Issue("save", c, data, FALSE)
  BY DEF AddChatVoting, IsValid, DifferIfGiven, Differ, databaseVars
<1>2. Complete(Assign(EntryDefault, ForEntry(data)))
  BY <1>1, DefaultsSound, AssignSound
<1>3. Functions
  BY DEF EntryInv
<1>4. /\ list' = [x \in Channels |-> list'[x]]
      /\ list'[c] = Assign(EntryDefault, ForEntry(data))
      /\ \A x \in Channels \ {c} : list'[x] = list[x]
  BY <1>1, <1>3 DEF Functions
<1>5. list'[c] # NoRow
  BY <1>2, <1>4, SoundIsThere
<1>6. \A x \in Channels : list[x] # NoRow => list'[x] # NoRow
  BY <1>4, <1>5
<1>7. queries' = [k \in Connections |-> queries'[k]] /\ \A k \in Connections : SaveListed(k)'
  BY <1>1, <1>5, <1>6, IssueSave
<1>8. Functions'
  BY <1>1, <1>3, <1>4, <1>7 DEF Functions
<1>9. EntriesSound'
  BY <1>2, <1>4 DEF EntryInv, EntriesSound
<1>10. RowsSound' /\ RowsListed'
  BY <1>1, <1>6 DEF EntryInv, RowsSound, RowsListed, Running
<1>11. RequestsRun' /\ \A r \in Requests : RequestListed(r)'
  BY <1>1, <1>6 DEF EntryInv, RequestsRun, RequestListed, Running
<1>12. QED
  BY <1>7, <1>8, <1>9, <1>10, <1>11 DEF EntryInv

\* A request finds a row, hence an entry.
LEMMA RequestReadsEntries ==
  ASSUME EntryInv, NEW r0 \in Requests, NEW c \in Channels, RequestReads(r0, c)
  PROVE  EntryInv'
<1>1. /\ Running /\ votings[c] # NoRow
      /\ UNCHANGED <<proc, list, votings, queries>>
      /\ requests' = [requests EXCEPT ![r0] = [channel |-> c, row |-> votings[c]]]
  BY DEF RequestReads, databaseVars
<1>2. Functions
  BY DEF EntryInv
<1>3. Sound(votings[c]) /\ list[c] # NoRow
  BY <1>1 DEF EntryInv, RowsSound, RowsListed
<1>4. ASSUME NEW r \in Requests PROVE RequestListed(r)'
  <2>1. CASE r = r0
    <3>1. requests'[r] = [channel |-> c, row |-> votings[c]]
      BY <1>1, <1>2, <2>1 DEF Functions
    <3>2. QED
      BY <1>1, <1>3, <3>1 DEF RequestListed
  <2>2. CASE r # r0
    <3>1. requests'[r] = requests[r]
      BY <1>1, <1>2, <2>2 DEF Functions
    <3>2. QED
      BY <1>1, <3>1 DEF EntryInv, RequestListed
  <2>3. QED
    BY <2>1, <2>2
<1>5. Functions'
  BY <1>1, <1>2 DEF Functions
<1>6. EntriesSound' /\ RowsSound' /\ RowsListed' /\ RequestsRun'
  BY <1>1 DEF EntryInv, EntriesSound, RowsSound, RowsListed, RequestsRun, Running
<1>7. \A k \in Connections : SaveListed(k)'
  BY <1>1, UnchangedSaves DEF Running
<1>8. QED
  BY <1>4, <1>5, <1>6, <1>7 DEF EntryInv

\* An update brings what differs over an entry that is there, and over a row that
\* was sound when it was read.
LEMMA UpdateChatVotingEntries ==
  ASSUME EntryInv, NEW r0 \in Requests, NEW data, UpdateChatVoting(r0, data)
  PROVE  EntryInv'
<1>1. PICK c : c = requests[r0].channel
  OBVIOUS
<1>2. /\ UNCHANGED <<proc, votings>>
      /\ requests[r0] # None
      /\ requests' = [requests EXCEPT ![r0] = None]
      /\ DifferIfGiven(data)
      /\ list' = [list EXCEPT ![c] = Assign(@, ForEntry(data))]
      /\ Issue("save", c, Assign(requests[r0].row, data), FALSE)
  BY <1>1 DEF UpdateChatVoting, RequestEnds, IsValid, DifferIfGiven, Differ, databaseVars
<1>3. c \in Channels /\ Sound(requests[r0].row) /\ list[c] # NoRow
  BY <1>1, <1>2 DEF EntryInv, RequestListed
<1>4. Complete(list[c])
  BY <1>3 DEF EntryInv, EntriesSound
<1>5. Complete(Assign(list[c], ForEntry(data))) /\ Sound(Assign(requests[r0].row, data))
  BY <1>2, <1>3, <1>4, AssignSound
<1>6. Functions
  BY DEF EntryInv
<1>7. /\ list' = [x \in Channels |-> list'[x]]
      /\ list'[c] = Assign(list[c], ForEntry(data))
      /\ \A x \in Channels \ {c} : list'[x] = list[x]
  BY <1>2, <1>3, <1>6 DEF Functions
<1>8. list'[c] # NoRow
  BY <1>5, <1>7, SoundIsThere
<1>9. \A x \in Channels : list[x] # NoRow => list'[x] # NoRow
  BY <1>7, <1>8
<1>10. DifferIfGiven(Assign(requests[r0].row, data))
  BY <1>5 DEF Sound, DifferIfGiven
<1>11. queries' = [k \in Connections |-> queries'[k]] /\ \A k \in Connections : SaveListed(k)'
  BY <1>2, <1>3, <1>8, <1>9, <1>10, IssueSave
<1>12. Functions'
  BY <1>2, <1>6, <1>7, <1>11 DEF Functions
<1>13. EntriesSound'
  BY <1>5, <1>7 DEF EntryInv, EntriesSound
<1>14. RowsSound' /\ RowsListed'
  BY <1>2, <1>9 DEF EntryInv, RowsSound, RowsListed, Running
<1>15. \A r \in Requests : requests'[r] = None \/ requests'[r] = requests[r]
  BY <1>2, <1>6 DEF Functions
<1>16. RequestsRun' /\ \A r \in Requests : RequestListed(r)'
  BY <1>2, <1>9, <1>15 DEF EntryInv, RequestsRun, RequestListed, Running
<1>17. QED
  BY <1>11, <1>12, <1>13, <1>14, <1>16 DEF EntryInv

\* The requests and messages that change neither entries nor saves of votings.
LEMMA OtherRequestEntries ==
  ASSUME EntryInv, NEW r0 \in Requests,
         RequestRejected(r0) \/ DeleteChatVoting(r0) \/ ClearChatVotes(r0)
  PROVE  EntryInv'
<1>1. /\ UNCHANGED <<proc, list, votings>>
      /\ requests' = [requests EXCEPT ![r0] = None]
  BY DEF RequestRejected, DeleteChatVoting, ClearChatVotes, RequestEnds, databaseVars
<1>2. Functions
  BY DEF EntryInv
<1>3. /\ requests' = [r \in Requests |-> requests'[r]]
      /\ \A r \in Requests : requests'[r] = None \/ requests'[r] = requests[r]
  BY <1>1, <1>2 DEF Functions
<1>4. queries' = [k \in Connections |-> queries'[k]] /\ \A k \in Connections : SaveListed(k)'
  <2>1. CASE RequestRejected(r0)
    BY <1>1, <2>1, UnchangedSaves DEF RequestRejected, Running
  <2>2. CASE DeleteChatVoting(r0)
    <3>1. PICK c : Issue("delete", c, NoColumns, FALSE)
      BY <2>2 DEF DeleteChatVoting
    <3>2. QED
      BY <1>1, <3>1, IssueOther
  <2>3. CASE ClearChatVotes(r0)
    <3>1. PICK c : Issue("clear", c, NoColumns, FALSE)
      BY <2>3 DEF ClearChatVotes
    <3>2. QED
      BY <1>1, <3>1, IssueOther
  <2>4. QED
    BY <2>1, <2>2, <2>3
<1>5. QED
  BY <1>1, <1>3, <1>4, KeepsInv DEF Running

LEMMA MessageEntries ==
  ASSUME EntryInv, NEW c \in Channels, NEW u, NEW m, NEW hasAccess,
         ClearMessage(c, m) \/ ClearAnswered(c, hasAccess) \/ VoteMessage(c, u, m)
  PROVE  EntryInv'
<1>1. UNCHANGED <<proc, list, requests, votings>>
  BY DEF ClearMessage, ClearAnswered, VoteMessage, databaseVars
<1>2. Functions
  BY DEF EntryInv
<1>3. queries' = [k \in Connections |-> queries'[k]] /\ \A k \in Connections : SaveListed(k)'
  <2>1. CASE UNCHANGED queries
    BY <1>1, <2>1, UnchangedSaves DEF Running
  <2>2. CASE \E content : Issue("clear", c, content, TRUE) \/ Issue("select", c, content, TRUE)
    BY <1>1, <2>2, IssueOther
  <2>3. QED
    BY <2>1, <2>2 DEF ClearMessage, ClearAnswered, VoteMessage
<1>4. QED
  BY <1>1, <1>2, <1>3, KeepsInv DEF Functions, Running

LEMMA NextEntries == TypeOK /\ EntryInv /\ [Next]_vars => EntryInv'
<1> SUFFICES ASSUME TypeOK, EntryInv, [Next]_vars PROVE EntryInv'
  OBVIOUS
<1>1. CASE Start \/ ModuleDestroy \/ ChatMoves
  BY <1>1, ProcessEntries
<1>2. CASE ModuleInit
  BY <1>2, ModuleInitEntries
<1>3. CASE Exit \/ Crash
  BY <1>3, EndingEntries
<1>4. ASSUME NEW k \in Connections, SavesVoting(k) PROVE EntryInv'
  BY <1>4, SavesVotingEntries
<1>5. ASSUME NEW k \in Connections, DeletesVoting(k) PROVE EntryInv'
  BY <1>5, DeletesVotingEntries
<1>6. ASSUME NEW k \in Connections, SelectsVote(k) PROVE EntryInv'
  BY <1>6, SelectsVoteEntries
<1>7. ASSUME NEW k \in Connections,
             DeletesVotes(k) \/ InsertsVote(k) \/ UpdatesVote(k) \/ Fails(k)
      PROVE  EntryInv'
  BY <1>7, OtherStatementEntries
<1>8. ASSUME NEW c \in Channels, NEW data \in CreateInputs, AddChatVoting(c, data)
      PROVE  EntryInv'
  BY <1>8, AddChatVotingEntries
<1>9. ASSUME NEW c \in Channels, NEW r \in Requests, RequestReads(r, c) PROVE EntryInv'
  BY <1>9, RequestReadsEntries
<1>10. ASSUME NEW c \in Channels, NEW m \in Messages, ClearMessage(c, m) PROVE EntryInv'
  BY <1>10, MessageEntries
<1>11. ASSUME NEW c \in Channels, NEW hasAccess \in BOOLEAN, ClearAnswered(c, hasAccess)
       PROVE  EntryInv'
  BY <1>11, MessageEntries
<1>12. ASSUME NEW c \in Channels, NEW u \in Viewers, NEW m \in Messages,
              VoteMessage(c, u, m)
       PROVE  EntryInv'
  BY <1>12, MessageEntries
<1>13. ASSUME NEW r \in Requests, NEW data \in UpdateInputs, UpdateChatVoting(r, data)
       PROVE  EntryInv'
  BY <1>13, UpdateChatVotingEntries
<1>14. ASSUME NEW r \in Requests,
              RequestRejected(r) \/ DeleteChatVoting(r) \/ ClearChatVotes(r)
       PROVE  EntryInv'
  BY <1>14, OtherRequestEntries
<1>15. CASE UNCHANGED vars
  <2>1. UNCHANGED <<proc, list, requests, votings, queries>>
    BY <1>15 DEF vars, databaseVars
  <2>2. Functions
    BY DEF EntryInv
  <2>3. QED
    BY <2>1, <2>2, UnchangedSaves, KeepsInv DEF Functions, Running
<1>16. QED
  BY <1>1, <1>2, <1>3, <1>4, <1>5, <1>6, <1>7, <1>8, <1>9, <1>10, <1>11, <1>12, <1>13,
     <1>14, <1>15 DEF Next

LEMMA EntryInvHolds == Spec => []EntryInv
<1>1. QED
  BY VotesTypeCorrect, InitEntries, NextEntries, PTL DEF Spec

\* The chat handler finds a voting's entry whenever there is a row, and both
\* columns in it, whatever creates, updates, deletes, votes and crashes there were.
THEOREM EntriesStayComplete == Spec => []EntriesComplete
<1>1. EntryInv => EntriesComplete
  BY DEF EntryInv, EntriesSound, RowsListed, RequestListed, EntriesComplete, Complete, Differ
<1>2. QED
  BY <1>1, EntryInvHolds, PTL

----------------------------------------------------------------------------
(* Statements and the rows they write                                       *)

LEMMA KeysDiffer ==
  ASSUME NEW c, NEW d, NEW u, NEW v
  PROVE  /\ <<c>> # <<d, v>>
         /\ <<c>> = <<d>> <=> c = d
         /\ <<c, u>> = <<d, v>> <=> c = d /\ u = v
OBVIOUS

\* What is in flight says of itself what it is.
LEMMA StatementKind ==
  ASSUME NEW q, q = NoStatement \/ StatementOK(q)
  PROVE  q.kind \in {"none", "save", "delete", "clear"} \cup VoteKinds
BY DEF NoStatement, StatementOK

\* Which statements write a voting.
LEMMA VotingWriters ==
  ASSUME NEW q, q = NoStatement \/ StatementOK(q), NEW c
  PROVE  <<c>> \in RowsOf(q) <=> q.kind \in {"save", "delete"} /\ q.channel = c
<1>1. CASE q.kind \in {"none", "clear"}
  BY <1>1, KeysDiffer DEF RowsOf
<1>2. CASE q.kind \in {"save", "delete"}
  <2>1. <<c>> \notin {q.channel} \X Viewers /\ (<<c>> = <<q.channel>> <=> c = q.channel)
    BY KeysDiffer
  <2>2. QED
    BY <1>2, <2>1 DEF RowsOf
<1>3. CASE q.kind \in VoteKinds
  <2>1. RowsOf(q) = {<<q.channel, q.content.viewer>>}
    BY <1>3 DEF RowsOf, VoteKinds
  <2>2. QED
    BY <1>3, <2>1, KeysDiffer DEF VoteKinds
<1>4. QED
  BY <1>1, <1>2, <1>3, StatementKind

\* Which statements write a vote.
LEMMA VoteWriters ==
  ASSUME NEW q, q = NoStatement \/ StatementOK(q), NEW c, NEW u \in Viewers
  PROVE  <<c, u>> \in RowsOf(q) <=>
           /\ q.kind \in {"delete", "clear"} \cup VoteKinds
           /\ q.channel = c
           /\ q.kind \in VoteKinds => q.content.viewer = u
<1>1. CASE q.kind \in {"none", "save"}
  BY <1>1, KeysDiffer DEF RowsOf, VoteKinds
<1>2. CASE q.kind \in {"delete", "clear"}
  <2>1. /\ <<c, u>> # <<q.channel>>
        /\ <<c, u>> \in {q.channel} \X Viewers <=> c = q.channel
    BY KeysDiffer
  <2>2. QED
    BY <1>2, <2>1 DEF RowsOf, VoteKinds
<1>3. CASE q.kind \in VoteKinds
  <2>1. RowsOf(q) = {<<q.channel, q.content.viewer>>}
    BY <1>3 DEF RowsOf, VoteKinds
  <2>2. QED
    BY <1>3, <2>1, KeysDiffer DEF VoteKinds
<1>4. QED
  BY <1>1, <1>2, <1>3, StatementKind

LEMMA NothingWritten == RowsOf(NoStatement) = {}
<1>1. NoStatement.kind = "none"
  BY DEF NoStatement
<1>2. QED
  BY <1>1 DEF RowsOf

OneAtATime(row) ==
  \A k1, k2 \in Connections :
    row \in RowsOf(queries[k1]) /\ row \in RowsOf(queries[k2]) => k1 = k2

\* The statements about a row go on as they were, or to other rows.
SameStatements(row) ==
  /\ row \notin adrift' => row \notin adrift
  /\ \A k \in Connections :
       \/ queries'[k] = queries[k]
       \/ row \notin RowsOf(queries'[k]) /\ row \notin RowsOf(queries[k])

\* A statement is the only one about its row that is in flight.
OnlyStatement(row, q) ==
  /\ OneAtATime(row)
  /\ Busy(row)
  /\ \A k \in Connections : row \in RowsOf(queries[k]) => queries[k] = q

LEMMA IssueRows ==
  ASSUME TypeOK, NEW kind, NEW c, NEW content, NEW detached,
         Issue(kind, c, content, detached), NEW q,
         q = [kind |-> kind, channel |-> c, content |-> content, detached |-> detached],
         NEW row
  PROVE  /\ row \notin RowsOf(q) => SameStatements(row)
         /\ row \in RowsOf(q) /\ row \notin adrift' =>
              /\ OnlyStatement(row, q)'
              /\ ~Busy(row)
              /\ kind = "save" => row \notin adrift
<1>1. /\ \E k \in Connections :
           queries[k] = NoStatement /\ queries' = [queries EXCEPT ![k] = q]
      /\ adrift' = (IF kind = "save" THEN adrift ELSE adrift \ RowsOf(q))
                     \cup {x \in RowsOf(q) : Busy(x)}
  BY DEF Issue
<1>2. PICK k0 \in Connections :
        queries[k0] = NoStatement /\ queries' = [queries EXCEPT ![k0] = q]
  BY <1>1
<1>3. queries'[k0] = q /\ \A k \in Connections \ {k0} : queries'[k] = queries[k]
  BY <1>2 DEF TypeOK, QueriesOK
<1>4. row \notin RowsOf(queries[k0])
  BY <1>2, NothingWritten
<1>5. ASSUME row \notin RowsOf(q) PROVE SameStatements(row)
  <2>1. row \notin adrift' => row \notin adrift
    BY <1>1, <1>5
  <2>2. QED
    BY <1>3, <1>4, <1>5, <2>1 DEF SameStatements
<1>6. ASSUME row \in RowsOf(q), row \notin adrift'
      PROVE  /\ OnlyStatement(row, q)'
             /\ ~Busy(row)
             /\ kind = "save" => row \notin adrift
  <2>1. ~Busy(row) /\ (kind = "save" => row \notin adrift)
    BY <1>1, <1>6
  <2>2. \A k \in Connections \ {k0} : row \notin RowsOf(queries'[k])
    BY <1>3, <2>1 DEF Busy
  <2>3. OneAtATime(row)' /\ Busy(row)'
    BY <1>3, <1>6, <2>2 DEF OneAtATime, Busy
  <2>4. QED
    BY <1>3, <2>1, <2>2, <2>3 DEF OnlyStatement
<1>7. QED
  BY <1>5, <1>6

LEMMA SettleRows ==
  ASSUME TypeOK, NEW k0 \in Connections, Settle(k0), adrift \subseteq adrift', NEW row
  PROVE  /\ row \notin RowsOf(queries[k0]) => SameStatements(row)
         /\ row \in RowsOf(queries[k0]) /\ OneAtATime(row) => ~Busy(row)'
<1>1. queries'[k0] = NoStatement /\ \A k \in Connections \ {k0} : queries'[k] = queries[k]
  BY DEF Settle, TypeOK, QueriesOK
<1>2. row \notin RowsOf(queries'[k0])
  BY <1>1, NothingWritten
<1>3. row \notin RowsOf(queries[k0]) => SameStatements(row)
  BY <1>1, <1>2 DEF SameStatements
<1>4. ASSUME row \in RowsOf(queries[k0]), OneAtATime(row) PROVE ~Busy(row)'
  <2>1. \A k \in Connections \ {k0} : row \notin RowsOf(queries[k])
    BY <1>4 DEF OneAtATime
  <2>2. QED
    BY <1>1, <1>2, <2>1 DEF Busy
<1>5. QED
  BY <1>3, <1>4

LEMMA NoStatementRows ==
  ASSUME \A k \in Connections : queries[k] = NoStatement, NEW row
  PROVE  ~Busy(row) /\ OneAtATime(row)
BY NothingWritten DEF Busy, OneAtATime

LEMMA SameRows == ASSUME UNCHANGED <<queries, adrift>>, NEW row PROVE SameStatements(row)
BY DEF SameStatements

----------------------------------------------------------------------------
(* Votes                                                                    *)

\* What a statement about a vote will leave is what should count.
BringsVote(q, c, u) ==
  /\ q.kind \in {"delete", "clear"} => said[c][u] = None
  /\ q.kind \in VoteKinds => q.content.message = said[c][u]
  /\ q.kind = "insert" => votes[c][u] = None
  /\ q.kind = "update" => votes[c][u] # None

\* The inductive invariant of a vote: VotesFollowChat speaks of votes nothing is in
\* flight about; before that, the one statement that is brings what was said.
VoteKept(c, u) ==
  Running /\ <<c, u>> \notin adrift =>
    /\ OneAtATime(<<c, u>>)
    /\ \A k \in Connections :
         <<c, u>> \in RowsOf(queries[k]) => BringsVote(queries[k], c, u)
    /\ ~Busy(<<c, u>>) => votes[c][u] = said[c][u]

VotesKept == \A c \in Channels, u \in Viewers : VoteKept(c, u)

LEMMA VoteUntouched ==
  ASSUME NEW c \in Channels, NEW u \in Viewers, VoteKept(c, u), SameStatements(<<c, u>>),
         Running' => Running, votes'[c][u] = votes[c][u], said'[c][u] = said[c][u]
  PROVE  VoteKept(c, u)'
<1> SUFFICES ASSUME Running', <<c, u>> \notin adrift'
             PROVE  /\ OneAtATime(<<c, u>>)'
                    /\ \A k \in Connections :
                         <<c, u>> \in RowsOf(queries'[k]) => BringsVote(queries[k], c, u)'
                    /\ ~Busy(<<c, u>>)' => votes'[c][u] = said'[c][u]
  BY DEF VoteKept
<1>1. <<c, u>> \notin adrift
  BY DEF SameStatements
<1>2. /\ OneAtATime(<<c, u>>)
      /\ \A k \in Connections :
           <<c, u>> \in RowsOf(queries[k]) => BringsVote(queries[k], c, u)
      /\ ~Busy(<<c, u>>) => votes[c][u] = said[c][u]
  BY <1>1 DEF VoteKept
<1>3. \A k \in Connections : <<c, u>> \in RowsOf(queries'[k]) => queries'[k] = queries[k]
  BY DEF SameStatements
<1>4. OneAtATime(<<c, u>>)'
  BY <1>2, <1>3 DEF OneAtATime
<1>5. ASSUME NEW k \in Connections, <<c, u>> \in RowsOf(queries'[k])
      PROVE  BringsVote(queries[k], c, u)'
  <2>1. queries'[k] = queries[k]
    BY <1>3, <1>5
  <2>2. BringsVote(queries[k], c, u)
    BY <1>2, <1>5, <2>1
  <2>3. QED
    BY <2>1, <2>2 DEF BringsVote
<1>6. ~Busy(<<c, u>>)' => ~Busy(<<c, u>>)
  BY DEF SameStatements, Busy
<1>7. QED
  BY <1>2, <1>4, <1>5, <1>6

\* A step about other things than votes, statements and the process.
LEMMA VotesUntouched ==
  ASSUME VotesKept, Running' => Running, UNCHANGED <<queries, adrift, votes, said>>
  PROVE  VotesKept'
<1>1. ASSUME NEW c \in Channels, NEW u \in Viewers PROVE VoteKept(c, u)'
  <2>1. VoteKept(c, u) /\ SameStatements(<<c, u>>)
    BY SameRows DEF VotesKept
  <2>2. votes'[c][u] = votes[c][u] /\ said'[c][u] = said[c][u]
    OBVIOUS
  <2>3. QED
    BY <2>1, <2>2, VoteUntouched
<1>2. QED
  BY <1>1 DEF VotesKept

LEMMA VotesEnd == ASSUME ~Running' PROVE VotesKept'
BY DEF VotesKept, VoteKept

\* A statement is sent that brings what is said about the rows it writes.
LEMMA VotesIssued ==
  ASSUME TypeOK, VotesKept, Running' => Running, votes' = votes,
         NEW kind, NEW c0 \in Channels, NEW content, NEW detached,
         Issue(kind, c0, content, detached), NEW q,
         q = [kind |-> kind, channel |-> c0, content |-> content, detached |-> detached],
         StatementOK(q), kind \notin {"insert", "update"},
         \A c \in Channels, u \in Viewers :
           IF <<c, u>> \in RowsOf(q)
           THEN said'[c][u] = IF kind = "select" THEN content.message ELSE None
           ELSE said'[c][u] = said[c][u]
  PROVE  VotesKept'
<1>1. ASSUME NEW c \in Channels, NEW u \in Viewers PROVE VoteKept(c, u)'
  <2>1. CASE <<c, u>> \notin RowsOf(q)
    <3>1. SameStatements(<<c, u>>)
      BY <2>1, IssueRows
    <3>2. said'[c][u] = said[c][u] /\ votes'[c][u] = votes[c][u] /\ VoteKept(c, u)
      BY <2>1 DEF VotesKept
    <3>3. QED
      BY <3>1, <3>2, VoteUntouched
  <2>2. CASE <<c, u>> \in RowsOf(q)
    <3> SUFFICES ASSUME <<c, u>> \notin adrift' PROVE VoteKept(c, u)'
      BY DEF VoteKept
    <3>1. OnlyStatement(<<c, u>>, q)'
      BY <2>2, IssueRows
    <3>2. said'[c][u] = IF kind = "select" THEN content.message ELSE None
      BY <2>2
    <3>3. q.kind = kind /\ q.content = content
      OBVIOUS
    <3>4. kind \in {"delete", "clear", "select"}
      BY <2>2, <3>3, VoteWriters DEF VoteKinds
    <3>5. ASSUME NEW k \in Connections, <<c, u>> \in RowsOf(queries'[k])
          PROVE  BringsVote(queries[k], c, u)'
      <4>1. queries'[k] = q
        BY <3>1, <3>5 DEF OnlyStatement
      <4>2. QED
        BY <3>2, <3>3, <3>4, <4>1 DEF BringsVote, VoteKinds
    <3>6. OneAtATime(<<c, u>>)' /\ Busy(<<c, u>>)'
      BY <3>1 DEF OnlyStatement
    <3>7. QED
      BY <3>5, <3>6 DEF VoteKept
  <2>3. QED
    BY <2>1, <2>2
<1>2. QED
  BY <1>1 DEF VotesKept

\* A statement about votes is over, and they are what was said.
LEMMA VotesSettled ==
  ASSUME TypeOK, VotesKept, Running' => Running, NEW k0 \in Connections, Settle(k0),
         adrift' = adrift, said' = said,
         \A c \in Channels, u \in Viewers :
           IF <<c, u>> \in RowsOf(queries[k0])
           THEN Running /\ BringsVote(queries[k0], c, u) => votes'[c][u] = said[c][u]
           ELSE votes'[c][u] = votes[c][u]
  PROVE  VotesKept'
<1>1. ASSUME NEW c \in Channels, NEW u \in Viewers PROVE VoteKept(c, u)'
  <2>1. VoteKept(c, u)
    BY DEF VotesKept
  <2>2. CASE <<c, u>> \notin RowsOf(queries[k0])
    <3>1. SameStatements(<<c, u>>)
      BY <2>2, SettleRows
    <3>2. said'[c][u] = said[c][u] /\ votes'[c][u] = votes[c][u]
      BY <2>2
    <3>3. QED
      BY <2>1, <3>1, <3>2, VoteUntouched
  <2>3. CASE <<c, u>> \in RowsOf(queries[k0])
    <3> SUFFICES ASSUME Running', <<c, u>> \notin adrift PROVE VoteKept(c, u)'
      BY DEF VoteKept
    <3>1. OneAtATime(<<c, u>>) /\ BringsVote(queries[k0], c, u)
      BY <2>1, <2>3 DEF VoteKept
    <3>2. votes'[c][u] = said'[c][u]
      BY <2>3, <3>1
    <3>3. ~Busy(<<c, u>>)'
      BY <2>3, <3>1, SettleRows
    <3>4. OneAtATime(<<c, u>>)'
          /\ \A k \in Connections : <<c, u>> \notin RowsOf(queries'[k])
      BY <3>3 DEF Busy, OneAtATime
    <3>5. QED
      BY <3>2, <3>4 DEF VoteKept
  <2>4. QED
    BY <2>2, <2>3
<1>2. QED
  BY <1>1 DEF VotesKept

LEMMA LifeVotes ==
  ASSUME TypeOK, VotesKept,
         Start \/ ModuleInit \/ ModuleDestroy \/ Exit \/ Crash \/ ChatMoves
  PROVE  VotesKept'
<1>1. CASE Exit \/ Crash
  BY <1>1, VotesEnd DEF Exit, Crash, ProcessEnds, Running
<1>2. CASE Start \/ ModuleDestroy \/ ChatMoves
  <2>1. UNCHANGED <<queries, adrift, votes, said>> /\ (Running' => Running)
    BY <1>2 DEF Start, ModuleDestroy, ChatMoves, databaseVars, historyVars, Running
  <2>2. QED
    BY <2>1, VotesUntouched
<1>3. CASE ModuleInit
  <2>1. /\ \A k \in Connections : queries'[k] = NoStatement
        /\ said' = votes' /\ votes' = votes
    BY <1>3 DEF ModuleInit, databaseVars
  <2>2. ASSUME NEW c \in Channels, NEW u \in Viewers PROVE VoteKept(c, u)'
    <3>1. \A k \in Connections : <<c, u>> \notin RowsOf(queries'[k])
      BY <2>1, NothingWritten
    <3>2. OneAtATime(<<c, u>>)'
      BY <3>1 DEF OneAtATime
    <3>3. QED
      BY <2>1, <3>1, <3>2 DEF VoteKept
  <2>3. QED
    BY <2>2 DEF VotesKept
<1>4. QED
  BY <1>1, <1>2, <1>3

\* A statement that is over and is not about votes.
LEMMA OtherSettled ==
  ASSUME TypeOK, VotesKept, NEW k0 \in Connections, Settle(k0),
         Running' => Running, UNCHANGED <<votes, said>>, adrift \subseteq adrift',
         \A c \in Channels, u \in Viewers :
           <<c, u>> \in RowsOf(queries[k0]) => <<c, u>> \in adrift'
  PROVE  VotesKept'
<1>1. ASSUME NEW c \in Channels, NEW u \in Viewers PROVE VoteKept(c, u)'
  <2>1. VoteKept(c, u)
    BY DEF VotesKept
  <2>2. CASE <<c, u>> \in RowsOf(queries[k0])
    <3>1. <<c, u>> \in adrift'
      BY <2>2
    <3>2. QED
      BY <3>1 DEF VoteKept
  <2>3. CASE <<c, u>> \notin RowsOf(queries[k0])
    <3>1. SameStatements(<<c, u>>)
      BY <2>3, SettleRows
    <3>2. votes'[c][u] = votes[c][u] /\ said'[c][u] = said[c][u]
      OBVIOUS
    <3>3. QED
      BY <2>1, <3>1, <3>2, VoteUntouched
  <2>4. QED
    BY <2>2, <2>3
<1>2. QED
  BY <1>1 DEF VotesKept

\* What is in flight is a statement of the right shape.
LEMMA HeldStatement ==
  ASSUME TypeOK, NEW k \in Connections, NEW kind, Holds(k, kind),
         kind \in {"save", "delete", "clear"} \cup VoteKinds
  PROVE  StatementOK(queries[k]) /\ queries[k].kind = kind
BY DEF TypeOK, QueriesOK, Holds, NoStatement, VoteKinds

LEMMA SavesVotingVotes ==
  ASSUME TypeOK, VotesKept, NEW k \in Connections, SavesVoting(k)
  PROVE  VotesKept'
<1>1. /\ Holds(k, "save") /\ Settle(k)
      /\ UNCHANGED <<votes, proc, said, adrift>>
  BY DEF SavesVoting, ProcessGoesOn, historyVars
<1>2. StatementOK(queries[k]) /\ queries[k].kind = "save"
  BY <1>1, HeldStatement
<1>3. \A c \in Channels, u \in Viewers : <<c, u>> \notin RowsOf(queries[k])
  BY <1>2, VoteWriters DEF VoteKinds
<1>4. QED
  BY <1>1, <1>3, OtherSettled DEF Running

LEMMA ClearedVotes ==
  ASSUME TypeOK, VotesKept, NEW k \in Connections, DeletesVoting(k) \/ DeletesVotes(k)
  PROVE  VotesKept'
<1>1. /\ Settle(k) /\ UNCHANGED <<proc, said, adrift>>
      /\ votes' = [votes EXCEPT ![queries[k].channel] = NoVotes]
  BY DEF DeletesVoting, DeletesVotes, ProcessGoesOn, historyVars
<1>2. PICK kind \in {"delete", "clear"} : Holds(k, kind)
  BY DEF DeletesVoting, DeletesVotes
<1>3. StatementOK(queries[k]) /\ queries[k].kind = kind
  BY <1>2, HeldStatement
<1>4. queries[k].channel \in Channels
  BY <1>3 DEF StatementOK
<1>5. ASSUME NEW c \in Channels, NEW u \in Viewers
      PROVE  IF <<c, u>> \in RowsOf(queries[k])
             THEN Running /\ BringsVote(queries[k], c, u) => votes'[c][u] = said[c][u]
             ELSE votes'[c][u] = votes[c][u]
  <2>1. <<c, u>> \in RowsOf(queries[k]) <=> queries[k].channel = c
    BY <1>2, <1>3, VoteWriters DEF VoteKinds
  <2>2. votes'[c][u] = IF queries[k].channel = c THEN None ELSE votes[c][u]
    BY <1>1, <1>4 DEF TypeOK, VotesOK, NoVotes
  <2>3. BringsVote(queries[k], c, u) => said[c][u] = None
    BY <1>2, <1>3 DEF BringsVote
  <2>4. QED
    BY <2>1, <2>2, <2>3
<1>6. QED
  BY <1>1, <1>5, VotesSettled DEF Running

\* A vote is stored: it is the last one said, and what was to be there is.
LEMMA StoresVoteVotes ==
  ASSUME TypeOK, VotesKept, NEW k \in Connections, InsertsVote(k) \/ UpdatesVote(k)
  PROVE  VotesKept'
<1>1. CASE ProcessEnds
  BY <1>1, VotesEnd DEF ProcessEnds, Running
<1> DEFINE c0 == queries[k].channel
           u0 == queries[k].content.viewer
           m0 == queries[k].content.message
<1>2. CASE ProcessGoesOn
  <2>1. Settle(k) /\ UNCHANGED <<proc, said, adrift>>
    BY <1>2 DEF InsertsVote, UpdatesVote, ProcessGoesOn, historyVars
  <2>2. PICK kind \in {"insert", "update"} :
          Holds(k, kind) /\ IF kind = "insert" THEN InsertsVote(k) ELSE UpdatesVote(k)
    BY DEF InsertsVote, UpdatesVote
  <2>3. StatementOK(queries[k]) /\ queries[k].kind = kind
    BY <2>2, HeldStatement DEF VoteKinds
  <2>4. c0 \in Channels /\ u0 \in Viewers /\ m0 \in Messages
    BY <2>2, <2>3 DEF StatementOK, VoteKinds
  <2>5. CASE ~Running
    <3>1. ~Running'
      BY <2>1, <2>5 DEF Running
    <3>2. QED
      BY <3>1, VotesEnd
  <2>6. CASE Running
    <3>1. votes' = [votes EXCEPT ![c0][u0] =
                      IF kind = "update" /\ votes[c0][u0] = None THEN None ELSE m0]
      <4>1. CASE kind = "insert"
        <5>1. InsertsVote(k)
          BY <2>2, <4>1
        <5>2. votes' = [votes EXCEPT ![c0][u0] = m0]
          BY <1>2, <2>1, <2>6, <5>1 DEF InsertsVote, ProcessEnds, Running
        <5>3. QED
          BY <4>1, <5>2
      <4>2. CASE kind = "update"
        <5>1. UpdatesVote(k)
          BY <2>2, <4>2
        <5>2. votes' = [votes EXCEPT ![c0][u0] = IF @ = None THEN None ELSE m0]
          BY <5>1 DEF UpdatesVote
        <5>3. QED
          BY <4>2, <5>2
      <4>3. QED
        BY <4>1, <4>2
    <3>2. ASSUME NEW c \in Channels, NEW u \in Viewers
          PROVE  IF <<c, u>> \in RowsOf(queries[k])
                 THEN Running /\ BringsVote(queries[k], c, u) => votes'[c][u] = said[c][u]
                 ELSE votes'[c][u] = votes[c][u]
      <4>1. <<c, u>> \in RowsOf(queries[k]) <=> c0 = c /\ u0 = u
        BY <2>2, <2>3, VoteWriters DEF VoteKinds
      <4>2. BringsVote(queries[k], c, u) =>
              m0 = said[c][u] /\ (kind = "update" => votes[c][u] # None)
        BY <2>2, <2>3 DEF BringsVote, VoteKinds
      <4> HIDE DEF c0, u0, m0
      <4>3. votes'[c][u] = IF c = c0 /\ u = u0
                           THEN IF kind = "update" /\ votes[c0][u0] = None THEN None ELSE m0
                           ELSE votes[c][u]
        BY <2>4, <3>1 DEF TypeOK, VotesOK
      <4>4. QED
        BY <4>1, <4>2, <4>3
    <3>3. QED
      BY <2>1, <3>2, VotesSettled DEF Running
  <2>7. QED
    BY <2>5, <2>6
<1>3. QED
  BY <1>1, <1>2 DEF InsertsVote, UpdatesVote

LEMMA SelectsVoteVotes ==
  ASSUME TypeOK, VotesKept, NEW k0 \in Connections, SelectsVote(k0)
  PROVE  VotesKept'
<1>1. PICK q : q = queries[k0]
  OBVIOUS
<1>2. PICK kind \in {"insert", "update"} :
        /\ queries' = [queries EXCEPT ![k0] =
             [kind |-> kind, channel |-> q.channel, content |-> q.content,
              detached |-> q.detached]]
        /\ kind = "insert" <=> votes[q.channel][q.content.viewer] = None
  BY <1>1, SelectTyped
<1>3. UNCHANGED <<proc, votes, said, adrift>>
  BY DEF SelectsVote, ProcessGoesOn, databaseVars, historyVars
<1>4. StatementOK(q) /\ q.kind = "select"
  BY <1>1, HeldStatement DEF SelectsVote, VoteKinds
<1>5. PICK p : p = [kind |-> kind, channel |-> q.channel, content |-> q.content,
                    detached |-> q.detached]
  OBVIOUS
<1>6. /\ p.kind = kind /\ p.channel = q.channel /\ p.content = q.content
      /\ queries'[k0] = p
      /\ \A k \in Connections \ {k0} : queries'[k] = queries[k]
  BY <1>2, <1>5 DEF TypeOK, QueriesOK
<1>7. StatementOK(p)
  BY <1>2, <1>4, <1>5 DEF StatementOK, VoteKinds
<1>8. ASSUME NEW c \in Channels, NEW u \in Viewers PROVE VoteKept(c, u)'
  <2>1. /\ <<c, u>> \in RowsOf(q) <=> q.channel = c /\ q.content.viewer = u
        /\ <<c, u>> \in RowsOf(p) <=> q.channel = c /\ q.content.viewer = u
    <3>1. <<c, u>> \in RowsOf(q) <=> q.channel = c /\ q.content.viewer = u
      BY <1>4, VoteWriters DEF VoteKinds
    <3>2. p.kind \in VoteKinds
      BY <1>2, <1>6 DEF VoteKinds
    <3>3. <<c, u>> \in RowsOf(p) <=> p.channel = c /\ p.content.viewer = u
      BY <1>7, <3>2, VoteWriters DEF VoteKinds
    <3>4. QED
      BY <1>6, <3>1, <3>3
  <2>2. VoteKept(c, u)
    BY DEF VotesKept
  <2>3. CASE <<c, u>> \notin RowsOf(q)
    <3>1. SameStatements(<<c, u>>)
      BY <1>1, <1>3, <1>6, <2>1, <2>3 DEF SameStatements
    <3>2. QED
      BY <1>3, <2>2, <3>1, VoteUntouched DEF Running
  <2>4. CASE <<c, u>> \in RowsOf(q)
    <3> SUFFICES ASSUME Running, <<c, u>> \notin adrift PROVE VoteKept(c, u)'
      BY <1>3 DEF VoteKept, Running
    <3>1. OneAtATime(<<c, u>>) /\ BringsVote(q, c, u)
      BY <1>1, <2>2, <2>4 DEF VoteKept
    <3>2. \A k \in Connections : <<c, u>> \in RowsOf(queries'[k]) <=> k = k0
      BY <1>1, <1>6, <2>1, <2>4, <3>1 DEF OneAtATime
    <3>3. OneAtATime(<<c, u>>)' /\ Busy(<<c, u>>)'
      BY <3>2 DEF OneAtATime, Busy
    <3>4. q.content.message = said[c][u]
      BY <1>4, <3>1 DEF BringsVote, VoteKinds
    <3>5. kind = "insert" <=> votes[c][u] = None
      BY <1>2, <2>1, <2>4
    <3>6. BringsVote(queries[k0], c, u)'
      BY <1>2, <1>3, <1>6, <3>4, <3>5 DEF BringsVote, VoteKinds
    <3>7. QED
      BY <3>2, <3>3, <3>6 DEF VoteKept
  <2>5. QED
    BY <2>3, <2>4
<1>9. QED
  BY <1>8 DEF VotesKept

LEMMA FailsVotes ==
  ASSUME TypeOK, VotesKept, NEW k \in Connections, Fails(k)
  PROVE  VotesKept'
<1>1. Settle(k) /\ votes' = votes
  BY DEF Fails, databaseVars
<1>2. CASE ~Running /\ ProcessGoesOn
  <2>1. ~Running'
    BY <1>2 DEF ProcessGoesOn, Running
  <2>2. QED
    BY <2>1, VotesEnd
<1>3. CASE ProcessEnds
  BY <1>3, VotesEnd DEF ProcessEnds, Running
<1>4. CASE adrift' = adrift \cup RowsOf(queries[k]) /\ UNCHANGED <<proc, said>>
  BY <1>1, <1>4, OtherSettled DEF Running
<1>5. QED
  BY <1>2, <1>3, <1>4 DEF Fails

\* A create and an update send a save, which is not about votes.
LEMMA SavesIssued ==
  ASSUME TypeOK, VotesKept, NEW c0 \in Channels, NEW content, IsColumns(content),
         NEW detached \in BOOLEAN,
         Issue("save", c0, content, detached), UNCHANGED <<proc, votes, said>>
  PROVE  VotesKept'
<1>1. PICK q : q = [kind |-> "save", channel |-> c0, content |-> content,
                    detached |-> detached]
  OBVIOUS
<1>2. StatementOK(q)
  BY <1>1 DEF StatementOK, VoteKinds
<1>3. ASSUME NEW c \in Channels, NEW u \in Viewers PROVE <<c, u>> \notin RowsOf(q)
  <2>1. q.kind = "save"
    BY <1>1
  <2>2. QED
    BY <1>2, <2>1, VoteWriters DEF VoteKinds
<1>4. \A c \in Channels, u \in Viewers :
        IF <<c, u>> \in RowsOf(q)
        THEN said'[c][u] = IF "save" = "select" THEN content.message ELSE None
        ELSE said'[c][u] = said[c][u]
  BY <1>3
<1>5. (Running' => Running) /\ votes' = votes
  BY DEF Running
<1>6. QED
  BY <1>1, <1>2, <1>4, <1>5, VotesIssued

\* A delete and a clear: no vote of the channel should count from now on.
LEMMA ClearsIssued ==
  ASSUME TypeOK, VotesKept, NEW c0 \in Channels, NEW kind \in {"delete", "clear"},
         NEW detached \in BOOLEAN, Issue(kind, c0, NoColumns, detached),
         said' = [said EXCEPT ![c0] = NoVotes], UNCHANGED <<proc, votes>>
  PROVE  VotesKept'
<1>1. PICK q : q = [kind |-> kind, channel |-> c0, content |-> NoColumns,
                    detached |-> detached]
  OBVIOUS
<1>2. StatementOK(q)
  BY <1>1 DEF StatementOK, VoteKinds
<1>3. ASSUME NEW c \in Channels, NEW u \in Viewers
      PROVE  IF <<c, u>> \in RowsOf(q) THEN said'[c][u] = None
             ELSE said'[c][u] = said[c][u]
  <2>1. <<c, u>> \in RowsOf(q) <=> c = c0
    BY <1>1, <1>2, VoteWriters DEF VoteKinds
  <2>2. said'[c][u] = IF c = c0 THEN None ELSE said[c][u]
    BY DEF TypeOK, VotesOK, NoVotes
  <2>3. QED
    BY <2>1, <2>2
<1>4. QED
  BY <1>1, <1>2, <1>3, VotesIssued DEF Running

LEMMA VoteMessageVotes ==
  ASSUME TypeOK, VotesKept, NEW c0 \in Channels, NEW u0 \in Viewers, NEW m \in Messages,
         VoteMessage(c0, u0, m)
  PROVE  VotesKept'
<1> DEFINE content == [viewer |-> u0, message |-> m]
<1>0. PICK detached \in BOOLEAN : detached = TRUE
  OBVIOUS
<1>1. PICK q : q = [kind |-> "select", channel |-> c0, content |-> content,
                    detached |-> detached]
  OBVIOUS
<1>2. /\ Issue("select", c0, content, detached)
      /\ said' = [said EXCEPT ![c0][u0] = m]
      /\ UNCHANGED <<proc, votes>>
  BY <1>0 DEF VoteMessage, databaseVars
<1>3. StatementOK(q)
  BY <1>1 DEF StatementOK, VoteKinds
<1>4. content.viewer = u0 /\ content.message = m /\ q.content = content
  BY <1>1
<1> HIDE DEF content
<1>5. ASSUME NEW c \in Channels, NEW u \in Viewers
      PROVE  IF <<c, u>> \in RowsOf(q) THEN said'[c][u] = content.message
             ELSE said'[c][u] = said[c][u]
  <2>1. <<c, u>> \in RowsOf(q) <=> c = c0 /\ u = u0
    BY <1>1, <1>3, <1>4, VoteWriters DEF VoteKinds
  <2>2. said'[c][u] = IF c = c0 /\ u = u0 THEN m ELSE said[c][u]
    BY <1>2 DEF TypeOK, VotesOK
  <2>3. QED
    BY <1>4, <2>1, <2>2
<1>6. \A c \in Channels, u \in Viewers :
        IF <<c, u>> \in RowsOf(q)
        THEN said'[c][u] = IF "select" = "select" THEN content.message ELSE None
        ELSE said'[c][u] = said[c][u]
  BY <1>5
<1>7. (Running' => Running) /\ votes' = votes
  BY <1>2 DEF Running
<1>8. QED
  BY <1>1, <1>2, <1>3, <1>6, <1>7, VotesIssued

LEMMA MessageVotes ==
  ASSUME TypeOK, VotesKept, NEW c \in Channels,
         \/ \E m \in Messages : ClearMessage(c, m)
         \/ \E hasAccess \in BOOLEAN : ClearAnswered(c, hasAccess)
         \/ \E u \in Viewers, m \in Messages : VoteMessage(c, u, m)
  PROVE  VotesKept'
<1>1. ASSUME NEW m \in Messages, ClearMessage(c, m) PROVE VotesKept'
  BY <1>1, VotesUntouched DEF ClearMessage, databaseVars, historyVars, Running
<1>2. ASSUME NEW hasAccess \in BOOLEAN, ClearAnswered(c, hasAccess) PROVE VotesKept'
  <2>1. UNCHANGED <<proc, votes>>
    BY <1>2 DEF ClearAnswered, databaseVars
  <2>2. CASE UNCHANGED <<queries, said, adrift>>
    BY <2>1, <2>2, VotesUntouched DEF Running
  <2>3. CASE Issue("clear", c, NoColumns, TRUE) /\ said' = [said EXCEPT ![c] = NoVotes]
    BY <2>1, <2>3, ClearsIssued
  <2>4. QED
    BY <1>2, <2>2, <2>3 DEF ClearAnswered
<1>3. ASSUME NEW u \in Viewers, NEW m \in Messages, VoteMessage(c, u, m) PROVE VotesKept'
  BY <1>3, VoteMessageVotes
<1>4. QED
  BY <1>1, <1>2, <1>3

LEMMA RequestVotes ==
  ASSUME TypeOK, VotesKept, NEW r \in Requests,
         \/ RequestRejected(r) \/ DeleteChatVoting(r) \/ ClearChatVotes(r)
         \/ \E data \in UpdateInputs : UpdateChatVoting(r, data)
  PROVE  VotesKept'
<1>1. PICK c : c = requests[r].channel
  OBVIOUS
<1>2. UNCHANGED <<proc, votes>>
  BY DEF RequestRejected, DeleteChatVoting, ClearChatVotes, UpdateChatVoting, databaseVars
<1>3. CASE RequestRejected(r)
  BY <1>3, VotesUntouched DEF RequestRejected, databaseVars, historyVars, Running
<1>4. c \in Channels /\ IsColumns(requests[r].row)
  BY <1>1 DEF RequestRejected, DeleteChatVoting, ClearChatVotes, UpdateChatVoting,
    RequestEnds, TypeOK, RequestsOK, RowOK
<1>5. CASE DeleteChatVoting(r) \/ ClearChatVotes(r)
  <2>1. said' = [said EXCEPT ![c] = NoVotes]
    BY <1>1, <1>5 DEF DeleteChatVoting, ClearChatVotes
  <2>2. PICK kind \in {"delete", "clear"} : Issue(kind, c, NoColumns, FALSE)
    BY <1>1, <1>5 DEF DeleteChatVoting, ClearChatVotes
  <2>3. QED
    BY <1>2, <1>4, <2>1, <2>2, ClearsIssued
<1>6. ASSUME NEW data \in UpdateInputs, UpdateChatVoting(r, data) PROVE VotesKept'
  <2>1. PICK content : content = Assign(requests[r].row, data)
    OBVIOUS
  <2>2. Issue("save", c, content, FALSE) /\ said' = said
    BY <1>1, <1>6, <2>1 DEF UpdateChatVoting
  <2>3. IsColumns(content)
    BY <1>4, <2>1, VotesAssumption, AssignIsColumns
  <2>4. QED
    BY <1>2, <1>4, <2>2, <2>3, SavesIssued
<1>7. QED
  BY <1>3, <1>5, <1>6

LEMMA NextVotes == TypeOK /\ VotesKept /\ [Next]_vars => VotesKept'
<1> SUFFICES ASSUME TypeOK, VotesKept, [Next]_vars PROVE VotesKept'
  OBVIOUS
<1>1. CASE Start \/ ModuleInit \/ ModuleDestroy \/ Exit \/ Crash \/ ChatMoves
  BY <1>1, LifeVotes
<1>2. ASSUME NEW k \in Connections,
             \/ SavesVoting(k) \/ DeletesVoting(k) \/ DeletesVotes(k) \/ SelectsVote(k)
             \/ InsertsVote(k) \/ UpdatesVote(k) \/ Fails(k)
      PROVE  VotesKept'
  BY <1>2, SavesVotingVotes, ClearedVotes, SelectsVoteVotes, StoresVoteVotes,
     FailsVotes
<1>3. ASSUME NEW c \in Channels, NEW data \in CreateInputs, AddChatVoting(c, data)
      PROVE  VotesKept'
  <2>1. IsColumns(data)
    BY VotesAssumption
  <2>2. QED
    BY <1>3, <2>1, SavesIssued DEF AddChatVoting, databaseVars
<1>4. ASSUME NEW c \in Channels, NEW r \in Requests, RequestReads(r, c) PROVE VotesKept'
  BY <1>4, VotesUntouched DEF RequestReads, databaseVars, historyVars, Running
<1>5. ASSUME NEW c \in Channels,
             \/ \E m \in Messages : ClearMessage(c, m)
             \/ \E hasAccess \in BOOLEAN : ClearAnswered(c, hasAccess)
             \/ \E u \in Viewers, m \in Messages : VoteMessage(c, u, m)
      PROVE  VotesKept'
  BY <1>5, MessageVotes
<1>6. ASSUME NEW r \in Requests,
             \/ RequestRejected(r) \/ DeleteChatVoting(r) \/ ClearChatVotes(r)
             \/ \E data \in UpdateInputs : UpdateChatVoting(r, data)
      PROVE  VotesKept'
  BY <1>6, RequestVotes
<1>7. CASE UNCHANGED vars
  BY <1>7, VotesUntouched DEF vars, databaseVars, historyVars, Running
<1>8. QED
  BY <1>1, <1>2, <1>3, <1>4, <1>5, <1>6, <1>7 DEF Next

\* Whatever votes, clears, deletes, failures and crashes interleave, on any number
\* of connections: a stored vote is the last one said, unless the last statements
\* about it overlapped, or a clear or a delete failed.
THEOREM VotesAreSaid == Spec => []VotesFollowChat
<1>1. Init => VotesKept
  BY VotesEnd DEF Init, Running, VotesKept, VoteKept
<1>2. VotesKept => VotesFollowChat
  BY DEF VotesKept, VoteKept, VotesFollowChat
<1>3. QED
  BY <1>1, <1>2, NextVotes, VotesTypeCorrect, PTL DEF Spec

----------------------------------------------------------------------------
(* Rows of votings                                                          *)

\* What the row of a voting is, or is to become, is what the process goes by.
RowMatches(c) ==
  IF votings[c] = NoRow THEN Self \notin SubscribersOf(c) ELSE votings[c] = InMemory(c)

\* What a save leaves in the row.
SavedRow(c, content) ==
  Assign(IF votings[c] = NoRow THEN VotingDefault ELSE votings[c], content)

BringsRow(q, c) ==
  /\ q.kind = "save" => SavedRow(c, q.content) = InMemory(c)
  /\ q.kind = "delete" => Self \notin SubscribersOf(c)

\* The inductive invariant of a row, like that of a vote; a row that was clobbered
\* is as much as its statements said, but not what the process goes by.
RowKept(c) ==
  Running /\ <<c>> \notin adrift =>
    /\ OneAtATime(<<c>>)
    /\ c \notin clobbered =>
         /\ \A k \in Connections :
              <<c>> \in RowsOf(queries[k]) => BringsRow(queries[k], c)
         /\ ~Busy(<<c>>) => RowMatches(c)

RowsKept == \A c \in Channels : RowKept(c)

\* Until onModuleInit the service is subscribed to nothing.
SubscribesLater == ~Running => \A c \in Channels : Self \notin SubscribersOf(c)

RowInv == RowsKept /\ SubscribesLater

\* What the process holds of a voting, and what the table does, stay.
SameVoting(c) ==
  /\ votings'[c] = votings[c]
  /\ list'[c] = list[c]
  /\ (Self \in SubscribersOf(c))' <=> Self \in SubscribersOf(c)

LEMMA SameMemory ==
  ASSUME NEW c \in Channels, SameVoting(c)
  PROVE  /\ InMemory(c)' = InMemory(c)
         /\ RowMatches(c)' <=> RowMatches(c)
         /\ \A content : SavedRow(c, content)' = SavedRow(c, content)
<1>1. [listening |-> (Self \in SubscribersOf(c))'] = [listening |-> Self \in SubscribersOf(c)]
  BY DEF SameVoting
<1>2. InMemory(c)' = InMemory(c)
  BY <1>1 DEF InMemory, SameVoting
<1>3. RowMatches(c)' <=> RowMatches(c)
  BY <1>2 DEF RowMatches, SameVoting
<1>4. \A content : SavedRow(c, content)' = SavedRow(c, content)
  BY DEF SavedRow, SameVoting
<1>5. QED
  BY <1>2, <1>3, <1>4

LEMMA RowUntouched ==
  ASSUME NEW c \in Channels, RowKept(c), SameStatements(<<c>>), SameVoting(c),
         Running' => Running, c \notin clobbered' => c \notin clobbered
  PROVE  RowKept(c)'
<1> SUFFICES ASSUME Running', <<c>> \notin adrift'
             PROVE  /\ OneAtATime(<<c>>)'
                    /\ c \notin clobbered' =>
                         /\ \A k \in Connections :
                              <<c>> \in RowsOf(queries'[k]) => BringsRow(queries[k], c)'
                         /\ ~Busy(<<c>>)' => RowMatches(c)'
  BY DEF RowKept
<1>1. <<c>> \notin adrift
  BY DEF SameStatements
<1>2. \A k \in Connections : <<c>> \in RowsOf(queries'[k]) => queries'[k] = queries[k]
  BY DEF SameStatements
<1>3. OneAtATime(<<c>>)'
  BY <1>1, <1>2 DEF RowKept, OneAtATime
<1>4. ASSUME c \notin clobbered', NEW k \in Connections, <<c>> \in RowsOf(queries'[k])
      PROVE  BringsRow(queries[k], c)'
  <2>1. queries'[k] = queries[k] /\ BringsRow(queries[k], c)
    BY <1>1, <1>2, <1>4 DEF RowKept
  <2>2. /\ SavedRow(c, queries[k].content)' = SavedRow(c, queries[k].content)
        /\ InMemory(c)' = InMemory(c)
    BY <2>1, SameMemory DEF SavedRow
  <2>3. QED
    BY <2>1, <2>2 DEF BringsRow, SameVoting
<1>5. ASSUME c \notin clobbered', ~Busy(<<c>>)' PROVE RowMatches(c)'
  <2>1. ~Busy(<<c>>)
    BY <1>5 DEF SameStatements, Busy
  <2>2. QED
    BY <1>1, <1>5, <2>1, SameMemory DEF RowKept
<1>6. QED
  BY <1>3, <1>4, <1>5

\* A step about other things than votings.
LEMMA RowsUntouched ==
  ASSUME RowInv, Running' <=> Running, UNCHANGED <<clobbered>>,
         \A c \in Channels : SameVoting(c) /\ SameStatements(<<c>>)
  PROVE  RowInv'
<1>1. \A c \in Channels : RowKept(c)'
  BY RowUntouched DEF RowInv, RowsKept
<1>2. SubscribesLater'
  BY DEF RowInv, SubscribesLater, SameVoting
<1>3. QED
  BY <1>1, <1>2 DEF RowInv, RowsKept

LEMMA RowsEnd == ASSUME ProcessEnds PROVE RowInv'
<1>1. ~Running' /\ channels' = [c \in {} |-> {}]
  BY DEF ProcessEnds, ChatEnds, Running
<1>2. RowsKept'
  BY <1>1 DEF RowsKept, RowKept
<1>3. \A c \in Channels : SubscribersOf(c)' = {}
  BY <1>1 DEF SubscribersOf
<1>4. SubscribesLater'
  BY <1>3 DEF SubscribesLater
<1>5. QED
  BY <1>2, <1>4 DEF RowInv

\* While the server is down, statements of the last process may still be answered.
LEMMA RowsDown ==
  ASSUME RowInv, ~Running, UNCHANGED <<proc, channels>>
  PROVE  RowInv'
BY DEF RowInv, RowsKept, RowKept, SubscribesLater, SubscribersOf, Running

----------------------------------------------------------------------------
(* Columns of rows and of what the process holds                            *)

\* A body over an entry and whether the service listens, as update and create do
\* in memory, is the body over both, as the statement does in the table.
LEMMA BodyOverBoth ==
  ASSUME NEW e, DOMAIN e = EntryColumns, NEW data, DOMAIN data \subseteq Columns,
         NEW b \in BOOLEAN, NEW b2 \in BOOLEAN,
         b2 = IF "listening" \in DOMAIN data THEN data["listening"] ELSE b
  PROVE  Assign(Assign(e, [listening |-> b]), data)
           = Assign(Assign(e, ForEntry(data)), [listening |-> b2])
<1> DEFINE f == Assign(e, [listening |-> b])
           g == Assign(e, ForEntry(data))
           h == [listening |-> b2]
<1>1. /\ DOMAIN f = Columns
      /\ \A col \in EntryColumns : f[col] = e[col]
      /\ f["listening"] = b
  BY DEF Assign, Columns, EntryColumns
<1>2. /\ DOMAIN ForEntry(data) = DOMAIN data \cap EntryColumns
      /\ \A col \in DOMAIN data \cap EntryColumns : ForEntry(data)[col] = data[col]
  BY DEF ForEntry
<1>3. /\ DOMAIN g = EntryColumns
      /\ \A col \in EntryColumns : g[col] = IF col \in DOMAIN data THEN data[col] ELSE e[col]
  BY <1>2 DEF Assign
<1>4. DOMAIN h = {"listening"} /\ h["listening"] = b2
  OBVIOUS
<1> HIDE DEF f, g, h
<1>5. Assign(f, data) = [col \in Columns |-> IF col \in DOMAIN data THEN data[col] ELSE f[col]]
  BY <1>1 DEF Assign
<1>6. Assign(g, h) = [col \in Columns |-> IF col = "listening" THEN b2 ELSE g[col]]
  BY <1>3, <1>4 DEF Assign, Columns
<1>7. ASSUME NEW col \in Columns
      PROVE  (IF col \in DOMAIN data THEN data[col] ELSE f[col])
               = (IF col = "listening" THEN b2 ELSE g[col])
  <2>1. CASE col = "listening"
    BY <1>1, <2>1
  <2>2. CASE col # "listening"
    <3>1. col \in EntryColumns
      BY <2>2 DEF Columns
    <3>2. QED
      BY <1>1, <1>3, <2>2, <3>1
  <2>3. QED
    BY <2>1, <2>2
<1>8. Assign(f, data) = Assign(g, h)
  BY <1>5, <1>6, <1>7
<1>9. QED
  BY <1>8 DEF f, g, h

\* All columns, put over anything, are what is left.
LEMMA AllOver ==
  ASSUME NEW base, RowOK(base), NEW row, RowOK(row)
  PROVE  Assign(base, row) = row
<1>1. DOMAIN base \cup DOMAIN row = DOMAIN row
  BY DEF RowOK
<1>2. Assign(base, row) = [col \in DOMAIN row |-> row[col]]
  BY <1>1 DEF Assign
<1>3. row = [col \in DOMAIN row |-> row[col]]
  BY DEF RowOK, IsColumns
<1>4. QED
  BY <1>2, <1>3

\* A row is its entry and whether it listens.
LEMMA RowIsBoth ==
  ASSUME NEW row, RowOK(row)
  PROVE  row = Assign(ForEntry(row), [listening |-> row["listening"]])
<1>1. DOMAIN row = Columns /\ row = [col \in Columns |-> row[col]]
  BY DEF RowOK, IsColumns
<1>2. DOMAIN ForEntry(row) = EntryColumns
      /\ \A col \in EntryColumns : ForEntry(row)[col] = row[col]
  BY <1>1 DEF ForEntry, Columns
<1> DEFINE h == [listening |-> row["listening"]]
<1>3. DOMAIN h = {"listening"} /\ h["listening"] = row["listening"]
  OBVIOUS
<1> HIDE DEF h
<1>4. Assign(ForEntry(row), h) =
        [col \in Columns |-> IF col = "listening" THEN row["listening"] ELSE row[col]]
  BY <1>2, <1>3 DEF Assign, Columns
<1>5. QED
  BY <1>1, <1>4 DEF h

\* Listen subscribes as the body says, and leaves other channels alone.
LEMMA ListenSubscribes ==
  ASSUME NEW c \in Channels, NEW data, Listen(c, data)
  PROVE  /\ (Self \in SubscribersOf(c))' <=>
              IF "listening" \in DOMAIN data THEN data["listening"] ELSE Self \in SubscribersOf(c)
         /\ \A x \in Channels \ {c} :
              (Self \in SubscribersOf(x))' <=> Self \in SubscribersOf(x)
<1>1. CASE "listening" \notin DOMAIN data
  BY <1>1 DEF Listen, chatVars, SubscribersOf
<1>2. CASE "listening" \in DOMAIN data /\ data["listening"]
  <2>1. channels' = [x \in DOMAIN channels \cup {c} |->
          IF x \in {c} THEN SubscribersOf(x) \cup {Self} ELSE channels[x]]
    BY <1>2 DEF Listen, Join
  <2>2. SubscribersOf(c)' = SubscribersOf(c) \cup {Self}
    BY <2>1 DEF SubscribersOf
  <2>3. \A x \in Channels \ {c} : SubscribersOf(x)' = SubscribersOf(x)
    BY <2>1 DEF SubscribersOf
  <2>4. QED
    BY <1>2, <2>2, <2>3
<1>3. CASE "listening" \in DOMAIN data /\ ~data["listening"]
  <2>1. Part(c, Self)
    BY <1>3 DEF Listen
  <2>2. channels' = [x \in DOMAIN channels \cup {c} |->
          IF x = c THEN SubscribersOf(c) \ {Self} ELSE channels[x]]
    BY <2>1 DEF Part
  <2>3. SubscribersOf(c)' = SubscribersOf(c) \ {Self}
    BY <2>2 DEF SubscribersOf
  <2>4. \A x \in Channels \ {c} : SubscribersOf(x)' = SubscribersOf(x)
    BY <2>2 DEF SubscribersOf
  <2>5. QED
    BY <1>3, <2>3, <2>4
<1>4. QED
  BY <1>1, <1>2, <1>3

----------------------------------------------------------------------------
(* Steps                                                                    *)

LEMMA MemoryIsThere == \A c : InMemory(c) # NoRow
<1>1. \A c : "listening" \in DOMAIN InMemory(c)
  BY DEF InMemory, Assign
<1>2. QED
  BY <1>1, NoRowIsColumns

LEMMA LifeRows ==
  ASSUME TypeOK, RowInv, Start \/ ModuleDestroy \/ ChatMoves
  PROVE  RowInv'
<1>1. /\ UNCHANGED <<list, votings, queries, adrift, clobbered>>
      /\ Running' <=> Running
  BY DEF Start, ModuleDestroy, ChatMoves, databaseVars, historyVars, Running
<1>2. ASSUME NEW c \in Channels PROVE (Self \in SubscribersOf(c))' <=> Self \in SubscribersOf(c)
  <2>1. CASE channels' = channels
    BY <2>1 DEF SubscribersOf
  <2>2. ASSUME NEW x \in Channels, NEW m \in ModuleIds \ {Self}, Join({x}, m)
        PROVE  (Self \in SubscribersOf(c))' <=> Self \in SubscribersOf(c)
    <3>1. channels' = [y \in DOMAIN channels \cup {x} |->
            IF y \in {x} THEN SubscribersOf(y) \cup {m} ELSE channels[y]]
      BY <2>2 DEF Join
    <3>2. QED
      BY <2>2, <3>1 DEF SubscribersOf
  <2>3. ASSUME NEW x \in Channels, NEW m \in ModuleIds \ {Self}, Part(x, m)
        PROVE  (Self \in SubscribersOf(c))' <=> Self \in SubscribersOf(c)
    <3>1. channels' = [y \in DOMAIN channels \cup {x} |->
            IF y = x THEN SubscribersOf(x) \ {m} ELSE channels[y]]
      BY <2>3 DEF Part
    <3>2. QED
      BY <2>3, <3>1 DEF SubscribersOf
  <2>4. CASE Start \/ ModuleDestroy
    <3>1. channels' = channels
      BY <2>4 DEF Start, ModuleDestroy, Quit, chatVars
    <3>2. QED
      BY <2>1, <3>1
  <2>5. CASE ChatMoves
    <3>1. \/ channels' = channels
          \/ \E x \in Channels, m \in ModuleIds \ {Self} : Join({x}, m) \/ Part(x, m)
      BY <2>5 DEF ChatMoves, Register, Disconnect, Answers, Refuses
    <3>2. QED
      BY <2>1, <2>2, <2>3, <3>1
  <2>6. QED
    BY <2>4, <2>5
<1>3. \A c \in Channels : SameVoting(c) /\ SameStatements(<<c>>)
  BY <1>1, <1>2, SameRows DEF SameVoting
<1>4. QED
  BY <1>1, <1>3, RowsUntouched

\* A new process goes by the rows.
LEMMA ModuleInitRows ==
  ASSUME TypeOK, RowInv, ModuleInit
  PROVE  RowInv'
<1> DEFINE cs == {c \in Channels : votings[c] # NoRow /\ votings[c]["listening"]}
<1>1. /\ \A k \in Connections : queries'[k] = NoStatement
      /\ list' = [c \in Channels |-> ForEntry(votings[c])]
      /\ Join(cs, Self)
      /\ votings' = votings
      /\ Running'
  BY DEF ModuleInit, databaseVars, Running
<1>2. \A c \in Channels : Self \notin SubscribersOf(c)
  BY DEF RowInv, SubscribesLater, ModuleInit, Running
<1>3. channels' = [c \in DOMAIN channels \cup cs |->
                     IF c \in cs THEN SubscribersOf(c) \cup {Self} ELSE channels[c]]
  BY <1>1 DEF Join
<1> HIDE DEF cs
<1>4. \A c \in Channels : (Self \in SubscribersOf(c))' <=> c \in cs
  BY <1>2, <1>3 DEF SubscribersOf
<1>5. ASSUME NEW c \in Channels PROVE RowMatches(c)'
  <2>1. CASE votings[c] = NoRow
    <3>1. c \notin cs
      BY <2>1 DEF cs
    <3>2. QED
      BY <1>1, <1>4, <2>1, <3>1 DEF RowMatches
  <2>2. CASE votings[c] # NoRow
    <3>1. RowOK(votings[c])
      BY <2>2 DEF TypeOK, VotingsOK
    <3>2. votings[c]["listening"] \in BOOLEAN
      BY <3>1 DEF RowOK, IsColumns, ColumnType, Columns
    <3>3. votings[c]["listening"] = (Self \in SubscribersOf(c))'
      BY <1>4, <2>2, <3>2 DEF cs
    <3>4. [listening |-> votings[c]["listening"]] = [listening |-> (Self \in SubscribersOf(c))']
      BY <3>3
    <3>5. votings[c] = Assign(list'[c], [listening |-> (Self \in SubscribersOf(c))'])
      BY <1>1, <3>1, <3>4, RowIsBoth
    <3>6. votings'[c] = InMemory(c)'
      BY <1>1, <3>5 DEF InMemory
    <3>7. QED
      BY <1>1, <2>2, <3>6 DEF RowMatches
  <2>3. QED
    BY <2>1, <2>2
<1>6. ASSUME NEW c \in Channels PROVE RowKept(c)'
  <2>1. \A k \in Connections : <<c>> \notin RowsOf(queries'[k])
    BY <1>1, NothingWritten
  <2>2. OneAtATime(<<c>>)'
    BY <2>1 DEF OneAtATime
  <2>3. QED
    BY <1>5, <2>1, <2>2 DEF RowKept
<1>7. QED
  BY <1>1, <1>6 DEF RowInv, RowsKept, SubscribesLater

\* A statement about a voting is over, and the row is what it was to become.
LEMMA RowSettled ==
  ASSUME TypeOK, RowInv, Running, NEW k0 \in Connections, NEW c0 \in Channels,
         Settle(k0), ProcessGoesOn, <<c0>> \in RowsOf(queries[k0]),
         queries[k0].channel = c0, StatementOK(queries[k0]),
         \A c \in Channels \ {c0} : votings'[c] = votings[c],
         BringsRow(queries[k0], c0) => RowMatches(c0)'
  PROVE  RowInv'
<1>1. UNCHANGED <<channels, proc, list, clobbered, adrift>>
  BY DEF ProcessGoesOn, chatVars, historyVars
<1>2. ASSUME NEW c \in Channels \ {c0} PROVE RowKept(c)'
  <2>1. <<c>> \notin RowsOf(queries[k0])
    BY VotingWriters
  <2>2. SameStatements(<<c>>)
    BY <1>1, <2>1, SettleRows
  <2>3. SameVoting(c)
    BY <1>1 DEF SameVoting, SubscribersOf
  <2>4. QED
    BY <1>1, <2>2, <2>3, RowUntouched DEF RowInv, RowsKept, Running
<1>3. RowKept(c0)'
  <2> SUFFICES ASSUME <<c0>> \notin adrift PROVE RowKept(c0)'
    BY <1>1 DEF RowKept
  <2>1. RowKept(c0)
    BY DEF RowInv, RowsKept
  <2>2. OneAtATime(<<c0>>)
    BY <2>1 DEF RowKept
  <2>3. ~Busy(<<c0>>)'
    BY <1>1, <2>2, SettleRows
  <2>4. OneAtATime(<<c0>>)' /\ \A k \in Connections : <<c0>> \notin RowsOf(queries'[k])
    BY <2>3 DEF Busy, OneAtATime
  <2>5. c0 \notin clobbered => BringsRow(queries[k0], c0)
    BY <2>1 DEF RowKept
  <2>6. QED
    BY <1>1, <2>4, <2>5 DEF RowKept
<1>4. SubscribesLater'
  BY <1>1 DEF SubscribesLater, Running
<1>5. QED
  BY <1>2, <1>3, <1>4 DEF RowInv, RowsKept

LEMMA SavesVotingRows ==
  ASSUME TypeOK, RowInv, NEW k \in Connections, SavesVoting(k)
  PROVE  RowInv'
<1>1. PICK q : q = queries[k]
  OBVIOUS
<1>2. StatementOK(q) /\ q.kind = "save"
  BY <1>1, HeldStatement DEF SavesVoting
<1>3. PICK c : c = q.channel
  OBVIOUS
<1>4. c \in Channels /\ <<c>> \in RowsOf(q)
  BY <1>2, <1>3, VotingWriters DEF StatementOK
<1>5. /\ votings' = [votings EXCEPT ![c] =
                       Assign(IF @ = NoRow THEN VotingDefault ELSE @, q.content)]
      /\ Settle(k) /\ ProcessGoesOn
  BY <1>1, <1>3 DEF SavesVoting
<1>6. /\ votings'[c] = SavedRow(c, q.content)
      /\ \A x \in Channels \ {c} : votings'[x] = votings[x]
  BY <1>4, <1>5 DEF TypeOK, VotingsOK, SavedRow
<1>7. CASE ~Running
  BY <1>5, <1>7, RowsDown DEF ProcessGoesOn, chatVars
<1>8. CASE Running
  <2>1. ASSUME BringsRow(q, c) PROVE RowMatches(c)'
    <3>1. votings'[c] = InMemory(c)
      BY <1>2, <1>6, <2>1 DEF BringsRow
    <3>2. InMemory(c)' = InMemory(c)
      BY <1>5 DEF ProcessGoesOn, chatVars, InMemory, SubscribersOf
    <3>3. votings'[c] # NoRow
      BY <3>1, MemoryIsThere
    <3>4. QED
      BY <3>1, <3>2, <3>3 DEF RowMatches
  <2>2. QED
    BY <1>1, <1>2, <1>3, <1>4, <1>5, <1>6, <1>8, <2>1, RowSettled
<1>9. QED
  BY <1>7, <1>8

LEMMA DeletesVotingRows ==
  ASSUME TypeOK, RowInv, NEW k \in Connections, DeletesVoting(k)
  PROVE  RowInv'
<1>1. PICK q : q = queries[k]
  OBVIOUS
<1>2. StatementOK(q) /\ q.kind = "delete"
  BY <1>1, HeldStatement DEF DeletesVoting
<1>3. PICK c : c = q.channel
  OBVIOUS
<1>4. c \in Channels /\ <<c>> \in RowsOf(q)
  BY <1>2, <1>3, VotingWriters DEF StatementOK
<1>5. /\ votings' = [votings EXCEPT ![c] = NoRow]
      /\ Settle(k) /\ ProcessGoesOn
  BY <1>1, <1>3 DEF DeletesVoting
<1>6. /\ votings'[c] = NoRow
      /\ \A x \in Channels \ {c} : votings'[x] = votings[x]
  BY <1>4, <1>5 DEF TypeOK, VotingsOK
<1>7. CASE ~Running
  BY <1>5, <1>7, RowsDown DEF ProcessGoesOn, chatVars
<1>8. CASE Running
  <2>1. ASSUME BringsRow(q, c) PROVE RowMatches(c)'
    <3>1. Self \notin SubscribersOf(c)
      BY <1>2, <2>1 DEF BringsRow
    <3>2. SubscribersOf(c)' = SubscribersOf(c)
      BY <1>5 DEF ProcessGoesOn, chatVars, SubscribersOf
    <3>3. QED
      BY <1>6, <3>1, <3>2 DEF RowMatches
  <2>2. QED
    BY <1>1, <1>2, <1>3, <1>4, <1>5, <1>6, <1>8, <2>1, RowSettled
<1>9. QED
  BY <1>7, <1>8

\* The statements about votes are not about votings.
LEMMA VoteStatementRows ==
  ASSUME TypeOK, RowInv, NEW k \in Connections,
         DeletesVotes(k) \/ SelectsVote(k) \/ InsertsVote(k) \/ UpdatesVote(k)
  PROVE  RowInv'
<1>1. CASE ProcessEnds
  BY <1>1, RowsEnd
<1>2. CASE ProcessGoesOn
  <2>1. UNCHANGED <<channels, proc, list, clobbered, adrift>>
    BY <1>2 DEF ProcessGoesOn, chatVars, historyVars
  <2>2. votings' = votings
    BY DEF DeletesVotes, SelectsVote, InsertsVote, UpdatesVote, databaseVars
  <2>3. PICK kind \in {"clear"} \cup VoteKinds : Holds(k, kind)
    BY DEF DeletesVotes, SelectsVote, InsertsVote, UpdatesVote, VoteKinds
  <2>4. StatementOK(queries[k]) /\ queries[k].kind = kind
    BY <2>3, HeldStatement
  <2>5. \A c \in Channels : <<c>> \notin RowsOf(queries[k])
    BY <2>3, <2>4, VotingWriters DEF VoteKinds
  <2>6. ASSUME NEW c \in Channels PROVE SameStatements(<<c>>)
    <3>1. CASE Settle(k)
      BY <2>1, <2>5, <3>1, SettleRows
    <3>2. CASE SelectsVote(k)
      <4>1. PICK kind2 \in {"insert", "update"} : queries' = [queries EXCEPT ![k] =
              [kind |-> kind2, channel |-> queries[k].channel,
               content |-> queries[k].content, detached |-> queries[k].detached]]
        BY <3>2, SelectTyped
      <4>2. PICK p : p = [kind |-> kind2, channel |-> queries[k].channel,
              content |-> queries[k].content, detached |-> queries[k].detached]
        OBVIOUS
      <4>3. /\ queries'[k] = p /\ p.kind = kind2
            /\ \A x \in Connections \ {k} : queries'[x] = queries[x]
        BY <4>1, <4>2 DEF TypeOK, QueriesOK
      <4>4. RowsOf(p) = {<<p.channel, p.content.viewer>>}
        BY <4>3 DEF RowsOf
      <4>5. <<c>> \notin RowsOf(p)
        BY <4>4, KeysDiffer
      <4>6. QED
        BY <2>1, <2>5, <4>3, <4>5 DEF SameStatements
    <3>3. QED
      BY <3>1, <3>2 DEF DeletesVotes, InsertsVote, UpdatesVote
  <2>7. \A c \in Channels : SameVoting(c)
    BY <2>1, <2>2 DEF SameVoting, SubscribersOf
  <2>8. QED
    BY <2>1, <2>6, <2>7, RowsUntouched DEF Running
<1>3. QED
  BY <1>1, <1>2 DEF DeletesVotes, SelectsVote, InsertsVote, UpdatesVote

LEMMA FailsRows ==
  ASSUME TypeOK, RowInv, NEW k \in Connections, Fails(k)
  PROVE  RowInv'
<1>1. Settle(k) /\ votings' = votings
  BY DEF Fails, databaseVars
<1>2. CASE ~Running /\ ProcessGoesOn
  BY <1>2, RowsDown DEF ProcessGoesOn, chatVars
<1>3. CASE ProcessEnds
  BY <1>3, RowsEnd
<1>4. CASE /\ adrift' = adrift \cup RowsOf(queries[k])
           /\ UNCHANGED <<channels, proc, list, clobbered>>
  <2>1. \A c \in Channels : SameVoting(c)
    BY <1>1, <1>4 DEF SameVoting, SubscribersOf
  <2>2. ASSUME NEW c \in Channels PROVE RowKept(c)'
    <3>1. CASE <<c>> \in RowsOf(queries[k])
      BY <1>4, <3>1 DEF RowKept
    <3>2. CASE <<c>> \notin RowsOf(queries[k])
      <4>1. SameStatements(<<c>>)
        BY <1>1, <1>4, <3>2, SettleRows
      <4>2. QED
        BY <1>4, <2>1, <4>1, RowUntouched DEF RowInv, RowsKept, Running
    <3>3. QED
      BY <3>1, <3>2
  <2>3. SubscribesLater'
    BY <1>4, <2>1 DEF RowInv, SubscribesLater, SameVoting, Running
  <2>4. QED
    BY <2>2, <2>3 DEF RowInv, RowsKept
<1>5. QED
  BY <1>2, <1>3, <1>4 DEF Fails, chatVars

\* A statement about a voting is sent: alone, it brings what the process goes by
\* from now on.
LEMMA RowIssued ==
  ASSUME TypeOK, RowInv, Running, Running', NEW c0 \in Channels,
         NEW kind \in {"save", "delete"}, NEW content, NEW detached \in BOOLEAN,
         Issue(kind, c0, content, detached), NEW q,
         q = [kind |-> kind, channel |-> c0, content |-> content, detached |-> detached],
         StatementOK(q),
         \A c \in Channels \ {c0} :
           SameVoting(c) /\ (c \notin clobbered' => c \notin clobbered),
         /\ c0 \notin clobbered'
         /\ kind = "save" => <<c0>> \notin adrift /\ ~Busy(<<c0>>)
         => BringsRow(q, c0)'
  PROVE  RowInv'
<1>1. q.kind = kind /\ q.channel = c0
  OBVIOUS
<1>2. \A c : <<c>> \in RowsOf(q) <=> c = c0
  BY <1>1, VotingWriters
<1>3. ASSUME NEW c \in Channels \ {c0} PROVE RowKept(c)'
  <2>1. <<c>> \notin RowsOf(q)
    BY <1>2
  <2>2. SameStatements(<<c>>)
    BY <2>1, IssueRows
  <2>3. QED
    BY <2>2, RowUntouched DEF RowInv, RowsKept
<1>4. RowKept(c0)'
  <2> SUFFICES ASSUME <<c0>> \notin adrift' PROVE RowKept(c0)'
    BY DEF RowKept
  <2>1. /\ OnlyStatement(<<c0>>, q)'
        /\ ~Busy(<<c0>>)
        /\ kind = "save" => <<c0>> \notin adrift
    BY <1>2, IssueRows
  <2>2. OneAtATime(<<c0>>)' /\ Busy(<<c0>>)'
    BY <2>1 DEF OnlyStatement
  <2>3. c0 \notin clobbered' => BringsRow(q, c0)'
    BY <2>1
  <2>4. ASSUME c0 \notin clobbered', NEW k \in Connections, <<c0>> \in RowsOf(queries'[k])
        PROVE  BringsRow(queries[k], c0)'
    <3>1. queries'[k] = q
      BY <2>1, <2>4 DEF OnlyStatement
    <3>2. QED
      BY <2>3, <2>4, <3>1 DEF BringsRow
  <2>5. QED
    BY <2>2, <2>4 DEF RowKept
<1>5. QED
  BY <1>3, <1>4 DEF RowInv, RowsKept, SubscribesLater


\* Whether the service is subscribed, as a value.
LEMMA IsMember == ASSUME NEW x, NEW S PROVE \E b \in BOOLEAN : b = (x \in S)
<1>1. CASE x \in S
  <2>1. TRUE = (x \in S)
    BY <1>1
  <2>2. QED
    BY <2>1
<1>2. CASE x \notin S
  <2>1. FALSE = (x \in S)
    BY <1>2
  <2>2. QED
    BY <2>1
<1>3. QED
  BY <1>1, <1>2

\* What a save will leave, and what the process goes by: the body put over a row
\* that is to be made, or over a row that is what the process went by.
LEMMA AddChatVotingRows ==
  ASSUME TypeOK, RowInv, NEW c0 \in Channels, NEW data, IsColumns(data),
         AddChatVoting(c0, data)
  PROVE  RowInv'
<1>1. PICK detached \in BOOLEAN : detached = FALSE
  OBVIOUS
<1>2. PICK q : q = [kind |-> "save", channel |-> c0, content |-> data,
                    detached |-> detached]
  OBVIOUS
<1>3. /\ Running /\ Running'
      /\ list' = [list EXCEPT ![c0] = Assign(EntryDefault, ForEntry(data))]
      /\ Listen(c0, data)
      /\ Issue("save", c0, data, detached)
      /\ clobbered' = IF votings[c0] = NoRow THEN clobbered ELSE clobbered \cup {c0}
      /\ votings' = votings
  BY <1>1 DEF AddChatVoting, databaseVars, Running
<1>4. StatementOK(q) /\ q.kind = "save" /\ q.content = data
  BY <1>2 DEF StatementOK, VoteKinds
<1>5. /\ list'[c0] = Assign(EntryDefault, ForEntry(data))
      /\ \A c \in Channels \ {c0} : list'[c] = list[c]
  BY <1>3 DEF TypeOK, ListOK
<1>6. /\ (Self \in SubscribersOf(c0))' <=>
           IF "listening" \in DOMAIN data THEN data["listening"] ELSE Self \in SubscribersOf(c0)
      /\ \A c \in Channels \ {c0} :
           (Self \in SubscribersOf(c))' <=> Self \in SubscribersOf(c)
  BY <1>3, ListenSubscribes
<1>7. \A c \in Channels \ {c0} :
        SameVoting(c) /\ (c \notin clobbered' => c \notin clobbered)
  BY <1>3, <1>5, <1>6 DEF SameVoting
<1>8. ASSUME c0 \notin clobbered', <<c0>> \notin adrift, ~Busy(<<c0>>)
      PROVE  BringsRow(q, c0)'
  <2>1. votings[c0] = NoRow /\ c0 \notin clobbered
    BY <1>3, <1>8
  <2>2. Self \notin SubscribersOf(c0)
    BY <1>3, <1>8, <2>1 DEF RowInv, RowsKept, RowKept, RowMatches
  <2>3. PICK b \in BOOLEAN : b = (Self \in SubscribersOf(c0))
    BY IsMember
  <2>4. PICK b2 \in BOOLEAN : b2 = (Self \in SubscribersOf(c0))'
    BY IsMember
  <2>5. b2 = IF "listening" \in DOMAIN data THEN data["listening"] ELSE b
    <3>1. "listening" \in DOMAIN data => data["listening"] \in BOOLEAN
      BY DEF IsColumns, ColumnType
    <3>2. QED
      BY <1>6, <2>3, <2>4, <3>1
  <2>6. VotingDefault = Assign(EntryDefault, [listening |-> b])
    <3>1. b = FALSE
      BY <2>2, <2>3
    <3>2. QED
      BY <3>1 DEF VotingDefault
  <2>7. DOMAIN EntryDefault = EntryColumns /\ DOMAIN data \subseteq Columns
    BY DefaultsAreColumns DEF IsColumns
  <2>8. Assign(VotingDefault, data)
          = Assign(Assign(EntryDefault, ForEntry(data)), [listening |-> b2])
    BY <2>5, <2>6, <2>7, BodyOverBoth
  <2>9. SavedRow(c0, data)' = Assign(VotingDefault, data)
    BY <1>3, <2>1 DEF SavedRow
  <2>10. InMemory(c0)' = Assign(Assign(EntryDefault, ForEntry(data)), [listening |-> b2])
    BY <1>5, <2>4 DEF InMemory
  <2>11. QED
    BY <1>4, <2>8, <2>9, <2>10 DEF BringsRow
<1>9. QED
  BY <1>2, <1>3, <1>4, <1>7, <1>8, RowIssued

LEMMA UpdateChatVotingRows ==
  ASSUME TypeOK, EntryInv, RowInv, NEW r \in Requests, NEW data, IsColumns(data),
         UpdateChatVoting(r, data)
  PROVE  RowInv'
<1>1. PICK detached \in BOOLEAN : detached = FALSE
  OBVIOUS
<1>2. PICK c0 : c0 = requests[r].channel
  OBVIOUS
<1>3. PICK row : row = requests[r].row
  OBVIOUS
<1>4. PICK content : content = Assign(row, data)
  OBVIOUS
<1>5. /\ Running /\ Running' /\ requests[r] # None
      /\ list' = [list EXCEPT ![c0] = Assign(@, ForEntry(data))]
      /\ Listen(c0, data)
      /\ Issue("save", c0, content, detached)
      /\ clobbered' = IF row = InMemory(c0) THEN clobbered ELSE clobbered \cup {c0}
      /\ votings' = votings
  BY <1>1, <1>2, <1>3, <1>4 DEF UpdateChatVoting, RequestEnds, databaseVars, Running
<1>6. c0 \in Channels /\ RowOK(row) /\ list[c0] # NoRow
  BY <1>2, <1>3, <1>5 DEF TypeOK, RequestsOK, EntryInv, RequestListed
<1>7. DOMAIN list[c0] = EntryColumns
  BY <1>6 DEF EntryInv, EntriesSound, Complete
<1>8. RowOK(content)
  <2>1. IsColumns(row) /\ DOMAIN row = Columns /\ DOMAIN data \subseteq Columns
    BY <1>6 DEF RowOK, IsColumns
  <2>2. QED
    BY <1>4, <2>1, AssignIsColumns DEF RowOK
<1>9. PICK q : q = [kind |-> "save", channel |-> c0, content |-> content,
                    detached |-> detached]
  OBVIOUS
<1>10. StatementOK(q) /\ q.kind = "save" /\ q.content = content
  BY <1>6, <1>8, <1>9 DEF StatementOK, VoteKinds, RowOK
<1>11. /\ list'[c0] = Assign(list[c0], ForEntry(data))
       /\ \A c \in Channels \ {c0} : list'[c] = list[c]
  BY <1>5, <1>6 DEF TypeOK, ListOK
<1>12. /\ (Self \in SubscribersOf(c0))' <=>
            IF "listening" \in DOMAIN data THEN data["listening"] ELSE Self \in SubscribersOf(c0)
       /\ \A c \in Channels \ {c0} :
            (Self \in SubscribersOf(c))' <=> Self \in SubscribersOf(c)
  BY <1>5, <1>6, ListenSubscribes
<1>13. \A c \in Channels \ {c0} :
         SameVoting(c) /\ (c \notin clobbered' => c \notin clobbered)
  BY <1>5, <1>11, <1>12 DEF SameVoting
<1>14. ASSUME c0 \notin clobbered' PROVE BringsRow(q, c0)'
  <2>1. row = InMemory(c0)
    BY <1>5, <1>14
  <2>2. PICK b \in BOOLEAN : b = (Self \in SubscribersOf(c0))
    BY IsMember
  <2>3. PICK b2 \in BOOLEAN : b2 = (Self \in SubscribersOf(c0))'
    BY IsMember
  <2>4. b2 = IF "listening" \in DOMAIN data THEN data["listening"] ELSE b
    <3>1. "listening" \in DOMAIN data => data["listening"] \in BOOLEAN
      BY DEF IsColumns, ColumnType
    <3>2. QED
      BY <1>12, <2>2, <2>3, <3>1
  <2>5. PICK e : e = list[c0]
    OBVIOUS
  <2>6. row = Assign(e, [listening |-> b])
    BY <2>1, <2>2, <2>5 DEF InMemory
  <2>7. DOMAIN e = EntryColumns /\ DOMAIN data \subseteq Columns
    BY <1>7, <2>5 DEF IsColumns
  <2>8. content = Assign(Assign(e, ForEntry(data)), [listening |-> b2])
    BY <1>4, <2>4, <2>6, <2>7, BodyOverBoth
  <2>9. InMemory(c0)' = Assign(Assign(e, ForEntry(data)), [listening |-> b2])
    BY <1>11, <2>3, <2>5 DEF InMemory
  <2>10. SavedRow(c0, content)' = content
    <3>1. PICK base : base = IF votings[c0] = NoRow THEN VotingDefault ELSE votings[c0]
      OBVIOUS
    <3>2. RowOK(base)
      BY <1>6, <3>1, DefaultsAreColumns DEF TypeOK, VotingsOK
    <3>3. Assign(base, content) = content
      BY <1>8, <3>2, AllOver
    <3>4. QED
      BY <1>5, <3>1, <3>3 DEF SavedRow
  <2>11. QED
    BY <1>10, <2>8, <2>9, <2>10 DEF BringsRow
<1>15. QED
  BY <1>5, <1>6, <1>9, <1>10, <1>13, <1>14, RowIssued

LEMMA DeleteChatVotingRows ==
  ASSUME TypeOK, RowInv, NEW r \in Requests, DeleteChatVoting(r)
  PROVE  RowInv'
<1>1. PICK detached \in BOOLEAN : detached = FALSE
  OBVIOUS
<1>2. PICK c0 : c0 = requests[r].channel
  OBVIOUS
<1>3. PICK q : q = [kind |-> "delete", channel |-> c0, content |-> NoColumns,
                    detached |-> detached]
  OBVIOUS
<1>4. /\ Running /\ Running' /\ requests[r] # None
      /\ Part(c0, Self)
      /\ Issue("delete", c0, NoColumns, detached)
      /\ clobbered' = clobbered \ {c0}
      /\ UNCHANGED <<votings, list>>
  BY <1>1, <1>2 DEF DeleteChatVoting, RequestEnds, databaseVars, Running
<1>5. c0 \in Channels
  BY <1>2, <1>4 DEF TypeOK, RequestsOK
<1>6. StatementOK(q) /\ q.kind = "delete"
  BY <1>3, <1>5 DEF StatementOK, VoteKinds
<1>7. channels' = [x \in DOMAIN channels \cup {c0} |->
        IF x = c0 THEN SubscribersOf(c0) \ {Self} ELSE channels[x]]
  BY <1>4 DEF Part
<1>8. SubscribersOf(c0)' = SubscribersOf(c0) \ {Self}
  BY <1>7 DEF SubscribersOf
<1>9. \A c \in Channels \ {c0} : SubscribersOf(c)' = SubscribersOf(c)
  BY <1>7 DEF SubscribersOf
<1>10. \A c \in Channels \ {c0} :
         SameVoting(c) /\ (c \notin clobbered' => c \notin clobbered)
  BY <1>4, <1>9 DEF SameVoting
<1>11. BringsRow(q, c0)'
  BY <1>6, <1>8 DEF BringsRow
<1>12. QED
  BY <1>3, <1>4, <1>5, <1>6, <1>10, <1>11, RowIssued

\* Clears, and selects of votes, are not about votings.
LEMMA OtherIssuedRows ==
  ASSUME TypeOK, RowInv, NEW kind \in {"clear", "select"}, NEW c0 \in Channels,
         NEW content, NEW detached \in BOOLEAN,
         Issue(kind, c0, content, detached),
         NEW q, q = [kind |-> kind, channel |-> c0, content |-> content,
                     detached |-> detached],
         StatementOK(q), UNCHANGED <<channels, proc, list, votings, clobbered>>
  PROVE  RowInv'
<1>1. q.kind = kind
  OBVIOUS
<1>2. ASSUME NEW c \in Channels PROVE SameVoting(c) /\ SameStatements(<<c>>)
  <2>1. <<c>> \notin RowsOf(q)
    BY <1>1, VotingWriters
  <2>2. SameStatements(<<c>>)
    BY <2>1, IssueRows
  <2>3. SameVoting(c)
    BY DEF SameVoting, SubscribersOf
  <2>4. QED
    BY <2>2, <2>3
<1>3. QED
  BY <1>2, RowsUntouched DEF Running

\* A step about neither the chat client, nor votings and their statements.
LEMMA RowsAlone ==
  ASSUME RowInv, UNCHANGED <<channels, proc, list, votings, queries, clobbered, adrift>>
  PROVE  RowInv'
<1>1. \A c \in Channels : SameVoting(c) /\ SameStatements(<<c>>)
  BY SameRows DEF SameVoting, SubscribersOf
<1>2. QED
  BY <1>1, RowsUntouched DEF Running

LEMMA MessageRows ==
  ASSUME TypeOK, RowInv, NEW c \in Channels,
         \/ \E m \in Messages : ClearMessage(c, m)
         \/ \E hasAccess \in BOOLEAN : ClearAnswered(c, hasAccess)
         \/ \E u \in Viewers, m \in Messages : VoteMessage(c, u, m)
  PROVE  RowInv'
<1>1. UNCHANGED <<channels, proc, list, votings, clobbered>>
  BY DEF ClearMessage, ClearAnswered, VoteMessage, databaseVars, historyVars, chatVars
<1>2. PICK detached \in BOOLEAN : detached = TRUE
  OBVIOUS
<1>3. CASE UNCHANGED <<queries, adrift>>
  BY <1>1, <1>3, RowsAlone
<1>4. CASE Issue("clear", c, NoColumns, TRUE)
  <2>1. PICK q : q = [kind |-> "clear", channel |-> c, content |-> NoColumns,
                      detached |-> detached]
    OBVIOUS
  <2>2. StatementOK(q) /\ Issue("clear", c, NoColumns, detached)
    BY <1>2, <1>4, <2>1 DEF StatementOK, VoteKinds
  <2>3. QED
    BY <1>1, <2>1, <2>2, OtherIssuedRows
<1>5. ASSUME NEW u \in Viewers, NEW m \in Messages,
             Issue("select", c, [viewer |-> u, message |-> m], TRUE)
      PROVE  RowInv'
  <2>1. PICK content : content = [viewer |-> u, message |-> m]
    OBVIOUS
  <2>2. PICK q : q = [kind |-> "select", channel |-> c, content |-> content,
                      detached |-> detached]
    OBVIOUS
  <2>3. StatementOK(q) /\ Issue("select", c, content, detached)
    BY <1>2, <1>5, <2>1, <2>2 DEF StatementOK, VoteKinds
  <2>4. QED
    BY <1>1, <2>2, <2>3, OtherIssuedRows
<1>6. QED
  BY <1>3, <1>4, <1>5 DEF ClearMessage, ClearAnswered, VoteMessage, historyVars

LEMMA ClearChatVotesRows ==
  ASSUME TypeOK, RowInv, NEW r \in Requests, ClearChatVotes(r)
  PROVE  RowInv'
<1>1. PICK detached \in BOOLEAN : detached = FALSE
  OBVIOUS
<1>2. PICK c : c = requests[r].channel
  OBVIOUS
<1>3. /\ requests[r] # None /\ Issue("clear", c, NoColumns, detached)
      /\ UNCHANGED <<channels, proc, list, votings, clobbered>>
  BY <1>1, <1>2 DEF ClearChatVotes, RequestEnds, databaseVars, chatVars
<1>4. c \in Channels
  BY <1>2, <1>3 DEF TypeOK, RequestsOK
<1>5. PICK q : q = [kind |-> "clear", channel |-> c, content |-> NoColumns,
                    detached |-> detached]
  OBVIOUS
<1>6. StatementOK(q)
  BY <1>4, <1>5 DEF StatementOK, VoteKinds
<1>7. QED
  BY <1>3, <1>4, <1>5, <1>6, OtherIssuedRows

LEMMA NextRows == TypeOK /\ EntryInv /\ RowInv /\ [Next]_vars => RowInv'
<1> SUFFICES ASSUME TypeOK, EntryInv, RowInv, [Next]_vars PROVE RowInv'
  OBVIOUS
<1>1. CASE Start \/ ModuleDestroy \/ ChatMoves
  BY <1>1, LifeRows
<1>2. CASE ModuleInit
  BY <1>2, ModuleInitRows
<1>3. CASE Exit \/ Crash
  BY <1>3, RowsEnd DEF Exit, Crash
<1>4. ASSUME NEW k \in Connections,
             \/ SavesVoting(k) \/ DeletesVoting(k) \/ DeletesVotes(k) \/ SelectsVote(k)
             \/ InsertsVote(k) \/ UpdatesVote(k) \/ Fails(k)
      PROVE  RowInv'
  BY <1>4, SavesVotingRows, DeletesVotingRows, VoteStatementRows, FailsRows
<1>5. ASSUME NEW c \in Channels, NEW data \in CreateInputs, AddChatVoting(c, data)
      PROVE  RowInv'
  BY <1>5, VotesAssumption, AddChatVotingRows
<1>6. ASSUME NEW c \in Channels, NEW r \in Requests, RequestReads(r, c) PROVE RowInv'
  BY <1>6, RowsAlone DEF RequestReads, chatVars, databaseVars, historyVars
<1>7. ASSUME NEW c \in Channels,
             \/ \E m \in Messages : ClearMessage(c, m)
             \/ \E hasAccess \in BOOLEAN : ClearAnswered(c, hasAccess)
             \/ \E u \in Viewers, m \in Messages : VoteMessage(c, u, m)
      PROVE  RowInv'
  BY <1>7, MessageRows
<1>8. ASSUME NEW r \in Requests, RequestRejected(r) PROVE RowInv'
  BY <1>8, RowsAlone DEF RequestRejected, chatVars, databaseVars, historyVars
<1>9. ASSUME NEW r \in Requests, NEW data \in UpdateInputs, UpdateChatVoting(r, data)
      PROVE  RowInv'
  BY <1>9, VotesAssumption, UpdateChatVotingRows
<1>10. ASSUME NEW r \in Requests, DeleteChatVoting(r) \/ ClearChatVotes(r) PROVE RowInv'
  BY <1>10, DeleteChatVotingRows, ClearChatVotesRows
<1>11. CASE UNCHANGED vars
  BY <1>11, RowsAlone DEF vars, chatVars, databaseVars, historyVars
<1>12. QED
  BY <1>1, <1>2, <1>3, <1>4, <1>5, <1>6, <1>7, <1>8, <1>9, <1>10, <1>11 DEF Next

\* Whatever creates, updates, deletes, failures and crashes interleave, on any
\* number of connections: a stored voting is what the process goes by, unless it was
\* changed on the ground of a row out of date, its statements overlapped, or one
\* failed.
THEOREM RowsFollowMemory == Spec => []RowFollowsMemory
<1>1. Init => RowInv
  <2>1. ASSUME Init PROVE RowInv
    <3>1. ~Running /\ \A c \in Channels : SubscribersOf(c) = {}
      BY <2>1 DEF Init, ChatInit, Running, SubscribersOf
    <3>2. QED
      BY <3>1 DEF RowInv, RowsKept, RowKept, SubscribesLater
  <2>2. QED
    BY <2>1
<1>2. RowInv => RowFollowsMemory
  BY DEF RowInv, RowsKept, RowKept, RowMatches, RowFollowsMemory
<1>3. QED
  BY <1>1, <1>2, NextRows, VotesTypeCorrect, EntryInvHolds, PTL DEF Spec
=============================================================================
