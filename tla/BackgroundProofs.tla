--------------------------- MODULE BackgroundProofs ---------------------------
(* Proofs about the three components that share nothing (MCBackground): the *)
(* mutex around the renewal of the token of IGDB, for any posts; the queue  *)
(* of log lines, for any number of them; and the recent messages, for any   *)
(* channels and limit.                                                      *)
EXTENDS MCBackground, SequenceTheorems, TLAPS

----------------------------------------------------------------------------
(* Sequences of numbers in order                                            *)

Before(s, t) == \A i \in 1 .. Len(s), j \in 1 .. Len(t) : s[i] < t[j]

\* Both halves are in order, and the first is before the second.
LEMMA ConcatInOrder ==
  ASSUME NEW s \in Seq(Nat), NEW t \in Seq(Nat)
  PROVE  InOrder(s \o t) <=> InOrder(s) /\ InOrder(t) /\ Before(s, t)
<1> DEFINE st == s \o t
<1>1. /\ Len(st) = Len(s) + Len(t) /\ Len(s) \in Nat /\ Len(t) \in Nat
      /\ \A i \in 1 .. Len(s) : st[i] = s[i]
      /\ \A i \in 1 .. Len(t) : st[Len(s) + i] = t[i]
  OBVIOUS
<1> HIDE DEF st
<1>2. ASSUME InOrder(st) PROVE InOrder(s) /\ InOrder(t) /\ Before(s, t)
  <2>1. InOrder(s)
    BY <1>1, <1>2 DEF InOrder
  <2>2. ASSUME NEW i \in 1 .. Len(t), NEW j \in 1 .. Len(t), i < j PROVE t[i] < t[j]
    <3>1. /\ Len(s) + i \in 1 .. Len(st) /\ Len(s) + j \in 1 .. Len(st)
          /\ Len(s) + i < Len(s) + j
      BY <1>1, <2>2
    <3>2. QED
      BY <1>1, <1>2, <3>1 DEF InOrder
  <2>3. ASSUME NEW i \in 1 .. Len(s), NEW j \in 1 .. Len(t) PROVE s[i] < t[j]
    <3>1. i \in 1 .. Len(st) /\ Len(s) + j \in 1 .. Len(st) /\ i < Len(s) + j
      BY <1>1
    <3>2. QED
      BY <1>1, <1>2, <3>1 DEF InOrder
  <2>4. QED
    BY <2>1, <2>2, <2>3 DEF InOrder, Before
<1>3. ASSUME InOrder(s), InOrder(t), Before(s, t),
             NEW i \in 1 .. Len(st), NEW j \in 1 .. Len(st), i < j
      PROVE  st[i] < st[j]
  <2>1. CASE j <= Len(s)
    <3>1. i \in 1 .. Len(s) /\ j \in 1 .. Len(s)
      BY <1>1, <1>3, <2>1
    <3>2. st[i] = s[i] /\ st[j] = s[j]
      BY <1>1, <3>1
    <3>3. QED
      BY <1>3, <3>1, <3>2 DEF InOrder
  <2>2. CASE i <= Len(s) /\ j > Len(s)
    <3>1. j - Len(s) \in 1 .. Len(t) /\ j = Len(s) + (j - Len(s)) /\ i \in 1 .. Len(s)
      BY <1>1, <2>2
    <3>2. st[i] = s[i] /\ st[j] = t[j - Len(s)]
      BY <1>1, <3>1
    <3>3. QED
      BY <1>3, <3>1, <3>2 DEF Before
  <2>3. CASE i > Len(s)
    <3>1. /\ i - Len(s) \in 1 .. Len(t) /\ i = Len(s) + (i - Len(s))
          /\ j - Len(s) \in 1 .. Len(t) /\ j = Len(s) + (j - Len(s))
          /\ i - Len(s) < j - Len(s)
      BY <1>1, <1>3, <2>3
    <3>2. st[i] = t[i - Len(s)] /\ st[j] = t[j - Len(s)]
      BY <1>1, <3>1
    <3>3. QED
      BY <1>3, <3>1, <3>2 DEF InOrder
  <2>4. QED
    BY <1>1, <2>1, <2>2, <2>3
<1>4. QED
  BY <1>2, <1>3 DEF InOrder, st

LEMMA ConcatElements ==
  ASSUME NEW s \in Seq(Nat), NEW t \in Seq(Nat)
  PROVE  Elements(s \o t) = Elements(s) \cup Elements(t)
<1> DEFINE st == s \o t
<1>1. /\ Len(st) = Len(s) + Len(t) /\ Len(s) \in Nat /\ Len(t) \in Nat
      /\ \A i \in 1 .. Len(s) : st[i] = s[i]
      /\ \A i \in 1 .. Len(t) : st[Len(s) + i] = t[i]
  OBVIOUS
<1> HIDE DEF st
<1>2. ASSUME NEW i \in 1 .. Len(st) PROVE st[i] \in Elements(s) \cup Elements(t)
  <2>1. CASE i <= Len(s)
    BY <1>1, <2>1 DEF Elements
  <2>2. CASE i > Len(s)
    <3>1. i - Len(s) \in 1 .. Len(t) /\ i = Len(s) + (i - Len(s))
      BY <1>1, <2>2
    <3>2. st[i] = t[i - Len(s)]
      BY <1>1, <3>1
    <3>3. QED
      BY <3>1, <3>2 DEF Elements
  <2>3. QED
    BY <1>1, <2>1, <2>2
<1>3. ASSUME NEW i \in 1 .. Len(s) PROVE s[i] \in Elements(st)
  <2>1. i \in 1 .. Len(st)
    BY <1>1
  <2>2. QED
    BY <1>1, <2>1 DEF Elements
<1>4. ASSUME NEW i \in 1 .. Len(t) PROVE t[i] \in Elements(st)
  <2>1. Len(s) + i \in 1 .. Len(st)
    BY <1>1
  <2>2. QED
    BY <1>1, <2>1 DEF Elements
<1>5. Elements(st) \subseteq Elements(s) \cup Elements(t)
  BY <1>2 DEF Elements
<1>6. Elements(s) \subseteq Elements(st) /\ Elements(t) \subseteq Elements(st)
  BY <1>3, <1>4 DEF Elements
<1>7. QED
  BY <1>5, <1>6 DEF st

LEMMA BeforeElements ==
  ASSUME NEW s \in Seq(Nat), NEW t \in Seq(Nat)
  PROVE  Before(s, t) <=> \A m \in Elements(s), n \in Elements(t) : m < n
BY DEF Before, Elements

LEMMA Singleton ==
  ASSUME NEW n \in Nat
  PROVE  <<n>> \in Seq(Nat) /\ InOrder(<<n>>) /\ Elements(<<n>>) = {n}
BY DEF InOrder, Elements

LEMMA Empty == <<>> \in Seq(Nat) /\ InOrder(<<>>) /\ Elements(<<>>) = {}
BY DEF InOrder, Elements

\* Three sequences in a row, of which the last two may be waiting.
LEMMA ThreeInOrder ==
  ASSUME NEW s \in Seq(Nat), NEW t \in Seq(Nat), NEW u \in Seq(Nat)
  PROVE  /\ InOrder(s \o t \o u) <=>
              /\ InOrder(s) /\ InOrder(t) /\ InOrder(u)
              /\ \A m \in Elements(s), n \in Elements(t) : m < n
              /\ \A m \in Elements(s), n \in Elements(u) : m < n
              /\ \A m \in Elements(t), n \in Elements(u) : m < n
         /\ Elements(s \o t \o u) = Elements(s) \cup Elements(t) \cup Elements(u)
<1>1. s \o t \in Seq(Nat)
  OBVIOUS
<1>2. InOrder(s \o t \o u) <=> InOrder(s \o t) /\ InOrder(u) /\ Before(s \o t, u)
  BY <1>1, ConcatInOrder
<1>3. Elements(s \o t) = Elements(s) \cup Elements(t)
  BY ConcatElements
<1>4. Elements(s \o t \o u) = Elements(s \o t) \cup Elements(u)
  BY <1>1, ConcatElements
<1>5. Before(s \o t, u) <=> \A m \in Elements(s \o t), n \in Elements(u) : m < n
  BY <1>1, BeforeElements
<1>6. InOrder(s \o t) <=>
        InOrder(s) /\ InOrder(t) /\ \A m \in Elements(s), n \in Elements(t) : m < n
  BY ConcatInOrder, BeforeElements
<1>7. QED
  BY <1>2, <1>3, <1>4, <1>5, <1>6

\* A number greater than all of a sequence goes to its end.
LEMMA AppendInOrder ==
  ASSUME NEW s \in Seq(Nat), NEW n \in Nat, \A m \in Elements(s) : m < n
  PROVE  /\ Append(s, n) \in Seq(Nat)
         /\ InOrder(s) => InOrder(Append(s, n))
         /\ Elements(Append(s, n)) = Elements(s) \cup {n}
<1>1. PICK t \in Seq(Nat) : t = <<n>> /\ InOrder(t) /\ Elements(t) = {n}
  BY Singleton
<1>2. Append(s, n) = s \o t
  BY <1>1
<1>3. Before(s, t)
  BY <1>1, BeforeElements
<1>4. s \o t \in Seq(Nat)
  OBVIOUS
<1>5. InOrder(s) => InOrder(s \o t)
  BY <1>1, <1>3, ConcatInOrder
<1>6. Elements(s \o t) = Elements(s) \cup {n}
  <2>1. Elements(s \o t) = Elements(s) \cup Elements(t)
    BY ConcatElements
  <2>2. QED
    BY <1>1, <2>1
<1>7. QED
  BY <1>2, <1>4, <1>5, <1>6

----------------------------------------------------------------------------
(* Log lines                                                                *)

\* LogsInOrder, part by part.
Kept == Elements(ingested) \cup Elements(logBatch) \cup Elements(logQueue)

LogParts ==
  /\ InOrder(ingested) /\ InOrder(logBatch) /\ InOrder(logQueue)
  /\ \A m \in Elements(ingested), n \in Elements(logBatch) : m < n
  /\ \A m \in Elements(ingested), n \in Elements(logQueue) : m < n
  /\ \A m \in Elements(logBatch), n \in Elements(logQueue) : m < n
  /\ Kept \cap dropped = {}
  /\ Kept \cup dropped = 1 .. logged

\* Lines are numbers.
LEMMA LinesAreNumbers ==
  ASSUME LogTypeOK
  PROVE  ingested \in Seq(Nat) /\ logBatch \in Seq(Nat) /\ logQueue \in Seq(Nat)
<1>1. 1 .. MaxLogs \subseteq Nat
  BY LogsAssumption
<1>2. \A s \in Seq(1 .. MaxLogs) : s \in Seq(Nat)
  BY <1>1, SeqMonotonic
<1>3. QED
  BY <1>2 DEF LogTypeOK

LEMMA LogsByParts == ASSUME LogTypeOK PROVE LogsInOrder <=> LogParts
<1>1. ingested \in Seq(Nat) /\ logBatch \in Seq(Nat) /\ logQueue \in Seq(Nat)
  BY LinesAreNumbers
<1>2. LogsInOrder <=>
        /\ InOrder(ingested \o logBatch \o logQueue)
        /\ Elements(ingested \o logBatch \o logQueue) \cap dropped = {}
        /\ Elements(ingested \o logBatch \o logQueue) \cup dropped = 1 .. logged
  BY DEF LogsInOrder, InOrder
<1>3. InOrder(ingested \o logBatch \o logQueue) <=>
        /\ InOrder(ingested) /\ InOrder(logBatch) /\ InOrder(logQueue)
        /\ \A m \in Elements(ingested), n \in Elements(logBatch) : m < n
        /\ \A m \in Elements(ingested), n \in Elements(logQueue) : m < n
        /\ \A m \in Elements(logBatch), n \in Elements(logQueue) : m < n
  BY <1>1, ThreeInOrder
<1>4. Elements(ingested \o logBatch \o logQueue) = Kept
  BY <1>1, ThreeInOrder DEF Kept
<1>5. QED
  BY <1>2, <1>3, <1>4 DEF LogParts

\* A step that keeps the types keeps the order: by what it does to the three parts.
LEMMA LogNextInOrder ==
  ASSUME LogTypeOK, LogTypeOK', LogParts, LogNext
  PROVE  LogParts'
<1>1. /\ ingested \in Seq(Nat) /\ logBatch \in Seq(Nat) /\ logQueue \in Seq(Nat)
      /\ logged \in Nat
  BY LinesAreNumbers, LogsAssumption DEF LogTypeOK
<1>2. CASE CreateLog
  <2>1. /\ logQueue' = Append(logQueue, logged + 1) /\ logged' = logged + 1
        /\ UNCHANGED <<logBatch, ingested, dropped>>
    BY <1>2 DEF CreateLog
  <2>2. Kept \subseteq 1 .. logged /\ dropped \subseteq 1 .. logged
    BY DEF LogParts
  <2>3. \A m \in Kept \cup dropped : m < logged + 1
    BY <1>1, <2>2
  <2>4. InOrder(logQueue') /\ Elements(logQueue') = Elements(logQueue) \cup {logged + 1}
    BY <1>1, <2>1, <2>3, AppendInOrder DEF LogParts, Kept
  <2>5. Kept' = Kept \cup {logged + 1}
    BY <2>1, <2>4 DEF Kept
  <2>6. logged + 1 \notin dropped
    BY <1>1, <2>3
  <2>7. 1 .. logged' = 1 .. logged \cup {logged + 1}
    BY <1>1, <2>1
  <2>8. /\ Kept' \cap dropped' = {}
        /\ Kept' \cup dropped' = 1 .. logged'
    BY <2>1, <2>5, <2>6, <2>7 DEF LogParts
  <2>9. /\ \A m \in Elements(ingested'), n \in Elements(logQueue') : m < n
        /\ \A m \in Elements(logBatch'), n \in Elements(logQueue') : m < n
    BY <2>1, <2>3, <2>4 DEF LogParts, Kept
  <2>10. QED
    BY <2>1, <2>4, <2>8, <2>9 DEF LogParts
<1>3. CASE SendLogs
  <2>1. /\ logBatch = <<>> /\ logBatch' = logQueue /\ logQueue' = <<>>
        /\ UNCHANGED <<logged, ingested, dropped>>
    BY <1>3 DEF SendLogs
  <2>2. Elements(logBatch) = {} /\ Elements(logQueue') = {} /\ InOrder(logQueue')
    BY <2>1, Empty
  <2>3. Kept' = Kept
    BY <2>1, <2>2 DEF Kept
  <2>4. QED
    BY <2>1, <2>2, <2>3 DEF LogParts
<1>4. CASE LogsIngested
  <2>1. /\ ingested' = ingested \o logBatch /\ logBatch' = <<>>
        /\ UNCHANGED <<logQueue, logged, dropped>>
    BY <1>4 DEF LogsIngested
  <2>2. Elements(logBatch') = {} /\ InOrder(logBatch')
    BY <2>1, Empty
  <2>3. Elements(ingested') = Elements(ingested) \cup Elements(logBatch)
    BY <1>1, <2>1, ConcatElements
  <2>4. InOrder(ingested')
    BY <1>1, <2>1, ConcatInOrder, BeforeElements DEF LogParts
  <2>5. Kept' = Kept
    BY <2>1, <2>2, <2>3 DEF Kept
  <2>6. QED
    BY <2>1, <2>2, <2>3, <2>4, <2>5 DEF LogParts
<1>5. CASE LogsFail
  <2>1. /\ dropped' = dropped \cup Elements(logBatch) /\ logBatch' = <<>>
        /\ UNCHANGED <<logQueue, logged, ingested>>
    BY <1>5 DEF LogsFail
  <2>2. Elements(logBatch') = {} /\ InOrder(logBatch')
    BY <2>1, Empty
  <2>3. Kept' = Elements(ingested) \cup Elements(logQueue)
    BY <2>1, <2>2 DEF Kept
  <2>4. \A m \in Elements(logBatch) : m \notin Kept'
    <3>1. Elements(logBatch) \subseteq Nat /\ Elements(ingested) \subseteq Nat
      BY <1>1 DEF Elements
    <3>2. \A m \in Elements(logBatch) : m \notin Elements(ingested)
      BY <3>1 DEF LogParts
    <3>3. \A m \in Elements(logBatch) : m \notin Elements(logQueue)
      BY <3>1 DEF LogParts
    <3>4. QED
      BY <2>3, <3>2, <3>3
  <2>5. Kept' \cap dropped' = {} /\ Kept' \cup dropped' = 1 .. logged'
    BY <2>1, <2>3, <2>4 DEF LogParts, Kept
  <2>6. QED
    BY <2>1, <2>2, <2>5 DEF LogParts
<1>6. CASE LogRestart
  <2>1. /\ dropped' = dropped \cup Elements(logBatch \o logQueue)
        /\ logBatch' = <<>> /\ logQueue' = <<>>
        /\ UNCHANGED <<logged, ingested>>
    BY <1>6 DEF LogRestart
  <2>2. /\ Elements(logBatch') = {} /\ InOrder(logBatch')
        /\ Elements(logQueue') = {} /\ InOrder(logQueue')
    BY <2>1, Empty
  <2>3. dropped' = dropped \cup Elements(logBatch) \cup Elements(logQueue)
    BY <1>1, <2>1, ConcatElements
  <2>4. Kept' = Elements(ingested)
    BY <2>1, <2>2 DEF Kept
  <2>5. \A m \in Elements(logBatch) \cup Elements(logQueue) : m \notin Elements(ingested)
    <3>1. Elements(ingested) \subseteq Nat
      BY <1>1 DEF Elements
    <3>2. QED
      BY <3>1 DEF LogParts
  <2>6. Kept' \cap dropped' = {} /\ Kept' \cup dropped' = 1 .. logged'
    BY <2>1, <2>3, <2>4, <2>5 DEF LogParts, Kept
  <2>7. QED
    BY <2>1, <2>2, <2>6 DEF LogParts
<1>7. QED
  BY <1>2, <1>3, <1>4, <1>5, <1>6 DEF LogNext

LEMMA LogNextTyped == ASSUME LogTypeOK, LogNext PROVE LogTypeOK'
<1>1. MaxLogs \in Nat /\ logged \in 0 .. MaxLogs
  BY LogsAssumption DEF LogTypeOK
<1>2. PICK Line : Line = 1 .. MaxLogs
  OBVIOUS
<1>3. /\ logQueue \in Seq(Line) /\ logBatch \in Seq(Line) /\ ingested \in Seq(Line)
      /\ dropped \subseteq Line
  BY <1>2 DEF LogTypeOK
<1>4. \A s \in Seq(Line) : Elements(s) \subseteq Line
  BY DEF Elements
<1>5. CASE CreateLog
  <2>1. logged + 1 \in Line /\ logged + 1 \in 0 .. MaxLogs
    BY <1>1, <1>2, <1>5 DEF CreateLog
  <2>2. QED
    BY <1>2, <1>3, <1>5, <2>1 DEF CreateLog, LogTypeOK
<1>6. CASE SendLogs
  BY <1>1, <1>2, <1>3, <1>6 DEF SendLogs, LogTypeOK
<1>7. CASE LogsIngested
  BY <1>1, <1>2, <1>3, <1>7 DEF LogsIngested, LogTypeOK
<1>8. CASE LogsFail
  <2>1. dropped' \subseteq Line
    BY <1>3, <1>4, <1>8 DEF LogsFail
  <2>2. QED
    BY <1>1, <1>2, <1>3, <1>8, <2>1 DEF LogsFail, LogTypeOK
<1>9. CASE LogRestart
  <2>1. logBatch \o logQueue \in Seq(Line)
    BY <1>3
  <2>2. dropped' \subseteq Line
    BY <1>3, <1>4, <1>9, <2>1 DEF LogRestart
  <2>3. QED
    BY <1>1, <1>2, <1>3, <1>9, <2>2 DEF LogRestart, LogTypeOK
<1>10. QED
  BY <1>5, <1>6, <1>7, <1>8, <1>9 DEF LogNext

LogInv == LogTypeOK /\ LogParts

LEMMA LogInitInv == LogInit => LogInv
<1> SUFFICES ASSUME LogInit PROVE LogInv
  OBVIOUS
<1>1. /\ logQueue = <<>> /\ logBatch = <<>> /\ ingested = <<>>
      /\ logged = 0 /\ dropped = {}
  BY DEF LogInit
<1>2. LogTypeOK
  BY <1>1, LogsAssumption DEF LogTypeOK
<1>3. Kept = {}
  BY <1>1, Empty DEF Kept
<1>4. LogParts
  BY <1>1, <1>3, Empty DEF LogParts
<1>5. QED
  BY <1>2, <1>4 DEF LogInv

LEMMA LogNextInv == LogInv /\ [LogNext]_logVars => LogInv'
<1>1. ASSUME LogInv, LogNext PROVE LogInv'
  BY <1>1, LogNextTyped, LogNextInOrder DEF LogInv
<1>2. ASSUME LogInv, UNCHANGED logVars PROVE LogInv'
  <2>1. UNCHANGED <<logQueue, logBatch, logged, ingested, dropped>>
    BY <1>2 DEF logVars
  <2>2. LogTypeOK'
    BY <1>2, <2>1 DEF LogInv, LogTypeOK
  <2>3. LogParts'
    BY <1>2, <2>1 DEF LogInv, LogParts, Kept
  <2>4. QED
    BY <2>2, <2>3 DEF LogInv
<1>3. QED
  BY <1>1, <1>2

\* However batches fail and processes end: lines arrive in the order they were logged
\* in, each once, and those that do not went with a batch or a process.
THEOREM LinesInOrder == LogSpec => []LogsInOrder
<1>1. LogInv => LogsInOrder
  BY LogsByParts DEF LogInv
<1>2. QED
  BY <1>1, LogInitInv, LogNextInv, PTL DEF LogSpec

----------------------------------------------------------------------------
(* Requests to IGDB                                                         *)

\* RenewsAlone, and that whoever renews waits for Twitch or for its token to be saved:
\* nothing else ends a renewal.
IgdbInv ==
  /\ IgdbTypeOK
  /\ RenewsAlone
  /\ \A p \in Posts : posts[p].renews => posts[p].stage \in {"authenticate", "save"}

LEMMA NoPostTyped ==
  /\ NoPost \in Post /\ NoPost.renews = FALSE /\ NoPost.stage = "none"
  /\ NoPost.attempt = 1 /\ NoPost.token \in IgdbToken
<1>1. NoToken \in IgdbToken
  BY IgdbAssumption DEF IgdbToken, NoToken
<1>2. "none" \in PostStage /\ 1 \in 1 .. 2
  BY DEF PostStage
<1>3. QED
  BY <1>1, <1>2 DEF NoPost, Post

\* A post that waits, and one that renews.
LEMMA WaitingTyped ==
  ASSUME NEW stage \in PostStage
  PROVE  \E post \in Post : /\ post = [NoPost EXCEPT !.stage = stage]
                            /\ post.renews = FALSE /\ post.stage = stage
<1>1. [NoPost EXCEPT !.stage = stage] \in Post
  BY NoPostTyped DEF Post
<1>2. [NoPost EXCEPT !.stage = stage].renews = FALSE
      /\ [NoPost EXCEPT !.stage = stage].stage = stage
  BY NoPostTyped DEF Post
<1>3. QED
  BY <1>1, <1>2

LEMMA RenewingTyped ==
  \E post \in Post : post = Renewing /\ post.renews = TRUE /\ post.stage = "authenticate"
<1>1. "authenticate" \in PostStage
  BY DEF PostStage
<1>2. Renewing \in Post
  BY <1>1, NoPostTyped DEF Renewing, Post
<1>3. Renewing.renews = TRUE /\ Renewing.stage = "authenticate"
  BY NoPostTyped DEF Renewing, Post
<1>4. QED
  BY <1>2, <1>3

LEMMA SendsTyped ==
  ASSUME IgdbTypeOK, NEW attempt \in 1 .. 2
  PROVE  /\ Sends(attempt) \in Post
         /\ Sends(attempt).renews = FALSE
         /\ Sends(attempt).stage \in {"send", "options"}
BY DEF Sends, IgdbTypeOK, Post, PostStage

\* A request goes on alone: it neither gets the mutex nor begins or ends to wait for it.
LEMMA PostGoesOn ==
  ASSUME IgdbInv, NEW p \in Posts, NEW post \in Post,
         posts' = [posts EXCEPT ![p] = post], UNCHANGED <<holder, turns>>,
         posts[p].stage # "turn",
         post.stage # "turn", post.stage = "unlock" => holder # "unlocked",
         post.renews = posts[p].renews,
         post.renews => post.stage \in {"authenticate", "save"}
  PROVE  /\ posts' \in [Posts -> Post]
         /\ RenewsAlone'
         /\ \A q \in Posts : posts'[q].renews => posts'[q].stage \in {"authenticate", "save"}
<1>1. posts \in [Posts -> Post]
  BY DEF IgdbInv, IgdbTypeOK
<1>2. posts'[p] = post /\ \A q \in Posts \ {p} : posts'[q] = posts[q]
  BY <1>1
<1>3. posts' \in [Posts -> Post]
  BY <1>1
<1>4. \A q \in Posts : posts'[q].renews <=> holder' = q
  BY <1>2 DEF IgdbInv, RenewsAlone
<1>5. \A q \in Posts :
        posts'[q].stage = "turn" <=> \E i \in 1 .. Len(turns') : turns'[i] = q
  BY <1>2 DEF IgdbInv, RenewsAlone
<1>6. turns' # <<>> \/ (\E q \in Posts : posts'[q].stage = "unlock") => holder' # "unlocked"
  BY <1>2 DEF IgdbInv, RenewsAlone
<1>7. RenewsAlone'
  BY <1>4, <1>5, <1>6 DEF IgdbInv, RenewsAlone
<1>8. QED
  BY <1>2, <1>3, <1>7 DEF IgdbInv

\* The queue of the mutex, and who is in it.
LEMMA TurnsTyped ==
  ASSUME IgdbTypeOK, turns # <<>>
  PROVE  /\ Head(turns) \in Posts /\ Head(turns) = turns[1]
         /\ Len(turns) \in Nat \ {0}
         /\ Tail(turns) \in Seq(Posts) /\ Len(Tail(turns)) = Len(turns) - 1
         /\ \A i \in 1 .. Len(Tail(turns)) : Tail(turns)[i] = turns[i + 1]
BY DEF IgdbTypeOK

\* The mutex goes to whoever waits longest, and else to nobody.
LEMMA ReleasesInv ==
  ASSUME IgdbInv, NEW p \in Posts, posts[p].renews, NEW after \in Post,
         after.renews = FALSE, after.stage \in {"none", "send", "options"},
         Releases(p, after)
  PROVE  /\ posts' \in [Posts -> Post]
         /\ holder' \in Posts \cup {"unlocked"}
         /\ turns' \in Seq(Posts)
         /\ RenewsAlone'
         /\ \A q \in Posts : posts'[q].renews => posts'[q].stage \in {"authenticate", "save"}
<1>1. /\ IgdbTypeOK /\ posts \in [Posts -> Post] /\ "unlocked" \notin Posts
      /\ holder = p /\ posts[p].stage # "turn"
      /\ \A q \in Posts : posts[q].renews <=> q = p
  BY IgdbAssumption DEF IgdbInv, IgdbTypeOK, RenewsAlone
<1>2. PICK sends \in Post : sends = Sends(1) /\ sends.renews = FALSE
                            /\ sends.stage \in {"send", "options"}
  <2>1. 1 \in 1 .. 2
    OBVIOUS
  <2>2. QED
    BY <1>1, <2>1, SendsTyped
<1>3. PICK renewing \in Post : renewing = Renewing /\ renewing.renews = TRUE
                               /\ renewing.stage = "authenticate"
  BY RenewingTyped
<1>4. posts' = [q \in Posts |->
        IF q = p THEN after
        ELSE IF posts[q].stage = "unlock" /\ turns = <<>> THEN sends
        ELSE IF q = holder' THEN renewing
        ELSE posts[q]]
  BY <1>2, <1>3 DEF Releases
<1>5. posts' \in [Posts -> Post]
  BY <1>1, <1>4
<1>6. CASE turns = <<>>
  <2>1. holder' = "unlocked" /\ turns' = <<>>
    BY <1>6 DEF Releases
  <2>2. \A q \in Posts : posts[q].stage # "turn"
    BY <1>6 DEF IgdbInv, RenewsAlone
  <2>3. \A q \in Posts : posts'[q].renews = FALSE /\ posts'[q].stage \notin {"turn", "unlock"}
    BY <1>1, <1>2, <1>4, <1>6, <2>1, <2>2
  <2>4. RenewsAlone'
    BY <1>1, <2>1, <2>3 DEF RenewsAlone
  <2>5. QED
    BY <1>5, <2>1, <2>3, <2>4
<1>7. CASE turns # <<>>
  <2>1. /\ holder' = turns[1] /\ turns' = Tail(turns) /\ turns[1] \in Posts
        /\ Len(turns) \in Nat \ {0}
        /\ turns' \in Seq(Posts) /\ Len(turns') = Len(turns) - 1
        /\ \A i \in 1 .. Len(turns') : turns'[i] = turns[i + 1]
    BY <1>1, <1>7, TurnsTyped DEF Releases
  <2>2. \A q \in Posts : posts[q].stage = "turn" <=> \E i \in 1 .. Len(turns) : turns[i] = q
    BY DEF IgdbInv, RenewsAlone
  <2>3. \A i, j \in 1 .. Len(turns) : turns[i] = turns[j] => i = j
    BY DEF IgdbInv, RenewsAlone
  <2>4. 1 \in 1 .. Len(turns)
    BY <2>1
  <2>5. posts[turns[1]].stage = "turn"
    BY <2>1, <2>2, <2>4
  <2>6. turns[1] # p
    BY <1>1, <2>5
  <2>7. /\ posts'[p] = after /\ posts'[turns[1]] = renewing
        /\ \A q \in Posts : q # p /\ q # turns[1] => posts'[q] = posts[q]
    BY <1>4, <1>7, <2>1, <2>6
  <2>8. \A q \in Posts : posts'[q].renews <=> holder' = q
    BY <1>1, <1>3, <2>1, <2>6, <2>7
  <2>9. ASSUME NEW q \in Posts
        PROVE  posts'[q].stage = "turn" <=> \E i \in 1 .. Len(turns') : turns'[i] = q
    <3>1. (\E i \in 1 .. Len(turns') : turns'[i] = q)
            <=> \E j \in 2 .. Len(turns) : turns[j] = q
      <4>1. ASSUME NEW i \in 1 .. Len(turns'), turns'[i] = q
            PROVE  \E j \in 2 .. Len(turns) : turns[j] = q
        <5>1. i + 1 \in 2 .. Len(turns) /\ turns[i + 1] = q
          BY <2>1, <4>1
        <5>2. QED
          BY <5>1
      <4>2. ASSUME NEW j \in 2 .. Len(turns), turns[j] = q
            PROVE  \E i \in 1 .. Len(turns') : turns'[i] = q
        <5>1. j - 1 \in 1 .. Len(turns') /\ (j - 1) + 1 = j
          BY <2>1
        <5>2. turns'[j - 1] = q
          BY <2>1, <4>2, <5>1
        <5>3. QED
          BY <5>1, <5>2
      <4>3. QED
        BY <4>1, <4>2
    <3>2. (\E j \in 2 .. Len(turns) : turns[j] = q)
            <=> posts[q].stage = "turn" /\ q # turns[1]
      <4>1. ASSUME NEW j \in 2 .. Len(turns), turns[j] = q
            PROVE  posts[q].stage = "turn" /\ q # turns[1]
        <5>1. j \in 1 .. Len(turns) /\ j # 1
          BY <2>1
        <5>2. QED
          BY <2>2, <2>3, <2>4, <4>1, <5>1
      <4>2. ASSUME posts[q].stage = "turn", q # turns[1]
            PROVE  \E j \in 2 .. Len(turns) : turns[j] = q
        <5>1. PICK j \in 1 .. Len(turns) : turns[j] = q
          BY <2>2, <4>2
        <5>2. j \in 2 .. Len(turns)
          BY <2>1, <4>2, <5>1
        <5>3. QED
          BY <5>1, <5>2
      <4>3. QED
        BY <4>1, <4>2
    <3>3. posts'[q].stage = "turn" <=> posts[q].stage = "turn" /\ q # turns[1]
      BY <1>1, <1>3, <2>6, <2>7
    <3>4. QED
      BY <3>1, <3>2, <3>3
  <2>10. ASSUME NEW i \in 1 .. Len(turns'), NEW j \in 1 .. Len(turns'), turns'[i] = turns'[j]
         PROVE  i = j
    <3>1. /\ i + 1 \in 1 .. Len(turns) /\ j + 1 \in 1 .. Len(turns)
          /\ turns[i + 1] = turns[j + 1]
      BY <2>1, <2>10
    <3>2. i + 1 = j + 1
      BY <2>3, <3>1
    <3>3. QED
      BY <2>1, <3>2
  <2>11. holder' # "unlocked"
    BY <1>1, <2>1
  <2>12. RenewsAlone'
    BY <2>8, <2>9, <2>10, <2>11 DEF RenewsAlone
  <2>13. \A q \in Posts : posts'[q].renews => posts'[q].stage \in {"authenticate", "save"}
    BY <1>1, <1>3, <2>1, <2>7, <2>8
  <2>14. QED
    BY <1>5, <2>1, <2>12, <2>13
<1>8. QED
  BY <1>6, <1>7

\* A refused request gets the mutex, or a place in its queue.
LEMMA AcquiresMutexInv ==
  ASSUME IgdbInv, NEW p \in Posts, AcquiresMutex(p)
  PROVE  IgdbInv'
<1>1. /\ IgdbTypeOK /\ posts \in [Posts -> Post] /\ "unlocked" \notin Posts
      /\ posts[p].stage = "send" /\ ~posts[p].renews /\ holder # p
  BY IgdbAssumption DEF IgdbInv, IgdbTypeOK, RenewsAlone, AcquiresMutex, Refused
<1>2. UNCHANGED <<accessToken, igdbOptions, igdbIssued, igdbLive>>
  BY DEF AcquiresMutex
<1>3. CASE holder = "unlocked"
  <2>1. PICK renewing \in Post : renewing = Renewing /\ renewing.renews = TRUE
                                 /\ renewing.stage = "authenticate"
    BY RenewingTyped
  <2>2. posts' = [posts EXCEPT ![p] = renewing] /\ holder' = p /\ turns' = turns
    BY <1>3, <2>1 DEF AcquiresMutex
  <2>3. posts'[p] = renewing /\ \A q \in Posts \ {p} : posts'[q] = posts[q]
    BY <1>1, <2>2
  <2>4. turns = <<>> /\ \A q \in Posts : ~posts[q].renews /\ posts[q].stage # "turn"
    BY <1>1, <1>3 DEF IgdbInv, RenewsAlone
  <2>5. RenewsAlone'
    BY <1>1, <2>1, <2>2, <2>3, <2>4 DEF RenewsAlone
  <2>6. QED
    BY <1>1, <1>2, <2>1, <2>2, <2>3, <2>4, <2>5 DEF IgdbInv, IgdbTypeOK
<1>4. CASE holder # "unlocked"
  <2>1. PICK turn \in Post : turn = [NoPost EXCEPT !.stage = "turn"] /\ turn.renews = FALSE
                             /\ turn.stage = "turn"
    <3>1. "turn" \in PostStage
      BY DEF PostStage
    <3>2. QED
      BY <3>1, WaitingTyped
  <2>2. posts' = [posts EXCEPT ![p] = turn] /\ holder' = holder /\ turns' = Append(turns, p)
    BY <1>4, <2>1 DEF AcquiresMutex
  <2>3. posts'[p] = turn /\ \A q \in Posts \ {p} : posts'[q] = posts[q]
    BY <1>1, <2>2
  <2>4. /\ turns' \in Seq(Posts) /\ Len(turns) \in Nat /\ Len(turns') = Len(turns) + 1
        /\ turns'[Len(turns) + 1] = p
        /\ \A i \in 1 .. Len(turns) : turns'[i] = turns[i]
    BY <1>1, <2>2 DEF IgdbTypeOK
  <2>5. \A i \in 1 .. Len(turns) : turns[i] # p
    BY <1>1 DEF IgdbInv, RenewsAlone
  <2>6. ASSUME NEW q \in Posts
        PROVE  posts'[q].stage = "turn" <=> \E i \in 1 .. Len(turns') : turns'[i] = q
    <3>1. CASE q = p
      <4>1. posts'[q].stage = "turn"
        BY <2>1, <2>3, <3>1
      <4>2. Len(turns) + 1 \in 1 .. Len(turns')
        BY <2>4
      <4>3. QED
        BY <2>4, <3>1, <4>1, <4>2
    <3>2. CASE q # p
      <4>1. posts[q].stage = "turn" <=> \E i \in 1 .. Len(turns) : turns[i] = q
        BY DEF IgdbInv, RenewsAlone
      <4>2. (\E i \in 1 .. Len(turns) : turns[i] = q)
              <=> \E i \in 1 .. Len(turns') : turns'[i] = q
        BY <2>4, <3>2
      <4>3. QED
        BY <2>3, <3>2, <4>1, <4>2
    <3>3. QED
      BY <3>1, <3>2
  <2>7. ASSUME NEW i \in 1 .. Len(turns'), NEW j \in 1 .. Len(turns'), turns'[i] = turns'[j]
        PROVE  i = j
    <3>1. CASE i <= Len(turns) /\ j <= Len(turns)
      BY <2>4, <2>7, <3>1 DEF IgdbInv, RenewsAlone
    <3>2. CASE i = Len(turns) + 1 \/ j = Len(turns) + 1
      BY <2>4, <2>5, <2>7, <3>2
    <3>3. QED
      BY <2>4, <3>1, <3>2
  <2>8. RenewsAlone'
    <3>1. \A q \in Posts : posts'[q].renews <=> holder' = q
      BY <1>1, <2>1, <2>2, <2>3 DEF IgdbInv, RenewsAlone
    <3>2. QED
      BY <1>4, <2>2, <2>6, <2>7, <3>1 DEF RenewsAlone
  <2>9. QED
    BY <1>1, <1>2, <2>1, <2>2, <2>3, <2>4, <2>8 DEF IgdbInv, IgdbTypeOK
<1>5. QED
  BY <1>3, <1>4

\* The steps of a request that neither touch the mutex nor wait in its queue.
LEMMA PostBeginsInv ==
  ASSUME IgdbInv, NEW p \in Posts, PostBegins(p)
  PROVE  IgdbInv'
<1>1. /\ IgdbTypeOK /\ posts[p].stage = "none" /\ posts[p].renews = FALSE
      /\ UNCHANGED <<accessToken, igdbOptions, holder, turns, igdbIssued, igdbLive>>
  BY DEF PostBegins, IgdbInv, IgdbTypeOK, Post
<1>2. 1 \in 1 .. 2 /\ "unlock" \in PostStage
  BY DEF PostStage
<1>3. PICK post \in Post :
        /\ posts' = [posts EXCEPT ![p] = post]
        /\ post.renews = FALSE
        /\ post.stage \in {"send", "options", "unlock"}
        /\ post.stage = "unlock" => holder # "unlocked"
  <2>1. CASE holder = "unlocked"
    <3>1. posts' = [posts EXCEPT ![p] = Sends(1)]
      BY <2>1 DEF PostBegins
    <3>2. QED
      BY <1>1, <1>2, <3>1, SendsTyped
  <2>2. CASE holder # "unlocked"
    <3>1. posts' = [posts EXCEPT ![p] = [NoPost EXCEPT !.stage = "unlock"]]
      BY <2>2 DEF PostBegins
    <3>2. QED
      BY <1>2, <2>2, <3>1, WaitingTyped
  <2>3. QED
    BY <2>1, <2>2
<1>4. QED
  BY <1>1, <1>3, PostGoesOn DEF IgdbInv, IgdbTypeOK

LEMMA OptionsReadInv ==
  ASSUME IgdbInv, NEW p \in Posts, OptionsRead(p)
  PROVE  IgdbInv'
<1>1. /\ IgdbTypeOK /\ posts[p] \in Post
      /\ posts[p].stage = "options" /\ posts[p].renews = FALSE
      /\ UNCHANGED <<igdbOptions, holder, turns, igdbIssued, igdbLive>>
  BY DEF OptionsRead, IgdbInv, IgdbTypeOK, Post
<1>2. {"send", "authenticate"} \subseteq PostStage
  BY DEF PostStage
<1>3. PICK post \in Post :
        /\ posts' = [posts EXCEPT ![p] = post]
        /\ post.renews = FALSE /\ post.stage \in {"send", "authenticate"}
  <2>1. CASE igdbOptions # NoToken
    <3>1. PICK post : post = [posts[p] EXCEPT !.stage = "send", !.token = igdbOptions]
      OBVIOUS
    <3>2. posts' = [posts EXCEPT ![p] = post]
      BY <1>1, <2>1, <3>1 DEF OptionsRead, IgdbTypeOK
    <3>3. post \in Post /\ post.renews = FALSE /\ post.stage = "send"
      BY <1>1, <1>2, <3>1 DEF IgdbTypeOK, Post
    <3>4. QED
      BY <3>2, <3>3
  <2>2. CASE igdbOptions = NoToken
    <3>1. PICK post : post = [posts[p] EXCEPT !.stage = "authenticate"]
      OBVIOUS
    <3>2. posts' = [posts EXCEPT ![p] = post]
      BY <1>1, <2>2, <3>1 DEF OptionsRead, IgdbTypeOK
    <3>3. post \in Post /\ post.renews = FALSE /\ post.stage = "authenticate"
      BY <1>1, <1>2, <3>1 DEF Post
    <3>4. QED
      BY <3>2, <3>3
  <2>3. QED
    BY <2>1, <2>2
<1>4. accessToken' \in IgdbToken
  BY <1>1 DEF OptionsRead, IgdbTypeOK
<1>5. QED
  BY <1>1, <1>3, <1>4, PostGoesOn DEF IgdbInv, IgdbTypeOK

LEMMA AuthenticatedInv ==
  ASSUME IgdbInv, NEW p \in Posts, Authenticated(p)
  PROVE  IgdbInv'
<1>1. /\ IgdbTypeOK /\ posts[p] \in Post /\ posts[p].stage = "authenticate"
      /\ UNCHANGED <<accessToken, igdbOptions, holder, turns>>
  BY DEF Authenticated, IgdbInv, IgdbTypeOK
<1>2. PICK token \in IgdbToken :
        posts' = [posts EXCEPT ![p].stage = "save", ![p].token = token]
        /\ igdbIssued' \in IgdbToken /\ igdbLive' \subseteq IgdbToken
  <2>1. NoToken \in IgdbToken /\ \A n \in IgdbToken : n < MaxIgdbTokens => n + 1 \in IgdbToken
    BY IgdbAssumption DEF IgdbToken, NoToken
  <2>2. igdbIssued \in IgdbToken /\ igdbLive \subseteq IgdbToken
    BY <1>1 DEF IgdbTypeOK
  <2>3. QED
    BY <2>1, <2>2 DEF Authenticated
<1>3. PICK post : post = [posts[p] EXCEPT !.stage = "save", !.token = token]
  OBVIOUS
<1>4. /\ post \in Post /\ post.stage = "save" /\ post.renews = posts[p].renews
      /\ posts' = [posts EXCEPT ![p] = post]
  <2>1. "save" \in PostStage
    BY DEF PostStage
  <2>2. QED
    BY <1>1, <1>2, <1>3, <2>1 DEF Post, IgdbTypeOK
<1>5. QED
  BY <1>1, <1>2, <1>4, PostGoesOn DEF IgdbInv, IgdbTypeOK

LEMMA TokenSavedInv ==
  ASSUME IgdbInv, NEW p \in Posts, TokenSaved(p)
  PROVE  IgdbInv'
<1>1. /\ IgdbTypeOK /\ posts[p] \in Post
      /\ posts[p].stage = "save" /\ posts[p].renews = FALSE
      /\ UNCHANGED <<holder, turns, igdbIssued, igdbLive>>
  BY DEF TokenSaved, IgdbInv, IgdbTypeOK, Post
<1>2. NoToken \in IgdbToken
  BY IgdbAssumption DEF IgdbToken, NoToken
<1>3. accessToken' \in IgdbToken /\ igdbOptions' \in IgdbToken
  BY <1>1, <1>2 DEF TokenSaved, IgdbTypeOK, Post
<1>4. PICK post : post = [posts[p] EXCEPT !.stage = "send", !.token = accessToken']
  OBVIOUS
<1>5. /\ post \in Post /\ post.stage = "send" /\ post.renews = FALSE
      /\ posts' = [posts EXCEPT ![p] = post]
  <2>1. "send" \in PostStage
    BY DEF PostStage
  <2>2. posts' = [posts EXCEPT ![p].stage = "send", ![p].token = accessToken']
    BY DEF TokenSaved
  <2>3. QED
    BY <1>1, <1>3, <1>4, <2>1, <2>2 DEF Post, IgdbTypeOK
<1>6. QED
  BY <1>1, <1>3, <1>5, PostGoesOn DEF IgdbInv, IgdbTypeOK

LEMMA PostEndsInv ==
  ASSUME IgdbInv, NEW p \in Posts, PostEnds(p)
  PROVE  IgdbInv'
<1>1. /\ IgdbTypeOK /\ posts[p] \in Post
      /\ posts[p].stage \in {"send", "options"} /\ posts[p].renews = FALSE
      /\ posts' = [posts EXCEPT ![p] = NoPost]
      /\ UNCHANGED <<accessToken, igdbOptions, holder, turns, igdbIssued, igdbLive>>
  BY DEF PostEnds, IgdbInv, IgdbTypeOK, Post
<1>2. PICK post \in Post : post = NoPost /\ post.renews = FALSE /\ post.stage = "none"
  BY NoPostTyped
<1>3. QED
  BY <1>1, <1>2, PostGoesOn DEF IgdbInv, IgdbTypeOK

\* A renewal ends, whether or not its token could be saved.
LEMMA RenewalEndsInv ==
  ASSUME IgdbInv, NEW p \in Posts, RenewalEnds(p)
  PROVE  IgdbInv'
<1>1. /\ IgdbTypeOK /\ posts[p] \in Post /\ posts[p].renews
      /\ UNCHANGED <<accessToken, igdbIssued, igdbLive>>
      /\ igdbOptions' \in IgdbToken
  BY DEF RenewalEnds, IgdbInv, IgdbTypeOK, Post
<1>2. PICK after \in Post : /\ Releases(p, after) /\ after.renews = FALSE
                            /\ after.stage \in {"none", "send", "options"}
  <2>1. 2 \in 1 .. 2
    OBVIOUS
  <2>2. CASE Releases(p, Sends(2))
    BY <1>1, <2>1, <2>2, SendsTyped
  <2>3. CASE Releases(p, NoPost)
    BY <2>3, NoPostTyped
  <2>4. QED
    BY <2>2, <2>3 DEF RenewalEnds
<1>3. QED
  BY <1>1, <1>2, ReleasesInv DEF IgdbInv, IgdbTypeOK

LEMMA IgdbInitInv ==
  ASSUME igdbOptions \in IgdbToken, igdbIssued \in IgdbToken, igdbLive \subseteq IgdbToken,
         accessToken = NoToken, posts = [p \in Posts |-> NoPost], holder = "unlocked",
         turns = <<>>
  PROVE  IgdbInv
<1>1. NoToken \in IgdbToken
  BY IgdbAssumption DEF IgdbToken, NoToken
<1>2. \A p \in Posts : posts[p].renews = FALSE /\ posts[p].stage = "none"
  BY NoPostTyped
<1>3. IgdbTypeOK
  BY <1>1, NoPostTyped DEF IgdbTypeOK
<1>4. RenewsAlone
  BY <1>2, IgdbAssumption DEF RenewsAlone
<1>5. QED
  BY <1>2, <1>3, <1>4 DEF IgdbInv

\* A new process: nothing is under way.
LEMMA IgdbRestartInv ==
  ASSUME IgdbInv, IgdbRestart
  PROVE  IgdbInv'
<1>1. NoToken \in IgdbToken
  BY IgdbAssumption DEF IgdbToken, NoToken
<1>2. \A p \in Posts : posts'[p].renews = FALSE /\ posts'[p].stage = "none"
  BY NoPostTyped DEF IgdbRestart
<1>3. IgdbTypeOK'
  BY <1>1, NoPostTyped DEF IgdbInv, IgdbTypeOK, IgdbRestart
<1>4. RenewsAlone'
  BY <1>2, IgdbAssumption DEF RenewsAlone, IgdbRestart
<1>5. QED
  BY <1>2, <1>3, <1>4 DEF IgdbInv

LEMMA IgdbNextInv == IgdbInv /\ [IgdbNext]_igdbVars => IgdbInv'
<1> SUFFICES ASSUME IgdbInv, [IgdbNext]_igdbVars PROVE IgdbInv'
  OBVIOUS
<1>1. ASSUME NEW p \in Posts, PostBegins(p) \/ PostStep(p) PROVE IgdbInv'
  BY <1>1, PostBeginsInv, OptionsReadInv, AuthenticatedInv, TokenSavedInv, PostEndsInv,
     RenewalEndsInv, AcquiresMutexInv DEF PostStep
<1>2. ASSUME NEW n \in IgdbToken, IgdbTokenExpires(n) PROVE IgdbInv'
  BY <1>2 DEF IgdbInv, IgdbTypeOK, RenewsAlone, IgdbTokenExpires
<1>3. CASE IgdbRestart
  BY <1>3, IgdbRestartInv
<1>4. CASE UNCHANGED igdbVars
  BY <1>4 DEF igdbVars, IgdbInv, IgdbTypeOK, RenewsAlone
<1>5. QED
  BY <1>1, <1>2, <1>3, <1>4 DEF IgdbNext

LEMMA IgdbStarts == IgdbInit => IgdbInv
<1>1. 0 \in IgdbToken
  BY IgdbAssumption DEF IgdbToken, NoToken
<1>2. QED
  BY <1>1, IgdbInitInv DEF IgdbInit, NoToken

\* Whatever refusals, failures and restarts there are, with any number of requests: one
\* renews the token, and those that wait are waiting for it.
THEOREM RenewalIsAlone == IgdbSpec => []RenewsAlone
<1>1. IgdbInv => RenewsAlone
  BY DEF IgdbInv
<1>2. QED
  BY <1>1, IgdbStarts, IgdbNextInv, PTL DEF IgdbSpec

----------------------------------------------------------------------------
(* Recent messages                                                          *)

\* A list, of the table or in memory: in order, and of what has been said.
OrderedBy(s, n) == InOrder(s) /\ \A m \in Elements(s) : m <= n

ListSound(list) ==
  list # NoList => OrderedBy(list, said) /\ Len(list) <= MessagesLimit

\* What is stored, what is being stored and what waits for it, part by part.
Stored(ch) ==
  Elements(chatMessages[ch]) \cup Elements(inserting[ch]) \cup Elements(queue[ch])

StoreParts(ch) ==
  /\ InOrder(chatMessages[ch]) /\ InOrder(inserting[ch]) /\ InOrder(queue[ch])
  /\ \A m \in Elements(chatMessages[ch]), n \in Elements(inserting[ch]) : m < n
  /\ \A m \in Elements(chatMessages[ch]), n \in Elements(queue[ch]) : m < n
  /\ \A m \in Elements(inserting[ch]), n \in Elements(queue[ch]) : m < n
  /\ \A m \in Stored(ch) : m <= said

\* RecentInOrder with bounds, and the same of what the load has found: it is to replace
\* the lists, and messages greater than all of them are to come.
RecentInv ==
  /\ RecentTypeOK
  /\ \A ch \in Channels : ListSound(recentMessages[ch]) /\ ListSound(loads[ch])
  /\ \A ch \in Channels : StoreParts(ch)

LEMMA MessagesAreNumbers ==
  ASSUME NEW s \in Seq(Message)
  PROVE  s \in Seq(Nat) /\ Len(s) \in Nat /\ Elements(s) \subseteq Nat
<1>1. Message \subseteq Nat
  BY RecentAssumption DEF Message
<1>2. s \in Seq(Nat)
  BY <1>1, SeqMonotonic
<1>3. Elements(s) \subseteq Nat
  BY <1>2 DEF Elements
<1>4. QED
  BY <1>2, <1>3

\* The end of a list, from the p-th element on.
LEMMA SuffixOrdered ==
  ASSUME NEW s \in Seq(Message), NEW p \in 1 .. Len(s), NEW n \in Nat, OrderedBy(s, n)
  PROVE  LET t == SubSeq(s, p, Len(s))
         IN  t \in Seq(Message) /\ Len(t) = Len(s) - p + 1 /\ OrderedBy(t, n)
<1> DEFINE t == SubSeq(s, p, Len(s))
<1>1. /\ t \in Seq(Message) /\ Len(s) \in Nat /\ Len(t) = Len(s) - p + 1
      /\ \A i \in 1 .. Len(t) : t[i] = s[p + i - 1] /\ p + i - 1 \in 1 .. Len(s)
  OBVIOUS
<1> HIDE DEF t
<1>2. InOrder(t)
  <2>1. ASSUME NEW i \in 1 .. Len(t), NEW j \in 1 .. Len(t), i < j PROVE t[i] < t[j]
    <3>1. p + i - 1 < p + j - 1
      BY <2>1
    <3>2. s[p + i - 1] < s[p + j - 1]
      BY <1>1, <3>1 DEF OrderedBy, InOrder
    <3>3. QED
      BY <1>1, <3>2
  <2>2. QED
    BY <2>1 DEF InOrder
<1>3. \A m \in Elements(t) : m <= n
  BY <1>1 DEF OrderedBy, Elements
<1>4. QED
  BY <1>1, <1>2, <1>3 DEF OrderedBy, t

LEMMA LastSound ==
  ASSUME NEW s \in Seq(Message), NEW n \in Nat, OrderedBy(s, n)
  PROVE  /\ Last(s, MessagesLimit) \in Seq(Message)
         /\ OrderedBy(Last(s, MessagesLimit), n)
         /\ Len(Last(s, MessagesLimit)) <= MessagesLimit
<1>1. Len(s) \in Nat /\ MessagesLimit \in Nat \ {0}
  BY RecentAssumption
<1>2. CASE Len(s) <= MessagesLimit
  BY <1>2 DEF Last
<1>3. CASE Len(s) > MessagesLimit
  <2>1. PICK p \in 1 .. Len(s) : p = Len(s) - MessagesLimit + 1
    BY <1>1, <1>3
  <2>2. Last(s, MessagesLimit) = SubSeq(s, p, Len(s))
    BY <1>1, <1>3, <2>1 DEF Last
  <2>3. Len(s) - p + 1 = MessagesLimit
    BY <1>1, <2>1
  <2>4. QED
    BY <2>2, <2>3, SuffixOrdered, RecentAssumption
<1>4. QED
  BY <1>1, <1>2, <1>3

\* A message comes to a list, which drops its first one when it is full.
LEMMA PushedSound ==
  ASSUME NEW s \in Seq(Message), NEW n \in Nat, n + 1 \in Message, OrderedBy(s, n),
         Len(s) <= MessagesLimit
  PROVE  /\ Pushed(s, n + 1) \in Seq(Message)
         /\ OrderedBy(Pushed(s, n + 1), n + 1)
         /\ Len(Pushed(s, n + 1)) <= MessagesLimit
<1>1. Len(s) \in Nat /\ MessagesLimit \in Nat \ {0}
  BY RecentAssumption
<1>2. PICK t \in Seq(Message) : /\ Pushed(s, n + 1) = Append(t, n + 1)
                                /\ OrderedBy(t, n) /\ Len(t) < MessagesLimit
  <2>1. CASE Len(s) >= MessagesLimit
    <3>1. Tail(s) = SubSeq(s, 2, Len(s)) /\ Len(Tail(s)) = Len(s) - 1 /\ Tail(s) \in Seq(Message)
      BY <1>1, <2>1
    <3>2. OrderedBy(Tail(s), n)
      <4>1. CASE Len(s) = 1
        <5>1. Len(Tail(s)) = 0
          BY <3>1, <4>1
        <5>2. QED
          BY <5>1 DEF OrderedBy, InOrder, Elements
      <4>2. CASE Len(s) # 1
        <5>1. 2 \in 1 .. Len(s)
          BY <1>1, <2>1, <4>2
        <5>2. OrderedBy(SubSeq(s, 2, Len(s)), n)
          BY <5>1, SuffixOrdered
        <5>3. QED
          BY <3>1, <5>2
      <4>3. QED
        BY <4>1, <4>2
    <3>3. Pushed(s, n + 1) = Append(Tail(s), n + 1)
      BY <2>1 DEF Pushed
    <3>4. Len(Tail(s)) < MessagesLimit
      BY <1>1, <3>1
    <3>5. QED
      BY <3>1, <3>2, <3>3, <3>4
  <2>2. CASE Len(s) < MessagesLimit
    <3>1. Pushed(s, n + 1) = Append(s, n + 1)
      BY <1>1, <2>2 DEF Pushed
    <3>2. QED
      BY <2>2, <3>1
  <2>3. QED
    BY <1>1, <2>1, <2>2
<1>3. PICK m \in Nat : m = n + 1
  OBVIOUS
<1>4. t \in Seq(Nat) /\ \A x \in Elements(t) : x < m /\ x <= m
  <2>1. t \in Seq(Nat) /\ Elements(t) \subseteq Nat
    BY MessagesAreNumbers
  <2>2. \A x \in Elements(t) : x <= n
    BY <1>2 DEF OrderedBy
  <2>3. QED
    BY <1>3, <2>1, <2>2
<1>5. InOrder(Append(t, m)) /\ Elements(Append(t, m)) = Elements(t) \cup {m}
  <2>1. InOrder(t)
    BY <1>2 DEF OrderedBy
  <2>2. QED
    BY <1>4, <2>1, AppendInOrder
<1>6. OrderedBy(Append(t, m), m)
  <2>1. \A x \in Elements(Append(t, m)) : x <= m
    BY <1>4, <1>5
  <2>2. QED
    BY <1>2, <1>5, <2>1 DEF OrderedBy
<1>7. Append(t, m) \in Seq(Message) /\ Len(Append(t, m)) = Len(t) + 1 /\ Len(t) \in Nat
  BY <1>3
<1>8. Len(Append(t, m)) <= MessagesLimit
  BY <1>1, <1>2, <1>7
<1>9. Pushed(s, n + 1) = Append(t, m)
  BY <1>2, <1>3
<1>10. QED
  BY <1>3, <1>6, <1>7, <1>8, <1>9

LEMMA NothingOrdered == ASSUME NEW n PROVE OrderedBy(<<>>, n)
BY Empty DEF OrderedBy

LEMMA StoredAreNumbers ==
  ASSUME NEW ch \in Channels, RecentTypeOK
  PROVE  /\ chatMessages[ch] \in Seq(Nat) /\ inserting[ch] \in Seq(Nat)
         /\ queue[ch] \in Seq(Nat) /\ Stored(ch) \subseteq Nat
<1>1. /\ chatMessages[ch] \in Seq(Message) /\ inserting[ch] \in Seq(Message)
      /\ queue[ch] \in Seq(Message)
  BY DEF RecentTypeOK, Stores
<1>2. /\ Elements(chatMessages[ch]) \subseteq Nat /\ Elements(inserting[ch]) \subseteq Nat
      /\ Elements(queue[ch]) \subseteq Nat
  BY <1>1, MessagesAreNumbers
<1>3. QED
  BY <1>1, <1>2, MessagesAreNumbers DEF Stored

\* Nothing of the store of a channel changes, though more may have been said.
LEMMA StoreKept ==
  ASSUME NEW ch \in Channels, RecentTypeOK, said' \in Nat, said' >= said, StoreParts(ch),
         chatMessages'[ch] = chatMessages[ch], inserting'[ch] = inserting[ch],
         queue'[ch] = queue[ch]
  PROVE  StoreParts(ch)'
<1>1. Stored(ch) \subseteq Nat /\ said \in Nat
  BY StoredAreNumbers, RecentAssumption DEF RecentTypeOK
<1>2. Stored(ch)' = Stored(ch)
  BY DEF Stored
<1>3. \A m \in Stored(ch) : m <= said'
  BY <1>1 DEF StoreParts
<1>4. QED
  BY <1>2, <1>3 DEF StoreParts

LEMMA ListKept ==
  ASSUME NEW list, list = NoList \/ list \in Seq(Message), said \in Nat, said' \in Nat,
         said' >= said, ListSound(list)
  PROVE  list # NoList => OrderedBy(list, said') /\ Len(list) <= MessagesLimit
<1> SUFFICES ASSUME list # NoList
             PROVE  OrderedBy(list, said') /\ Len(list) <= MessagesLimit
  OBVIOUS
<1>1. list \in Seq(Nat) /\ OrderedBy(list, said) /\ Len(list) <= MessagesLimit
  BY MessagesAreNumbers DEF ListSound
<1>2. Elements(list) \subseteq Nat
  BY <1>1 DEF Elements
<1>3. \A m \in Elements(list) : m <= said'
  BY <1>1, <1>2 DEF OrderedBy
<1>4. QED
  BY <1>1, <1>3 DEF OrderedBy

\* The start-up has found the messages of a channel.
LEMMA LoadAnsweredInv ==
  ASSUME RecentInv, NEW c0 \in Channels, LoadAnswered(c0)
  PROVE  RecentInv'
<1>1. /\ RecentTypeOK /\ said \in Nat
      /\ loads' = [loads EXCEPT ![c0] = Last(chatMessages[c0], MessagesLimit)]
      /\ UNCHANGED <<recentMessages, loading, queue, inserting, chatMessages, said>>
  BY RecentAssumption DEF RecentInv, RecentTypeOK, LoadAnswered
<1>2. PICK s \in Seq(Message) : s = chatMessages[c0] /\ OrderedBy(s, said)
  <2>1. StoreParts(c0) /\ Elements(chatMessages[c0]) \subseteq Stored(c0)
    BY <1>1 DEF RecentInv, Stored
  <2>2. QED
    BY <1>1, <2>1 DEF StoreParts, OrderedBy, RecentTypeOK, Stores
<1>3. PICK list \in Seq(Message) :
        /\ list = Last(s, MessagesLimit)
        /\ OrderedBy(list, said) /\ Len(list) <= MessagesLimit
  BY <1>1, <1>2, LastSound
<1>4. /\ loads'[c0] = list /\ \A ch \in Channels \ {c0} : loads'[ch] = loads[ch]
      /\ loads' \in Lists
  BY <1>1, <1>2, <1>3 DEF RecentTypeOK, Lists
<1>5. RecentTypeOK'
  BY <1>1, <1>4 DEF RecentTypeOK
<1>6. \A ch \in Channels : ListSound(recentMessages[ch])' /\ StoreParts(ch)'
  BY <1>1 DEF RecentInv, ListSound, StoreParts, Stored
<1>7. \A ch \in Channels : ListSound(loads[ch])'
  BY <1>1, <1>3, <1>4 DEF RecentInv, ListSound
<1>8. QED
  BY <1>5, <1>6, <1>7 DEF RecentInv

\* A message comes to the list of its channel and to the queue.
LEMMA HandleMessageInv ==
  ASSUME RecentInv, NEW c0 \in Channels, HandleMessage(c0)
  PROVE  RecentInv'
<1>1. /\ RecentTypeOK /\ said \in Nat /\ said' = said + 1 /\ said + 1 \in Message
      /\ said' \in 0 .. MaxMessages /\ said' \in Nat /\ said' >= said
      /\ recentMessages' = [recentMessages EXCEPT ![c0] = Pushed(Listed(c0), said + 1)]
      /\ queue' = [queue EXCEPT ![c0] = Append(@, said + 1)]
      /\ UNCHANGED <<loads, loading, inserting, chatMessages>>
  BY RecentAssumption DEF RecentInv, RecentTypeOK, HandleMessage, Message
<1>2. /\ Listed(c0) \in Seq(Message) /\ OrderedBy(Listed(c0), said)
      /\ Len(Listed(c0)) <= MessagesLimit
  <2>1. CASE recentMessages[c0] = NoList
    <3>1. Listed(c0) = <<>>
      BY <2>1 DEF Listed
    <3>2. QED
      BY <3>1, NothingOrdered, RecentAssumption
  <2>2. CASE recentMessages[c0] # NoList
    BY <1>1, <2>2 DEF Listed, RecentInv, ListSound, RecentTypeOK, Lists
  <2>3. QED
    BY <2>1, <2>2
<1>3. PICK list \in Seq(Message) :
        /\ list = Pushed(Listed(c0), said + 1)
        /\ OrderedBy(list, said + 1) /\ Len(list) <= MessagesLimit
  BY <1>1, <1>2, PushedSound
<1>4. /\ recentMessages'[c0] = list
      /\ \A ch \in Channels \ {c0} : recentMessages'[ch] = recentMessages[ch]
      /\ recentMessages' \in Lists
  BY <1>1, <1>3 DEF RecentTypeOK, Lists
<1>5. /\ queue'[c0] = Append(queue[c0], said + 1)
      /\ \A ch \in Channels \ {c0} : queue'[ch] = queue[ch]
      /\ queue' \in Stores
  BY <1>1 DEF RecentTypeOK, Stores
<1>6. RecentTypeOK'
  BY <1>1, <1>4, <1>5 DEF RecentTypeOK
<1>7. ASSUME NEW ch \in Channels PROVE ListSound(recentMessages[ch])' /\ ListSound(loads[ch])'
  <2>1. /\ loads[ch] = NoList \/ loads[ch] \in Seq(Message)
        /\ recentMessages[ch] = NoList \/ recentMessages[ch] \in Seq(Message)
        /\ ListSound(loads[ch]) /\ ListSound(recentMessages[ch])
    BY <1>1 DEF RecentInv, RecentTypeOK, Lists
  <2>2. ListSound(loads[ch])'
    BY <1>1, <2>1, ListKept DEF ListSound
  <2>3. CASE ch = c0
    BY <1>1, <1>3, <1>4, <2>2, <2>3 DEF ListSound
  <2>4. CASE ch # c0
    <3>1. recentMessages'[ch] = recentMessages[ch]
      BY <1>4, <2>4
    <3>2. ListSound(recentMessages[ch])'
      BY <1>1, <2>1, <3>1, ListKept DEF ListSound
    <3>3. QED
      BY <2>2, <3>2
  <2>5. QED
    BY <2>3, <2>4
<1>8. ASSUME NEW ch \in Channels PROVE StoreParts(ch)'
  <2>1. StoreParts(ch)
    BY DEF RecentInv
  <2>2. CASE ch # c0
    BY <1>1, <1>5, <2>1, <2>2, StoreKept
  <2>3. CASE ch = c0
    <3>1. queue[ch] \in Seq(Nat) /\ Stored(ch) \subseteq Nat
      BY <1>1, StoredAreNumbers
    <3>2. PICK m \in Nat : m = said + 1
      BY <1>1
    <3>3. \A n \in Stored(ch) : n < m
      BY <1>1, <2>1, <3>1, <3>2 DEF StoreParts
    <3>4. Elements(queue[ch]) \subseteq Stored(ch)
      BY DEF Stored
    <3>5. /\ queue'[ch] = Append(queue[ch], m)
          /\ InOrder(queue'[ch]) /\ Elements(queue'[ch]) = Elements(queue[ch]) \cup {m}
      <4>1. queue'[ch] = Append(queue[ch], m)
        BY <1>5, <2>3, <3>2
      <4>2. InOrder(queue[ch]) /\ \A n \in Elements(queue[ch]) : n < m
        BY <2>1, <3>3, <3>4 DEF StoreParts
      <4>3. QED
        BY <3>1, <4>1, <4>2, AppendInOrder
    <3>6. Stored(ch)' = Stored(ch) \cup {m}
      BY <1>1, <3>5 DEF Stored
    <3>7. \A n \in Stored(ch)' : n <= said'
      BY <1>1, <3>1, <3>2, <3>3, <3>6
    <3>8. /\ \A x \in Elements(chatMessages[ch]), n \in Elements(queue'[ch]) : x < n
          /\ \A x \in Elements(inserting[ch]), n \in Elements(queue'[ch]) : x < n
      BY <2>1, <3>3, <3>5 DEF StoreParts, Stored
    <3>9. QED
      BY <1>1, <2>1, <3>5, <3>7, <3>8 DEF StoreParts
  <2>4. QED
    BY <2>2, <2>3
<1>9. QED
  BY <1>6, <1>7, <1>8 DEF RecentInv

\* The load replaces every list.
LEMMA LoadsInv == ASSUME RecentInv, Loads PROVE RecentInv'
<1>1. /\ RecentTypeOK /\ recentMessages' = loads /\ loading' = FALSE
      /\ UNCHANGED <<loads, queue, inserting, chatMessages, said>>
  BY DEF RecentInv, Loads
<1>2. RecentTypeOK'
  BY <1>1 DEF RecentTypeOK
<1>3. \A ch \in Channels : ListSound(recentMessages[ch])' /\ ListSound(loads[ch])'
  BY <1>1 DEF RecentInv, ListSound
<1>4. \A ch \in Channels : StoreParts(ch)'
  BY <1>1 DEF RecentInv, StoreParts, Stored
<1>5. QED
  BY <1>2, <1>3, <1>4 DEF RecentInv

LEMMA NothingStored ==
  /\ NoMessages \in Stores
  /\ \A ch \in Channels : InOrder(NoMessages[ch]) /\ Elements(NoMessages[ch]) = {}
<1>1. \A ch \in Channels : NoMessages[ch] = <<>>
  BY DEF NoMessages
<1>2. <<>> \in Seq(Message)
  OBVIOUS
<1>3. NoMessages \in Stores
  BY <1>2 DEF NoMessages, Stores
<1>4. QED
  BY <1>1, <1>3, Empty

\* The queue becomes the batch.
LEMMA StoreMessagesInv == ASSUME RecentInv, StoreMessages PROVE RecentInv'
<1>1. /\ RecentTypeOK /\ inserting = NoMessages /\ inserting' = queue /\ queue' = NoMessages
      /\ UNCHANGED <<recentMessages, loads, loading, chatMessages, said>>
  BY DEF RecentInv, StoreMessages
<1>2. RecentTypeOK'
  BY <1>1, NothingStored DEF RecentTypeOK
<1>3. \A ch \in Channels : ListSound(recentMessages[ch])' /\ ListSound(loads[ch])'
  BY <1>1 DEF RecentInv, ListSound
<1>4. ASSUME NEW ch \in Channels PROVE StoreParts(ch)'
  <2>1. /\ InOrder(queue'[ch]) /\ Elements(queue'[ch]) = {}
        /\ inserting'[ch] = queue[ch] /\ chatMessages'[ch] = chatMessages[ch]
    BY <1>1, NothingStored
  <2>2. StoreParts(ch) /\ Stored(ch)' \subseteq Stored(ch)
    BY <2>1 DEF RecentInv, Stored
  <2>3. QED
    BY <1>1, <2>1, <2>2 DEF StoreParts
<1>5. QED
  BY <1>2, <1>3, <1>4 DEF RecentInv

\* The batch goes to the end of the table, or is gone.
LEMMA MessagesStoredInv == ASSUME RecentInv, MessagesStored PROVE RecentInv'
<1>1. /\ RecentTypeOK /\ inserting' = NoMessages
      /\ UNCHANGED <<recentMessages, loads, loading, queue, said>>
  BY DEF RecentInv, MessagesStored
<1>2. /\ chatMessages' \in Stores
      /\ \A ch \in Channels : \/ chatMessages'[ch] = chatMessages[ch]
                               \/ chatMessages'[ch] = chatMessages[ch] \o inserting[ch]
  <2>1. CASE UNCHANGED chatMessages
    BY <1>1, <2>1 DEF RecentTypeOK
  <2>2. CASE chatMessages' = [ch \in Channels |-> chatMessages[ch] \o inserting[ch]]
    <3>1. \A ch \in Channels : chatMessages[ch] \o inserting[ch] \in Seq(Message)
      BY <1>1 DEF RecentTypeOK, Stores
    <3>2. QED
      BY <2>2, <3>1 DEF Stores
  <2>3. QED
    BY <2>1, <2>2 DEF MessagesStored
<1>3. RecentTypeOK'
  BY <1>1, <1>2, NothingStored DEF RecentTypeOK
<1>4. \A ch \in Channels : ListSound(recentMessages[ch])' /\ ListSound(loads[ch])'
  BY <1>1 DEF RecentInv, ListSound
<1>5. ASSUME NEW ch \in Channels PROVE StoreParts(ch)'
  <2>1. StoreParts(ch)
    BY DEF RecentInv
  <2>2. /\ InOrder(inserting'[ch]) /\ Elements(inserting'[ch]) = {}
        /\ queue'[ch] = queue[ch] /\ said' = said
    BY <1>1, NothingStored
  <2>3. /\ InOrder(chatMessages'[ch])
        /\ Elements(chatMessages'[ch])
             \subseteq Elements(chatMessages[ch]) \cup Elements(inserting[ch])
    <3>1. CASE chatMessages'[ch] = chatMessages[ch]
      BY <2>1, <3>1 DEF StoreParts
    <3>2. CASE chatMessages'[ch] = chatMessages[ch] \o inserting[ch]
      <4>1. chatMessages[ch] \in Seq(Nat) /\ inserting[ch] \in Seq(Nat)
        BY <1>1, StoredAreNumbers
      <4>2. PICK s \in Seq(Nat), t \in Seq(Nat) : s = chatMessages[ch] /\ t = inserting[ch]
        BY <4>1
      <4>3. InOrder(s) /\ InOrder(t) /\ Before(s, t)
        BY <2>1, <4>2, BeforeElements DEF StoreParts
      <4>4. InOrder(s \o t) /\ Elements(s \o t) = Elements(s) \cup Elements(t)
        BY <4>3, ConcatInOrder, ConcatElements
      <4>5. QED
        BY <3>2, <4>2, <4>4
    <3>3. QED
      BY <1>2, <3>1, <3>2
  <2>4. Stored(ch)' \subseteq Stored(ch)
    BY <2>2, <2>3 DEF Stored
  <2>5. QED
    BY <2>1, <2>2, <2>3, <2>4 DEF StoreParts
<1>6. QED
  BY <1>3, <1>4, <1>5 DEF RecentInv

LEMMA NoListsTyped == NoLists \in Lists /\ \A ch \in Channels : NoLists[ch] = NoList
BY DEF NoLists, Lists

\* A new process: the table is what is left.
LEMMA RecentRestartInv == ASSUME RecentInv, RecentRestart PROVE RecentInv'
<1>1. /\ RecentTypeOK /\ recentMessages' = NoLists /\ loads' = NoLists /\ loading' = TRUE
      /\ queue' = NoMessages /\ inserting' = NoMessages /\ UNCHANGED <<chatMessages, said>>
  BY DEF RecentInv, RecentRestart
<1>2. RecentTypeOK'
  BY <1>1, NothingStored, NoListsTyped DEF RecentTypeOK
<1>3. \A ch \in Channels : ListSound(recentMessages[ch])' /\ ListSound(loads[ch])'
  BY <1>1, NoListsTyped DEF ListSound
<1>4. ASSUME NEW ch \in Channels PROVE StoreParts(ch)'
  <2>1. /\ InOrder(queue'[ch]) /\ Elements(queue'[ch]) = {}
        /\ InOrder(inserting'[ch]) /\ Elements(inserting'[ch]) = {}
    BY <1>1, NothingStored
  <2>2. StoreParts(ch) /\ Stored(ch)' \subseteq Stored(ch)
    BY <1>1, <2>1 DEF RecentInv, Stored
  <2>3. QED
    BY <1>1, <2>1, <2>2 DEF StoreParts
<1>5. QED
  BY <1>2, <1>3, <1>4 DEF RecentInv

LEMMA RecentInitInv == RecentInit => RecentInv
<1> SUFFICES ASSUME RecentInit PROVE RecentInv
  OBVIOUS
<1>1. /\ recentMessages = NoLists /\ loads = NoLists /\ loading = TRUE /\ said = 0
      /\ queue = NoMessages /\ inserting = NoMessages /\ chatMessages = NoMessages
  BY DEF RecentInit
<1>2. RecentTypeOK
  BY <1>1, NothingStored, NoListsTyped, RecentAssumption DEF RecentTypeOK
<1>3. \A ch \in Channels : ListSound(recentMessages[ch]) /\ ListSound(loads[ch])
  BY <1>1, NoListsTyped DEF ListSound
<1>4. \A ch \in Channels : StoreParts(ch)
  BY <1>1, NothingStored DEF StoreParts, Stored
<1>5. QED
  BY <1>2, <1>3, <1>4 DEF RecentInv

LEMMA RecentNextInv == RecentInv /\ [RecentNext]_recentVars => RecentInv'
<1> SUFFICES ASSUME RecentInv, [RecentNext]_recentVars PROVE RecentInv'
  OBVIOUS
<1>1. ASSUME NEW ch \in Channels, LoadAnswered(ch) \/ HandleMessage(ch) PROVE RecentInv'
  BY <1>1, LoadAnsweredInv, HandleMessageInv
<1>2. CASE UNCHANGED recentVars
  BY <1>2 DEF recentVars, RecentInv, RecentTypeOK, ListSound, StoreParts, Stored
<1>3. QED
  BY <1>1, <1>2, LoadsInv, StoreMessagesInv, MessagesStoredInv, RecentRestartInv DEF RecentNext

LEMMA RecentInvInOrder == ASSUME RecentInv PROVE RecentInOrder
<1>1. ASSUME NEW ch \in Channels PROVE InOrder(chatMessages[ch] \o inserting[ch] \o queue[ch])
  <2>1. /\ chatMessages[ch] \in Seq(Nat) /\ inserting[ch] \in Seq(Nat)
        /\ queue[ch] \in Seq(Nat)
    BY StoredAreNumbers DEF RecentInv
  <2>2. PICK s \in Seq(Nat), t \in Seq(Nat), u \in Seq(Nat) :
          s = chatMessages[ch] /\ t = inserting[ch] /\ u = queue[ch]
    BY <2>1
  <2>3. /\ InOrder(s) /\ InOrder(t) /\ InOrder(u)
        /\ \A m \in Elements(s), n \in Elements(t) : m < n
        /\ \A m \in Elements(s), n \in Elements(u) : m < n
        /\ \A m \in Elements(t), n \in Elements(u) : m < n
    BY <2>2 DEF RecentInv, StoreParts
  <2>4. InOrder(s \o t \o u)
    BY <2>3, ThreeInOrder
  <2>5. QED
    BY <2>2, <2>4
<1>2. QED
  BY <1>1 DEF RecentInv, RecentInOrder, ListSound, OrderedBy

\* Whatever the load finds and replaces, whichever batch cannot be stored and whenever the
\* process starts anew: a channel's messages are in order and once each, in memory and in
\* the table, for any channels and any limit.
THEOREM MessagesInOrder == RecentSpec => []RecentInOrder
<1>1. RecentInv => RecentInOrder
  BY RecentInvInOrder
<1>2. QED
  BY <1>1, RecentInitInv, RecentNextInv, PTL DEF RecentSpec

----------------------------------------------------------------------------
(* The three in one state space                                             *)

\* A step of one of the three leaves the others alone, so that each keeps its invariant,
\* and with it the types of all its variables.
THEOREM BackgroundTypeCorrect == Spec => []TypeOK
<1> DEFINE Inv == IgdbInv /\ LogInv /\ RecentInv
<1>1. Init => Inv
  BY IgdbStarts, LogInitInv, RecentInitInv DEF Init
<1>2. Inv /\ [Next]_vars => Inv'
  <2>1. [Next]_vars => [IgdbNext]_igdbVars /\ [LogNext]_logVars /\ [RecentNext]_recentVars
    BY DEF Next, vars
  <2>2. QED
    BY <2>1, IgdbNextInv, LogNextInv, RecentNextInv
<1>3. Inv => TypeOK
  BY DEF IgdbInv, LogInv, RecentInv, TypeOK
<1>4. QED
  BY <1>1, <1>2, <1>3, PTL DEF Spec
=============================================================================
