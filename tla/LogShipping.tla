---------------------------- MODULE LogShipping ----------------------------
(* LogsService: lines of the log wait in a queue; once a second, unless the *)
(* last batch is still on its way, the queue is sent away.                  *)
EXTENDS Naturals, Sequences

CONSTANT MaxLogs  \* bound: the lines that are logged

ASSUME LogsAssumption == MaxLogs \in Nat

VARIABLES
  logQueue, \* this.queue; lines are numbers
  logBatch, \* the batch on its way; the mutex is locked while there is one
  logged,   \* the number of lines that have been logged
  ingested, \* Axiom: the lines it has, in order
  dropped   \* history: the lines of batches that failed, and of a process that went down

logVars == <<logQueue, logBatch, logged, ingested, dropped>>

LogInit ==
  /\ logQueue = <<>>
  /\ logBatch = <<>>
  /\ logged = 0
  /\ ingested = <<>>
  /\ dropped = {}

Elements(seq) == {seq[i] : i \in 1 .. Len(seq)}

\* log, error, warn, debug and verbose of CustomLogger, in production.
CreateLog ==
  /\ logged < MaxLogs
  /\ logged' = logged + 1
  /\ logQueue' = Append(logQueue, logged')
  /\ UNCHANGED <<logBatch, ingested, dropped>>

\* Mutant: the queue keeps what is sent.
SendLogsKeepsQueue ==
  /\ logQueue # <<>> /\ logBatch = <<>>
  /\ logBatch' = logQueue
  /\ UNCHANGED <<logQueue, logged, ingested, dropped>>

\* Mutant: one line is not enough.
SendLogsInBulk ==
  /\ Len(logQueue) > 1 /\ logBatch = <<>>
  /\ logBatch' = logQueue
  /\ logQueue' = <<>>
  /\ UNCHANGED <<logged, ingested, dropped>>

\* sendLogs: the mutex is locked, and the queue swapped for an empty one.
SendLogs ==
  /\ logQueue # <<>> /\ logBatch = <<>>
  /\ logBatch' = logQueue
  /\ logQueue' = <<>>
  /\ UNCHANGED <<logged, ingested, dropped>>

LogsIngested ==
  /\ logBatch # <<>>
  /\ ingested' = ingested \o logBatch
  /\ logBatch' = <<>>
  /\ UNCHANGED <<logQueue, logged, dropped>>

\* The error is swallowed, and the batch with it.
LogsFail ==
  /\ logBatch # <<>>
  /\ dropped' = dropped \cup Elements(logBatch)
  /\ logBatch' = <<>>
  /\ UNCHANGED <<logQueue, logged, ingested>>

LogRestart ==
  /\ dropped' = dropped \cup Elements(logBatch \o logQueue)
  /\ logBatch' = <<>>
  /\ logQueue' = <<>>
  /\ UNCHANGED <<logged, ingested>>

LogNext == CreateLog \/ SendLogs \/ LogsIngested \/ LogsFail \/ LogRestart

LogSpec == LogInit /\ [][LogNext]_logVars

\* The cron fires, and Axiom answers or fails.
LogFairness == WF_logVars(SendLogs) /\ WF_logVars(LogsIngested \/ LogsFail)

----------------------------------------------------------------------------
(* Properties                                                               *)

LogTypeOK ==
  /\ logQueue \in Seq(1 .. MaxLogs)
  /\ logBatch \in Seq(1 .. MaxLogs)
  /\ logged \in 0 .. MaxLogs
  /\ ingested \in Seq(1 .. MaxLogs)
  /\ dropped \subseteq 1 .. MaxLogs

\* Lines arrive in the order they were logged in, each at most once, and none goes
\* missing but with a batch that failed or a process that went down.
LogsInOrder ==
  LET kept == ingested \o logBatch \o logQueue
  IN /\ \A i, j \in 1 .. Len(kept) : i < j => kept[i] < kept[j]
     /\ Elements(kept) \cap dropped = {}
     /\ Elements(kept) \cup dropped = 1 .. logged

\* A line that waits is sent, or dropped, in the end.
LogsDrain ==
  \A n \in 1 .. MaxLogs : n \in Elements(logQueue) ~> n \in Elements(ingested) \cup dropped
=============================================================================
