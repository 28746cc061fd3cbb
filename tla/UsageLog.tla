------------------------------ MODULE UsageLog ------------------------------
(***************************************************************************)
(* The usage-log collector of util/usage_log_collector.rs from try_send to *)
(* the database, and the end of the process in task.rs and main.rs.        *)
(*                                                                         *)
(* Records are the numbers 1, 2, ... in the order in which spawn_usage_log *)
(* is called; MaxRecords bounds how many there are.                        *)
(***************************************************************************)
EXTENDS SequencesExt, Naturals, FiniteSets

CONSTANTS
  MaxRecords,   \* bound: calls of spawn_usage_log
  ChannelSize,  \* capacity of the mpsc channel, 256
  BatchSize     \* batch_size, 10

ASSUME SizeAssumption ==
  /\ MaxRecords \in Nat
  /\ ChannelSize \in Nat \ {0}
  /\ BatchSize \in Nat \ {0}

VARIABLES
  spawned,    \* records given to spawn_usage_log so far
  channel,    \* the mpsc channel
  buffer,     \* the collector's buffer
  collector,  \* where the collector is: "select", "flush", "last", "done"
  table,      \* usage_log, in insertion order
  dropped,    \* records try_send refused
  failed,     \* records of a batch whose insert failed
  server,     \* "serving", "draining", "stopped" or "exited"
  signalled   \* the watch channel: UsageLogCollector::shutdown has been called

vars == <<spawned, channel, buffer, collector, table, dropped, failed,
          server, signalled>>

Init ==
  /\ spawned = 0
  /\ channel = <<>>
  /\ buffer = <<>>
  /\ collector = "select"
  /\ table = <<>>
  /\ dropped = {}
  /\ failed = {}
  /\ server = "serving"
  /\ signalled = FALSE

Running == server # "exited"
-----------------------------------------------------------------------------
(* try_send: refused when the channel is full or its receiver is gone.     *)
(* Stream tasks call it after the workers have stopped, too.               *)
SpawnUsageLog ==
  LET record == spawned + 1 IN
  /\ Running
  /\ spawned < MaxRecords
  /\ spawned' = record
  /\ IF Len(channel) < ChannelSize /\ collector # "done"
     THEN channel' = Append(channel, record) /\ UNCHANGED dropped
     ELSE dropped' = dropped \cup {record} /\ UNCHANGED channel
  /\ UNCHANGED <<buffer, collector, table, failed, server, signalled>>

\* Mutant: the batch is flushed when it exceeds batch_size.
ReceiveOneMore ==
  /\ Running /\ collector = "select"
  /\ channel # <<>>
  /\ channel' = Tail(channel)
  /\ buffer' = Append(buffer, Head(channel))
  /\ collector' = IF Len(buffer') > BatchSize THEN "flush" ELSE "select"
  /\ UNCHANGED <<spawned, table, dropped, failed, server, signalled>>

(* The three branches of select!.  Whichever is ready may be taken.        *)
Receive ==
  /\ Running /\ collector = "select"
  /\ channel # <<>>
  /\ channel' = Tail(channel)
  /\ buffer' = Append(buffer, Head(channel))
  /\ collector' = IF Len(buffer') >= BatchSize THEN "flush" ELSE "select"
  /\ UNCHANGED <<spawned, table, dropped, failed, server, signalled>>

\* Mutant: no interval flushes a partial batch.
IntervalNever == FALSE

IntervalTick ==
  /\ Running /\ collector = "select"
  /\ buffer # <<>>
  /\ collector' = "flush"
  /\ UNCHANGED <<spawned, channel, buffer, table, dropped, failed, server, signalled>>

ShutdownChanged ==
  /\ Running /\ collector = "select"
  /\ signalled
  /\ collector' = "last"
  /\ UNCHANGED <<spawned, channel, buffer, table, dropped, failed, server, signalled>>

(* flush_buffer: the insert is awaited, the buffer is cleared whatever it  *)
(* returns.                                                                *)
AfterFlush == IF collector = "flush" THEN "select" ELSE "done"

\* Mutant: the buffer is not cleared after a successful insert.
InsertUncleared ==
  /\ Running /\ collector \in {"flush", "last"}
  /\ table' = table \o buffer
  /\ buffer' = IF AfterFlush = "done" THEN <<>> ELSE buffer
  /\ collector' = AfterFlush
  /\ UNCHANGED <<spawned, channel, dropped, failed, server, signalled>>

Insert ==
  /\ Running /\ collector \in {"flush", "last"}
  /\ table' = table \o buffer
  /\ buffer' = <<>>
  /\ collector' = AfterFlush
  /\ UNCHANGED <<spawned, channel, dropped, failed, server, signalled>>

\* Mutant: the newest record of a failed batch is given up, the rest tried again.
InsertFailKept ==
  /\ Running /\ collector \in {"flush", "last"}
  /\ buffer # <<>>
  /\ failed' = failed \cup {Last(buffer)}
  /\ buffer' = Front(buffer)
  /\ collector' = AfterFlush
  /\ UNCHANGED <<spawned, channel, table, dropped, server, signalled>>

InsertFail ==
  /\ Running /\ collector \in {"flush", "last"}
  /\ buffer # <<>>
  /\ failed' = failed \cup ToSet(buffer)
  /\ buffer' = <<>>
  /\ collector' = AfterFlush
  /\ UNCHANGED <<spawned, channel, table, dropped, server, signalled>>
-----------------------------------------------------------------------------
(* graceful_shutdown stops the server (gracefully, or by force after 30    *)
(* seconds) and then calls shutdown.  main returns once the server has     *)
(* stopped, and the process ends with it: nothing makes main wait for the  *)
(* task that runs graceful_shutdown.                                       *)
Signal ==
  /\ server = "serving"
  /\ server' = "draining"
  /\ UNCHANGED <<spawned, channel, buffer, collector, table, dropped, failed, signalled>>

ServerStopped ==
  /\ server = "draining"
  /\ server' = "stopped"
  /\ UNCHANGED <<spawned, channel, buffer, collector, table, dropped, failed, signalled>>

Shutdown ==
  /\ server = "stopped"
  /\ ~signalled
  /\ signalled' = TRUE
  /\ UNCHANGED <<spawned, channel, buffer, collector, table, dropped, failed, server>>

Exit ==
  /\ server = "stopped"
  /\ server' = "exited"
  /\ UNCHANGED <<spawned, channel, buffer, collector, table, dropped, failed, signalled>>

Collect == Receive \/ IntervalTick \/ ShutdownChanged \/ Insert \/ InsertFail

Next ==
  \/ SpawnUsageLog
  \/ Collect
  \/ Signal \/ ServerStopped \/ Shutdown \/ Exit

(* The runtime polls the collector while something is ready for it.        *)
Spec == Init /\ [][Next]_vars /\ WF_vars(Collect)
-----------------------------------------------------------------------------
Numbers == 1..MaxRecords

TypeOK ==
  /\ spawned \in 0..MaxRecords
  /\ channel \in Seq(Numbers) /\ Len(channel) <= ChannelSize
  /\ buffer \in Seq(Numbers) /\ Len(buffer) <= BatchSize
  /\ collector \in {"select", "flush", "last", "done"}
  /\ table \in Seq(Numbers)
  /\ dropped \subseteq Numbers
  /\ failed \subseteq Numbers
  /\ server \in {"serving", "draining", "stopped", "exited"}
  /\ signalled \in BOOLEAN

(* A request is counted once at most, and every one can be accounted for:  *)
(* the table, the buffer and the channel hold, in that order, the spawned  *)
(* records that were not dropped or lost with a failed insert, in the      *)
(* order in which they were spawned and each exactly once.                 *)
EachRecordOnce ==
  LET held == table \o buffer \o channel
  IN  /\ \A i, j \in 1..Len(held) : i < j => held[i] < held[j]
      /\ ToSet(held) = (1..spawned) \ (dropped \cup failed)

(* The collector implements the account of UsageAccount: what is in its    *)
(* buffer and its channel waits, in this order, and the interval, the      *)
(* batches, the shutdown and the end of the process change nothing of it.  *)
Account == INSTANCE UsageAccount WITH
  issued <- spawned, pending <- buffer \o channel,
  written <- table, lost <- dropped \cup failed

ImplementsUsageAccount == Account!Spec

(* While the server runs, a record that got into the channel ends up in    *)
(* the table, or in a batch that failed.                                   *)
EventuallyWritten ==
  \A record \in Numbers :
    (record \in ToSet(channel) \cup ToSet(buffer)) ~>
      \/ record \in ToSet(table) \cup failed
      \/ server # "serving"

(* The documents: graceful_shutdown ends with a last flush.  A process that *)
(* has exited holds no record that try_send accepted.                      *)
FlushedBeforeExit == ~Running => channel = <<>> /\ buffer = <<>>
=============================================================================
