---------------------------- MODULE AuditLogger ----------------------------
(***************************************************************************)
(* The audit logger of internal/audit/logger.go.                           *)
(*                                                                         *)
(* A proxied request ends with a goroutine of its own that calls Log.  Log *)
(* hands the record to a bounded channel, or writes it itself when the *)
(* channel is full or Close has begun.  One worker drains the channel, one *)
(* monitor samples the disk and purges old files, and Close stops both and *)
(* writes what is left.  Entries are appended to a daily file under one    *)
(* mutex and each carries the hash of the one before it.                   *)
(*                                                                         *)
(* A record is an opaque value.  What the properties tell apart about its  *)
(* content is given by four sets of records, see the constants.            *)
(***************************************************************************)
EXTENDS Integers, Sequences, FiniteSets

CONSTANTS
  Records,        \* the request contexts passed to Log, one call each
  Streams,        \* those with IsStream
  Incomplete,     \* those whose EndTime was never set by Complete()
  Chunked,        \* those for which LogStreamChunk is called (none, in main)
  MustKeep,       \* those that were blocked or have a HIGH/CRITICAL match
  NoRecord,       \* "no record in hand"
  Worker, Closer, \* the goroutine of startWorker, the one that runs Close
  Configs,        \* the audit configurations that UpdateConfig may install
  BufferSize,     \* capacity of the channel (1000 in the code)
  RetentionDays,  \* log_retention_days
  MaxDay,         \* bound: midnights that pass
  MaxBoots,       \* bound: times the process dies and is started again
  MaxOpenFails,   \* bound: os.OpenFile errors
  MaxWriteFails   \* bound: file.WriteString errors

Threads == Records \cup {Worker, Closer}

ASSUME RecordSets ==
  /\ Streams \subseteq Records
  /\ Incomplete \subseteq Records
  /\ Chunked \subseteq Streams
  /\ MustKeep \subseteq Records
  /\ NoRecord \notin Records
  /\ Worker \notin Records
  /\ Closer \notin Records
  /\ Worker # Closer

ASSUME ConfigShape ==
  Configs \subseteq [enabled : BOOLEAN, sampled : BOOLEAN, storage : {"file", "kafka"}]

ASSUME Bounds ==
  /\ BufferSize \in Nat \ {0}
  /\ RetentionDays \in Nat \ {0}
  /\ MaxDay \in Nat /\ MaxBoots \in Nat
  /\ MaxOpenFails \in Nat /\ MaxWriteFails \in Nat

VARIABLES
  cfg,           \* al.config.Audit
  diskExceeded,  \* al.diskUsageExceeded
  pc,            \* where each call of Log stands
  pending,       \* al.pending: the calls that have Add-ed and not yet Done
  buffer,        \* al.buffer
  hand,          \* the record each thread is running writeLog on
  kept,          \* TRUE once that writeLog has decided to store it
  workerLoop,    \* "main", "drain" (after stopChan closed) or "exited"
  monitor,       \* "running" or "exited"
  closerPc,      \* where Close stands
  closing,       \* al.closing
  stopped,       \* al.stopChan is closed
  sessions,      \* streams with a state in sessionAggregator.sessions
  flushing,      \* states FlushAll returned that Close has yet to handle
  previousHash,  \* al.previousHash
  log,           \* every entry ever appended to the daily files
  purgedDays,    \* days whose file cleanupOldLogs has removed
  today,         \* the date of time.Now()
  boots,         \* restarts so far
  openFails, writeFails  \* I/O errors so far

callVars  == <<pc, pending>>
closeVars == <<closerPc, closing, stopped, flushing>>
fileVars  == <<previousHash, log, openFails, writeFails>>
envVars   == <<cfg, diskExceeded, purgedDays, today, boots>>
threadVars == <<hand, kept, workerLoop, monitor>>
vars == <<callVars, closeVars, fileVars, envVars, threadVars, buffer, sessions>>

-----------------------------------------------------------------------------
(* The hash chain.                                                         *)

\* SHA-256 over the previous hash and the entry.  It is taken to be injective,
\* so a hash is as good as the sequence of what went into it; <<>> is "".
ComputeHash(prev, r) == Append(prev, r)

Entry(r) ==
  [rec |-> r, prev |-> previousHash, hash |-> ComputeHash(previousHash, r),
   day |-> today, boot |-> boots, torn |-> FALSE]

\* Mutant: the hash is advanced before the file is opened.
AppendEntryHashFirst(r) ==
  \/ /\ log' = Append(log, Entry(r))
     /\ previousHash' = ComputeHash(previousHash, r)
     /\ UNCHANGED <<openFails, writeFails>>
  \/ /\ openFails < MaxOpenFails
     /\ openFails' = openFails + 1
     /\ previousHash' = ComputeHash(previousHash, r)
     /\ UNCHANGED <<log, writeFails>>

\* Mutant: the file is opened with O_TRUNC, not O_APPEND.
AppendEntryTruncates(r) ==
  /\ log' = <<Entry(r)>>
  /\ previousHash' = ComputeHash(previousHash, r)
  /\ UNCHANGED <<openFails, writeFails>>

\* writeToFile and writeSessionLog: one critical section of al.mu.  A failed
\* open leaves the chain alone; a failed write comes after the hash was stored
\* and may leave a fragment of the entry in the file.
AppendEntry(r) ==
  \/ /\ log' = Append(log, Entry(r))
     /\ previousHash' = ComputeHash(previousHash, r)
     /\ UNCHANGED <<openFails, writeFails>>
  \/ /\ openFails < MaxOpenFails
     /\ openFails' = openFails + 1
     /\ UNCHANGED <<log, previousHash, writeFails>>
  \/ /\ writeFails < MaxWriteFails
     /\ writeFails' = writeFails + 1
     /\ previousHash' = ComputeHash(previousHash, r)
     /\ \/ UNCHANGED log
        \/ log' = Append(log, [Entry(r) EXCEPT !.torn = TRUE])
     /\ UNCHANGED openFails

\* shouldWriteLog: blocks and high-risk matches always, the others by a draw
\* when 0 < audit_sampling_rate < 1, so "yes" is possible under any rate.
MaySkip(r)  == r \notin MustKeep /\ cfg.sampled

-----------------------------------------------------------------------------
(* writeLog(request), run by thread t on the record in its hand.           *)

\* Aggregate returns nil for a stream whose EndTime is not after its start:
\* nothing is written for it, and a session it may have stays.
DropIncomplete(t) ==
  /\ hand[t] # NoRecord /\ ~kept[t]
  /\ hand[t] \in Streams \cap Incomplete
  /\ hand' = [hand EXCEPT ![t] = NoRecord]
  /\ UNCHANGED <<kept, sessions>>

\* The record is sampled away, or storage_type is "kafka" and it is no stream.
Discard(t) ==
  /\ hand[t] # NoRecord /\ ~kept[t]
  /\ hand[t] \notin Streams \cap Incomplete
  /\ \/ MaySkip(hand[t])
     \/ hand[t] \notin Streams /\ cfg.storage = "kafka"
  /\ hand' = [hand EXCEPT ![t] = NoRecord]
  /\ sessions' = sessions \ {hand[t]}
  /\ UNCHANGED kept

\* shouldWriteLog says yes.  The two reads of the configuration (sampling rate,
\* storage type) are one step.
Keep(t) ==
  /\ hand[t] # NoRecord /\ ~kept[t]
  /\ hand[t] \notin Streams \cap Incomplete
  /\ hand[t] \in Streams \/ cfg.storage = "file"
  /\ kept' = [kept EXCEPT ![t] = TRUE]
  /\ sessions' = sessions \ {hand[t]}
  /\ UNCHANGED hand

Decide(t) ==
  /\ DropIncomplete(t) \/ Discard(t) \/ Keep(t)
  /\ UNCHANGED <<callVars, closeVars, fileVars, envVars, workerLoop, monitor, buffer>>

Store(t) ==
  /\ kept[t]
  /\ AppendEntry(hand[t])
  /\ hand' = [hand EXCEPT ![t] = NoRecord]
  /\ kept' = [kept EXCEPT ![t] = FALSE]
  /\ UNCHANGED <<callVars, closeVars, envVars, workerLoop, monitor, buffer, sessions>>

WriteLog(t) == Decide(t) \/ Store(t)

-----------------------------------------------------------------------------
(* Log(ctx, request): one goroutine per record.                            *)

Passed(r) == cfg.enabled /\ ~diskExceeded

\* The gate: audit disabled or disk over its threshold, the call returns.
LogGate(r) ==
  /\ pc[r] = "idle"
  /\ pc' = [pc EXCEPT ![r] = IF Passed(r) THEN "enter" ELSE "gated"]
  /\ UNCHANGED <<pending, closeVars, fileVars, envVars, threadVars, buffer, sessions>>

\* The critical section of stateMu: once Close has begun the call writes the
\* record itself, otherwise it announces itself to Close in pending.
LogEnter(r) ==
  /\ pc[r] = "enter"
  /\ IF closing
       THEN /\ hand' = [hand EXCEPT ![r] = r]
            /\ pc' = [pc EXCEPT ![r] = "leave"]
            /\ UNCHANGED pending
       ELSE /\ pending' = pending \cup {r}
            /\ pc' = [pc EXCEPT ![r] = "select"]
            /\ UNCHANGED hand
  /\ UNCHANGED <<closeVars, fileVars, envVars, kept, workerLoop, monitor, buffer, sessions>>

\* Mutant: the default branch gives up on the record.
LogSelectDrops(r) ==
  /\ pc[r] = "select"
  /\ pc' = [pc EXCEPT ![r] = "leave"]
  /\ buffer' = IF Len(buffer) < BufferSize THEN Append(buffer, r) ELSE buffer
  /\ UNCHANGED <<pending, closeVars, fileVars, envVars, threadVars, sessions>>

\* Mutant: no return after the send, so a queued record is written here too.
LogSelectFallsThrough(r) ==
  /\ pc[r] = "select"
  /\ pc' = [pc EXCEPT ![r] = "leave"]
  /\ hand' = [hand EXCEPT ![r] = r]
  /\ buffer' = IF Len(buffer) < BufferSize THEN Append(buffer, r) ELSE buffer
  /\ UNCHANGED <<pending, closeVars, fileVars, envVars, kept, workerLoop, monitor, sessions>>

\* Mutant: an unbounded queue instead of the channel.
LogSelectUnbounded(r) ==
  /\ pc[r] = "select"
  /\ pc' = [pc EXCEPT ![r] = "leave"]
  /\ buffer' = Append(buffer, r)
  /\ UNCHANGED <<pending, closeVars, fileVars, envVars, threadVars, sessions>>

\* select { case al.buffer <- request: default: }, then al.writeLog(request)
\* on the default branch.
LogSelect(r) ==
  /\ pc[r] = "select"
  /\ pc' = [pc EXCEPT ![r] = "leave"]
  /\ IF Len(buffer) < BufferSize
       THEN buffer' = Append(buffer, r) /\ UNCHANGED hand
       ELSE hand' = [hand EXCEPT ![r] = r] /\ UNCHANGED buffer
  /\ UNCHANGED <<pending, closeVars, fileVars, envVars, kept, workerLoop, monitor, sessions>>

\* Log returns, running the deferred pending.Done() if it Add-ed.
LogReturn(r) ==
  /\ pc[r] = "leave" /\ hand[r] = NoRecord
  /\ pc' = [pc EXCEPT ![r] = "done"]
  /\ pending' = pending \ {r}
  /\ UNCHANGED <<closeVars, fileVars, envVars, threadVars, buffer, sessions>>

\* LogStreamChunk, called while the stream is running, before its Log.
LogStreamChunk(r) ==
  /\ r \in Chunked /\ pc[r] = "idle" /\ Passed(r)
  /\ sessions' = sessions \cup {r}
  /\ UNCHANGED <<callVars, closeVars, fileVars, envVars, threadVars, buffer>>

\* A session idle for more than five minutes is deleted, until Close stops the
\* ticker.
CleanupExpired(r) ==
  /\ r \in sessions /\ ~stopped
  /\ sessions' = sessions \ {r}
  /\ UNCHANGED <<callVars, closeVars, fileVars, envVars, threadVars, buffer>>

-----------------------------------------------------------------------------
(* The worker of startWorker.                                              *)

WorkerFree == hand[Worker] = NoRecord

\* case reqCtx := <-al.buffer, of either select: with both cases ready the
\* outer one may still choose the buffer after stopChan is closed.
WorkerReceive ==
  /\ WorkerFree /\ workerLoop # "exited" /\ buffer # <<>>
  /\ hand' = [hand EXCEPT ![Worker] = Head(buffer)]
  /\ buffer' = Tail(buffer)
  /\ UNCHANGED <<callVars, closeVars, fileVars, envVars, kept, workerLoop, monitor, sessions>>

\* case <-al.stopChan: on to the drain loop.
WorkerStop ==
  /\ WorkerFree /\ workerLoop = "main" /\ stopped
  /\ workerLoop' = "drain"
  /\ UNCHANGED <<callVars, closeVars, fileVars, envVars, hand, kept, monitor, buffer, sessions>>

\* default: return.
WorkerExit ==
  /\ WorkerFree /\ workerLoop = "drain" /\ buffer = <<>>
  /\ workerLoop' = "exited"
  /\ UNCHANGED <<callVars, closeVars, fileVars, envVars, hand, kept, monitor, buffer, sessions>>

-----------------------------------------------------------------------------
(* The disk monitor.                                                       *)

\* Mutant: the cutoff a day too late.
MayExpireEarly(d) == d + RetentionDays <= today + 1

\* os.Remove for each file whose last write is more than RetentionDays * 24 h
\* ago.  The file of the day RetentionDays before this one may or may not have
\* reached that age.
MayExpire(d) == d + RetentionDays <= today
MustExpire(d) == d + RetentionDays < today

MonitorTick ==
  /\ monitor = "running"
  /\ diskExceeded' \in BOOLEAN
  /\ \E gone \in SUBSET {d \in 0..MaxDay : MayExpire(d)} :
       /\ {d \in 0..MaxDay : MustExpire(d)} \subseteq gone
       /\ purgedDays' = purgedDays \cup gone
  /\ UNCHANGED <<callVars, closeVars, fileVars, cfg, today, boots, threadVars, buffer, sessions>>

MonitorExit ==
  /\ monitor = "running" /\ stopped
  /\ monitor' = "exited"
  /\ UNCHANGED <<callVars, closeVars, fileVars, envVars, hand, kept, workerLoop, buffer, sessions>>

-----------------------------------------------------------------------------
(* Close().                                                                *)

CloseBegin ==
  /\ closerPc = "open"
  /\ closing' = TRUE
  /\ closerPc' = "collect"
  /\ UNCHANGED <<callVars, stopped, flushing, fileVars, envVars, threadVars, buffer, sessions>>

\* FlushAll returns the sessions in flight and empties the map.
FlushAll ==
  /\ closerPc = "collect"
  /\ flushing' = sessions
  /\ sessions' = {}
  /\ closerPc' = "flush"
  /\ UNCHANGED <<callVars, closing, stopped, fileVars, envVars, threadVars, buffer>>

\* shouldWriteLog and writeSessionLog on one of them.  A session whose request
\* has not reached its Log call is only known to matter if it was blocked
\* already.
CloseFlushOne(r) ==
  /\ closerPc = "flush" /\ r \in flushing
  /\ flushing' = flushing \ {r}
  /\ \/ AppendEntry(r)
     \/ cfg.sampled /\ (pc[r] = "idle" \/ r \notin MustKeep) /\ UNCHANGED fileVars
  /\ UNCHANGED <<callVars, closerPc, closing, stopped, envVars, threadVars, buffer, sessions>>

\* close(al.stopChan); sessionAggregator.Close().
CloseStop ==
  /\ closerPc = "flush" /\ flushing = {}
  /\ stopped' = TRUE
  /\ closerPc' = "join"
  /\ UNCHANGED <<callVars, closing, flushing, fileVars, envVars, threadVars, buffer, sessions>>

\* al.wg.Wait() returns.
CloseJoin ==
  /\ closerPc = "join" /\ workerLoop = "exited" /\ monitor = "exited"
  /\ closerPc' = "settle"
  /\ UNCHANGED <<callVars, closing, stopped, flushing, fileVars, envVars, threadVars, buffer, sessions>>

\* Mutant: Close does not wait for the producers.
CloseSettleAtOnce ==
  /\ closerPc = "settle"
  /\ closerPc' = "drain"
  /\ UNCHANGED <<callVars, closing, stopped, flushing, fileVars, envVars, threadVars, buffer, sessions>>

\* al.pending.Wait() returns.
CloseSettle ==
  /\ closerPc = "settle" /\ pending = {}
  /\ closerPc' = "drain"
  /\ UNCHANGED <<callVars, closing, stopped, flushing, fileVars, envVars, threadVars, buffer, sessions>>

\* The last loop takes what was queued after the worker left.
CloseReceive ==
  /\ closerPc = "drain" /\ hand[Closer] = NoRecord /\ buffer # <<>>
  /\ hand' = [hand EXCEPT ![Closer] = Head(buffer)]
  /\ buffer' = Tail(buffer)
  /\ UNCHANGED <<callVars, closeVars, fileVars, envVars, kept, workerLoop, monitor, sessions>>

CloseReturn ==
  /\ closerPc = "drain" /\ hand[Closer] = NoRecord /\ buffer = <<>>
  /\ closerPc' = "closed"
  /\ UNCHANGED <<callVars, closing, stopped, flushing, fileVars, envVars, threadVars, buffer, sessions>>

-----------------------------------------------------------------------------
(* Reloads, the clock, and the death and restart of the process.           *)

UpdateConfig ==
  /\ cfg' \in Configs
  /\ UNCHANGED <<callVars, closeVars, fileVars, diskExceeded, purgedDays, today, boots,
                 threadVars, buffer, sessions>>

Midnight ==
  /\ today < MaxDay
  /\ today' = today + 1
  /\ UNCHANGED <<callVars, closeVars, fileVars, cfg, diskExceeded, purgedDays, boots,
                 threadVars, buffer, sessions>>

NoHand == [t \in Threads |-> NoRecord]
NotKept == [t \in Threads |-> FALSE]

\* The process ends, at any point or because main returned after Close, and is
\* started again by NewAuditLogger: the files stay, the calls it has taken are
\* over.
Restart ==
  /\ boots < MaxBoots
  /\ boots' = boots + 1
  /\ pc' = [r \in Records |-> IF pc[r] \in {"idle", "gated"} THEN pc[r] ELSE "lost"]
  /\ cfg' \in Configs /\ diskExceeded' = FALSE
  /\ pending' = {} /\ buffer' = <<>> /\ sessions' = {}
  /\ hand' = NoHand /\ kept' = NotKept
  /\ workerLoop' = "main" /\ monitor' = "running"
  /\ closerPc' = "open" /\ closing' = FALSE /\ stopped' = FALSE /\ flushing' = {}
  /\ previousHash' = <<>>
  /\ UNCHANGED <<log, openFails, writeFails, purgedDays, today>>

\* NewAuditLogger, on an empty log directory.
Init ==
  /\ cfg \in Configs /\ diskExceeded = FALSE
  /\ pc = [r \in Records |-> "idle"]
  /\ pending = {} /\ buffer = <<>> /\ sessions = {}
  /\ hand = NoHand /\ kept = NotKept
  /\ workerLoop = "main" /\ monitor = "running"
  /\ closerPc = "open" /\ closing = FALSE /\ stopped = FALSE /\ flushing = {}
  /\ previousHash = <<>> /\ log = <<>> /\ openFails = 0 /\ writeFails = 0
  /\ purgedDays = {} /\ today = 0 /\ boots = 0

Call(r) == LogGate(r) \/ LogEnter(r) \/ LogSelect(r) \/ LogReturn(r)
WorkerStep == WorkerReceive \/ WorkerStop \/ WorkerExit
CloserStep ==
  \/ FlushAll \/ CloseStop \/ CloseJoin \/ CloseSettle \/ CloseReceive \/ CloseReturn
  \/ \E r \in Records : CloseFlushOne(r)

Next ==
  \/ \E r \in Records : Call(r) \/ LogStreamChunk(r) \/ CleanupExpired(r)
  \/ \E t \in Threads : WriteLog(t)
  \/ WorkerStep \/ MonitorTick \/ MonitorExit
  \/ CloseBegin \/ CloserStep
  \/ UpdateConfig \/ Midnight \/ Restart

Spec == Init /\ [][Next]_vars

-----------------------------------------------------------------------------
(* Properties.                                                             *)

CallPc == {"idle", "gated", "enter", "select", "leave", "done", "lost"}
CloserPc == {"open", "collect", "flush", "join", "settle", "drain", "closed"}

EntryType ==
  [rec : Records, prev : Seq(Records), hash : Seq(Records),
   day : 0..MaxDay, boot : 0..MaxBoots, torn : BOOLEAN]

\* The type invariant.  Its parts that a bug could break: the channel never
\* exceeds its capacity, and only a thread with a record is past the decision
\* to store it.
TypeOK ==
  /\ cfg \in Configs /\ diskExceeded \in BOOLEAN
  /\ pc \in [Records -> CallPc] /\ pending \subseteq Records
  /\ buffer \in Seq(Records) /\ Len(buffer) <= BufferSize
  /\ hand \in [Threads -> Records \cup {NoRecord}]
  /\ kept \in [Threads -> BOOLEAN]
  /\ \A t \in Threads : kept[t] => hand[t] # NoRecord
  /\ workerLoop \in {"main", "drain", "exited"} /\ monitor \in {"running", "exited"}
  /\ closerPc \in CloserPc /\ closing \in BOOLEAN /\ stopped \in BOOLEAN
  /\ sessions \subseteq Records /\ flushing \subseteq Records
  /\ previousHash \in Seq(Records) /\ log \in Seq(EntryType)
  /\ purgedDays \subseteq 0..MaxDay /\ today \in 0..MaxDay /\ boots \in 0..MaxBoots
  /\ openFails \in 0..MaxOpenFails /\ writeFails \in 0..MaxWriteFails

Stored(r) == \E i \in 1..Len(log) : log[i].rec = r /\ ~log[i].torn
Queued(r) == \E i \in 1..Len(buffer) : buffer[i] = r
InHand(r) == \E t \in Threads : hand[t] = r

\* Log keeps a record on exactly one path (queue, own write, worker, Close):
\* however the calls interleave, no record is written twice.  A session that
\* Close flushed before its Log call is the exception the code makes.
AtMostOnce ==
  \A i, j \in 1..Len(log) :
    log[i].rec = log[j].rec /\ log[i].rec \notin Chunked => i = j

\* The records whose loss nothing in the code permits: blocked or high-risk,
\* not a stream without an end time, not sent to the Kafka stub.
FileOnly == \A c \in Configs : c.storage = "file"
Durable == {r \in MustKeep \ (Streams \cap Incomplete) : r \in Streams \/ FileOnly}

Missing == {r \in Durable : pc[r] \in {"leave", "done"} /\ ~Queued(r) /\ ~InHand(r) /\ ~Stored(r)}

\* "Never drop audit records because of a full buffer" (Log): a record Log has
\* taken is in the channel, in some thread's hand or in a file, and each one
\* that is not is the victim of an I/O error of its own.
NoSilentDrop == Cardinality(Missing) <= openFails + writeFails

\* When Close has returned, whatever a finished Log call left in the channel
\* has been written: the drain misses no producer that raced with it.
CloseDrains ==
  closerPc = "closed" =>
    Cardinality({r \in Durable : pc[r] = "done" /\ ~Stored(r)}) <= openFails + writeFails

\* The hash entry i should carry: that of the entry before it, or none if it is the
\* first that this life of the process has written.
Link(i) == IF i = 1 \/ log[i - 1].boot # log[i].boot THEN <<>> ELSE log[i - 1].hash
Gaps == {i \in 1..Len(log) : log[i].prev # Link(i)}

\* Each life of the process writes one chain: every entry carries the hash of the
\* entry before it, whichever of the worker, the callers and Close wrote the
\* two, and each break is a write of that chain that failed.  How the chain of
\* the next life begins is the subject of ChainContinues.
ChainLinked == Cardinality(Gaps) <= writeFails

\* QueryByTraceID, asked for a request id: newest file first, each one read up
\* to what does not decode.
Readable ==
  {i \in 1..Len(log) :
     /\ log[i].day \notin purgedDays
     /\ \A j \in 1..i : log[j].torn => log[j].day # log[i].day}
QueryByRequestID(r) == {i \in Readable : log[i].rec = r}

\* A record written within the retention period is found by its request id, in
\* whichever daily file it is.
QueryAnswers ==
  writeFails = 0 =>
    \A i \in 1..Len(log) :
      log[i].day + RetentionDays > today => QueryByRequestID(log[i].rec) # {}

\* Where a record stands, as its promise sees it.
Held(r) == Queued(r) \/ InHand(r)
Unstored(r) ==
  CASE pc[r] = "idle" -> "new"
    [] pc[r] = "gated" -> "refused"
    [] pc[r] \in {"enter", "select"} -> "taken"
    [] pc[r] = "leave" /\ Held(r) -> "taken"
    [] pc[r] = "done" /\ Held(r) -> "owed"
    [] OTHER -> "gone"
Custody(r) == IF Stored(r) THEN "stored" ELSE Unstored(r)

\* The logger does what AuditPromise says, step by step: whatever the channel,
\* the worker, the callers and Close do with a record, it leaves the logger's
\* custody only by a store, an I/O error of its own, a death of the process or
\* a rule that permits it; a stored record stays; and after Close no call leaves
\* one behind.
Promise == INSTANCE AuditPromise WITH
  Early <- Chunked, custody <- [r \in Records |-> Custody(r)],
  closed <- closerPc = "closed", faults <- openFails + writeFails
PromiseSpec == Promise!Spec

\* SECURITY.md: "in no case is a record dropped silently".  Without an I/O
\* error, a blocked or high-risk record that a Log call has taken is not lost.
NoRecordLost ==
  FileOnly /\ openFails + writeFails = 0 =>
    \A r \in MustKeep : pc[r] \in {"leave", "done"} => Queued(r) \/ InHand(r) \/ Stored(r)

\* Deployment guide, section 8: the records form one chain, which a restart of the
\* gateway continues, in agreement with the hash of the record before it.
ChainContinues == \A i \in 2..Len(log) : log[i].prev = log[i - 1].hash

=============================================================================
