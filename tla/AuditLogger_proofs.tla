------------------------ MODULE AuditLogger_proofs ------------------------
(***************************************************************************)
(* Proofs about AuditLogger, for every set of records, channel capacity    *)
(* and number of failures and restarts.                                    *)
(***************************************************************************)
EXTENDS AuditLogger, FiniteSetTheorems, SequenceTheorems, TLAPS

USE DEF callVars, closeVars, fileVars, envVars, threadVars

\* A record taken from the channel leaves a sequence of records.
LEMMA TakeFromBuffer ==
  ASSUME TypeOK, buffer # <<>>
  PROVE  Head(buffer) \in Records /\ Tail(buffer) \in Seq(Records)
           /\ Len(Tail(buffer)) <= BufferSize
<1>1. buffer \in Seq(Records) /\ Len(buffer) <= BufferSize
  BY DEF TypeOK
<1>2. Head(buffer) \in Records /\ Tail(buffer) \in Seq(Records)
        /\ Len(Tail(buffer)) = Len(buffer) - 1
  BY <1>1, HeadTailProperties
<1>3. QED
  BY <1>1, <1>2, Bounds

\* The entry made for a record has its type.
LEMMA EntryTyped ==
  ASSUME TypeOK, NEW r \in Records
  PROVE  /\ Entry(r) \in EntryType
         /\ [Entry(r) EXCEPT !.torn = TRUE] \in EntryType
         /\ ComputeHash(previousHash, r) \in Seq(Records)
<1>1. ComputeHash(previousHash, r) \in Seq(Records)
  BY AppendProperties DEF TypeOK, ComputeHash
<1>2. Entry(r) \in EntryType
  BY <1>1 DEF Entry, EntryType, TypeOK
<1>3. [Entry(r) EXCEPT !.torn = TRUE] \in EntryType
  BY <1>2 DEF EntryType
<1>4. QED
  BY <1>1, <1>2, <1>3

\* Writing an entry, or failing to, keeps the types of what it changes.
LEMMA AppendEntryTyped ==
  ASSUME TypeOK, NEW r \in Records, AppendEntry(r)
  PROVE  /\ log' \in Seq(EntryType) /\ previousHash' \in Seq(Records)
         /\ openFails' \in 0..MaxOpenFails /\ writeFails' \in 0..MaxWriteFails
<1>1. log \in Seq(EntryType) /\ previousHash \in Seq(Records)
        /\ openFails \in 0..MaxOpenFails /\ writeFails \in 0..MaxWriteFails
  BY DEF TypeOK
<1>2. Append(log, Entry(r)) \in Seq(EntryType)
        /\ Append(log, [Entry(r) EXCEPT !.torn = TRUE]) \in Seq(EntryType)
  BY <1>1, EntryTyped, AppendProperties
<1>3. openFails' \in 0..MaxOpenFails /\ writeFails' \in 0..MaxWriteFails
  BY <1>1, Bounds DEF AppendEntry
<1>4. log' \in Seq(EntryType) /\ previousHash' \in Seq(Records)
  BY <1>1, <1>2, EntryTyped DEF AppendEntry
<1>5. QED
  BY <1>3, <1>4

LEMMA TypeInit == Init => TypeOK
<1> SUFFICES ASSUME Init PROVE TypeOK
  OBVIOUS
<1>1. buffer \in Seq(Records) /\ Len(buffer) <= BufferSize
        /\ previousHash \in Seq(Records) /\ log \in Seq(EntryType)
  BY Bounds DEF Init
<1>2. openFails \in 0..MaxOpenFails /\ writeFails \in 0..MaxWriteFails
        /\ today \in 0..MaxDay /\ boots \in 0..MaxBoots
  BY Bounds DEF Init
<1>3. pc \in [Records -> CallPc] /\ hand \in [Threads -> Records \cup {NoRecord}]
  BY DEF Init, NoHand, CallPc
<1>4. kept \in [Threads -> BOOLEAN] /\ \A t \in Threads : kept[t] => hand[t] # NoRecord
  BY DEF Init, NotKept
<1>5. QED
  BY <1>1, <1>2, <1>3, <1>4 DEF Init, TypeOK, CloserPc

LEMMA TypeNext == TypeOK /\ [Next]_vars => TypeOK'
<1> SUFFICES ASSUME TypeOK, [Next]_vars PROVE TypeOK'
  OBVIOUS
<1> USE DEF TypeOK, CallPc, CloserPc
<1>1. ASSUME NEW r \in Records, LogGate(r) PROVE TypeOK'
  BY <1>1 DEF LogGate
<1>2. ASSUME NEW r \in Records, LogEnter(r) PROVE TypeOK'
  <2>1. r # NoRecord /\ r \in Threads
    BY <1>2, RecordSets DEF Threads
  <2>2. hand' \in {hand, [hand EXCEPT ![r] = r]} /\ kept' = kept
    BY <1>2 DEF LogEnter
  <2>3. hand' \in [Threads -> Records \cup {NoRecord}]
          /\ \A t \in Threads : kept'[t] => hand'[t] # NoRecord
    BY <2>1, <2>2
  <2>4. pc' \in [Records -> CallPc] /\ pending' \subseteq Records
    BY <1>2 DEF LogEnter
  <2>5. QED
    BY <1>2, <2>2, <2>3, <2>4 DEF LogEnter
<1>3. ASSUME NEW r \in Records, LogSelect(r) PROVE TypeOK'
  <2>1. /\ Append(buffer, r) \in Seq(Records) /\ Len(Append(buffer, r)) = Len(buffer) + 1
        /\ Len(buffer) \in Nat /\ r # NoRecord /\ r \in Threads
    BY <1>3, AppendProperties, RecordSets DEF Threads
  <2>2. CASE Len(buffer) < BufferSize
    <3>1. buffer' = Append(buffer, r) /\ hand' = hand
      BY <2>2, <1>3 DEF LogSelect
    <3>2. buffer' \in Seq(Records) /\ Len(buffer') <= BufferSize
      BY <2>1, <2>2, <3>1, Bounds
    <3>3. QED
      BY <3>1, <3>2, <1>3 DEF LogSelect
  <2>3. CASE ~(Len(buffer) < BufferSize)
    <3>1. buffer' = buffer /\ hand' = [hand EXCEPT ![r] = r]
      BY <2>3, <1>3 DEF LogSelect
    <3>2. hand' \in [Threads -> Records \cup {NoRecord}]
            /\ \A t \in Threads : kept[t] => hand'[t] # NoRecord
      BY <2>1, <3>1
    <3>3. QED
      BY <3>1, <3>2, <1>3 DEF LogSelect
  <2>4. QED
    BY <2>2, <2>3
<1>4. ASSUME NEW r \in Records, LogReturn(r) PROVE TypeOK'
  BY <1>4 DEF LogReturn
<1>5. ASSUME NEW r \in Records, LogStreamChunk(r) PROVE TypeOK'
  BY <1>5 DEF LogStreamChunk
<1>6. ASSUME NEW r \in Records, CleanupExpired(r) PROVE TypeOK'
  BY <1>6 DEF CleanupExpired
<1>7. ASSUME NEW t \in Threads, Decide(t) PROVE TypeOK'
  BY <1>7 DEF Decide, DropIncomplete, Discard, Keep
<1>8. ASSUME NEW t \in Threads, Store(t) PROVE TypeOK'
  <2>1. hand[t] \in Records
    BY <1>8 DEF Store
  <2>2. /\ log' \in Seq(EntryType) /\ previousHash' \in Seq(Records)
        /\ openFails' \in 0..MaxOpenFails /\ writeFails' \in 0..MaxWriteFails
    BY <1>8, <2>1, AppendEntryTyped DEF Store
  <2>3. QED
    BY <1>8, <2>2 DEF Store
<1>9. ASSUME NEW r \in Records, CloseFlushOne(r) PROVE TypeOK'
  <2>1. /\ log' \in Seq(EntryType) /\ previousHash' \in Seq(Records)
        /\ openFails' \in 0..MaxOpenFails /\ writeFails' \in 0..MaxWriteFails
    BY <1>9, AppendEntryTyped DEF CloseFlushOne
  <2>2. QED
    BY <1>9, <2>1 DEF CloseFlushOne
<1>10. CASE WorkerReceive
  <2>1. Head(buffer) \in Records /\ Tail(buffer) \in Seq(Records) /\ Len(Tail(buffer)) <= BufferSize
    BY <1>10, TakeFromBuffer DEF WorkerReceive
  <2>2. QED
    BY <1>10, <2>1, RecordSets DEF WorkerReceive, WorkerFree, Threads
<1>11. CASE WorkerStop
  BY <1>11 DEF WorkerStop, WorkerFree
<1>12. CASE WorkerExit
  BY <1>12 DEF WorkerExit, WorkerFree
<1>13. CASE MonitorTick
  BY <1>13 DEF MonitorTick
<1>14. CASE MonitorExit
  BY <1>14 DEF MonitorExit
<1>15. CASE CloseBegin
  BY <1>15 DEF CloseBegin
<1>16. CASE FlushAll
  BY <1>16 DEF FlushAll
<1>17. CASE CloseStop
  BY <1>17 DEF CloseStop
<1>18. CASE CloseJoin
  BY <1>18 DEF CloseJoin
<1>19. CASE CloseSettle
  BY <1>19 DEF CloseSettle
<1>20. CASE CloseReceive
  <2>1. Head(buffer) \in Records /\ Tail(buffer) \in Seq(Records) /\ Len(Tail(buffer)) <= BufferSize
    BY <1>20, TakeFromBuffer DEF CloseReceive
  <2>2. QED
    BY <1>20, <2>1, RecordSets DEF CloseReceive, WorkerFree, Threads
<1>21. CASE CloseReturn
  BY <1>21 DEF CloseReturn
<1>22. CASE UpdateConfig
  BY <1>22 DEF UpdateConfig
<1>23. CASE Midnight
  BY <1>23, Bounds DEF Midnight
<1>24. CASE Restart
  <2>1. buffer' \in Seq(Records) /\ Len(buffer') <= BufferSize /\ previousHash' \in Seq(Records)
          /\ boots' \in 0..MaxBoots
    BY <1>24, Bounds DEF Restart
  <2>2. pc' \in [Records -> CallPc] /\ hand' \in [Threads -> Records \cup {NoRecord}]
    BY <1>24 DEF Restart, NoHand
  <2>3. kept' \in [Threads -> BOOLEAN] /\ \A t \in Threads : kept'[t] => hand'[t] # NoRecord
    BY <1>24 DEF Restart, NotKept
  <2>4. QED
    BY <1>24, <2>1, <2>2, <2>3 DEF Restart
<1>25. CASE UNCHANGED vars
  BY <1>25 DEF vars
<1>26. QED
  BY <1>1, <1>2, <1>3, <1>4, <1>5, <1>6, <1>7, <1>8, <1>9, <1>10, <1>11, <1>12, <1>13, <1>14, <1>15, <1>16, <1>17, <1>18, <1>19, <1>20, <1>21, <1>22, <1>23, <1>24, <1>25
  DEF Next, Call, WriteLog, WorkerStep, CloserStep

THEOREM TypeCorrect == Spec => []TypeOK
BY TypeInit, TypeNext, PTL DEF Spec

-----------------------------------------------------------------------------
(* The hash chain.  The strengthening counts a gap that is yet to show: the  *)
(* hash in memory is not the one the next entry should carry.  A restart    *)
(* closes it, since no entry is of the life that begins.                    *)

LastHash ==
  IF log = <<>> \/ log[Len(log)].boot # boots THEN <<>> ELSE log[Len(log)].hash
Ahead == IF previousHash = LastHash THEN 0 ELSE 1
Lived == \A i \in 1..Len(log) : log[i].boot <= boots
Chain == Lived /\ Cardinality(Gaps) + Ahead <= writeFails

LEMMA GapsFinite ==
  ASSUME TypeOK
  PROVE  IsFiniteSet(Gaps) /\ Cardinality(Gaps) \in Nat
<1>1. Len(log) \in Nat
  BY DEF TypeOK
<1>2. IsFiniteSet(1..Len(log)) /\ Gaps \subseteq 1..Len(log)
  BY <1>1, FS_Interval DEF Gaps
<1>3. QED
  BY <1>2, FS_Subset, FS_CardinalityType

\* An appended entry adds a gap exactly if it does not carry the last hash.
LEMMA GapsAppend ==
  ASSUME TypeOK, Lived, NEW e, log' = Append(log, e), e.boot = boots, boots' = boots
  PROVE  /\ Cardinality(Gaps') = Cardinality(Gaps) + (IF e.prev = LastHash THEN 0 ELSE 1)
         /\ LastHash' = e.hash
         /\ Lived'
<1> DEFINE n == Len(log)
           From(l, i) == IF i = 1 \/ l[i - 1].boot # l[i].boot THEN <<>> ELSE l[i - 1].hash
<1>1. log \in Seq(EntryType) /\ n \in Nat /\ boots \in Nat
  BY Bounds DEF TypeOK
<1>2. /\ Len(log') = n + 1
      /\ \A i \in 1..n : log'[i] = log[i]
      /\ log'[n + 1] = e
  BY <1>1
<1>3. From(log', n + 1) = LastHash
  <2>1. CASE n = 0
    BY <1>1, <2>1 DEF LastHash
  <2>2. CASE n # 0
    <3>1. log # <<>> /\ n \in 1..n /\ (n + 1) - 1 = n /\ n + 1 # 1
      BY <1>1, <2>2
    <3>2. QED
      BY <1>2, <3>1 DEF LastHash
  <2>3. QED
    BY <2>1, <2>2
<1>4. \A i \in 1..n : From(log', i) = From(log, i)
  BY <1>1, <1>2
<1>5. Gaps = {i \in 1..n : log[i].prev # From(log, i)}
        /\ Gaps' = {i \in 1..(n + 1) : log'[i].prev # From(log', i)}
  BY <1>2 DEF Gaps, Link
<1>6. LastHash' = e.hash
  <2>1. log' # <<>> /\ Len(log') \in 1..Len(log')
    BY <1>1, <1>2
  <2>2. QED
    BY <1>2, <2>1 DEF LastHash
<1>7. Lived'
  <2> SUFFICES ASSUME NEW i \in 1..(n + 1) PROVE log'[i].boot <= boots
    BY <1>2 DEF Lived
  <2>1. i \in 1..n \/ i = n + 1
    BY <1>1
  <2>2. QED
    BY <1>1, <1>2, <2>1 DEF Lived
<1> HIDE DEF From
<1>8. CASE e.prev = LastHash
  <2>1. Gaps' = Gaps
    BY <1>1, <1>2, <1>3, <1>4, <1>5, <1>8
  <2>2. QED
    BY <2>1, <1>6, <1>7, <1>8, GapsFinite
<1>9. CASE e.prev # LastHash
  <2>1. Gaps' = Gaps \cup {n + 1} /\ n + 1 \notin Gaps
    BY <1>1, <1>2, <1>3, <1>4, <1>5, <1>9
  <2>2. QED
    BY <2>1, <1>6, <1>7, <1>9, GapsFinite, FS_AddElement
<1>10. QED
  BY <1>8, <1>9

LEMMA AheadRange == Ahead \in {0, 1} /\ Ahead' \in {0, 1}
BY DEF Ahead

\* writeToFile and writeSessionLog keep the count.
LEMMA AppendEntryChain ==
  ASSUME TypeOK, Chain, NEW r \in Records, AppendEntry(r), boots' = boots
  PROVE  Chain'
<1>1. writeFails \in Nat /\ Cardinality(Gaps) \in Nat /\ Lived
  BY Bounds, GapsFinite DEF TypeOK, Chain
<1>2. /\ Entry(r).prev = previousHash /\ Entry(r).hash = ComputeHash(previousHash, r)
      /\ Entry(r).boot = boots
  BY DEF Entry
<1>3. /\ [Entry(r) EXCEPT !.torn = TRUE].prev = previousHash
      /\ [Entry(r) EXCEPT !.torn = TRUE].hash = ComputeHash(previousHash, r)
      /\ [Entry(r) EXCEPT !.torn = TRUE].boot = boots
  BY DEF Entry
<1>4. CASE /\ log' = Append(log, Entry(r))
           /\ previousHash' = ComputeHash(previousHash, r) /\ writeFails' = writeFails
  <2>1. Cardinality(Gaps') = Cardinality(Gaps) + Ahead /\ Ahead' = 0 /\ Lived'
    BY <1>1, <1>2, <1>4, GapsAppend DEF Ahead
  <2>2. QED
    BY <2>1, <1>1, <1>4, AheadRange DEF Chain
<1>5. CASE log' = log /\ previousHash' = previousHash /\ writeFails' = writeFails
  BY <1>5 DEF Chain, Lived, Ahead, LastHash, Gaps, Link
<1>6. CASE log' = log /\ writeFails' = writeFails + 1
  <2>1. Gaps' = Gaps /\ Lived'
    BY <1>1, <1>6 DEF Gaps, Link, Lived
  <2>2. QED
    BY <2>1, <1>1, <1>6, AheadRange DEF Chain
<1>7. CASE /\ log' = Append(log, [Entry(r) EXCEPT !.torn = TRUE])
           /\ previousHash' = ComputeHash(previousHash, r) /\ writeFails' = writeFails + 1
  <2>1. Cardinality(Gaps') = Cardinality(Gaps) + Ahead /\ Ahead' = 0 /\ Lived'
    BY <1>1, <1>3, <1>7, GapsAppend DEF Ahead
  <2>2. QED
    BY <2>1, <1>1, <1>7, AheadRange DEF Chain
<1>8. QED
  BY <1>4, <1>5, <1>6, <1>7 DEF AppendEntry

\* A new life starts a chain of its own.
LEMMA RestartChain ==
  ASSUME TypeOK, Chain, Restart
  PROVE  Chain'
<1>1. /\ log' = log /\ writeFails' = writeFails /\ boots' = boots + 1
      /\ previousHash' = <<>>
  BY DEF Restart
<1>2. log \in Seq(EntryType) /\ boots \in Nat /\ writeFails \in Nat /\ Cardinality(Gaps) \in Nat
  BY Bounds, GapsFinite DEF TypeOK
<1>3. Gaps' = Gaps
  BY <1>1 DEF Gaps, Link
<1>4. \A i \in 1..Len(log) : log[i].boot \in Nat /\ log[i].boot <= boots
  <2> SUFFICES ASSUME NEW i \in 1..Len(log) PROVE log[i].boot \in Nat /\ log[i].boot <= boots
    OBVIOUS
  <2>1. log[i] \in EntryType
    BY <1>2
  <2>2. log[i].boot \in 0..MaxBoots
    BY <2>1 DEF EntryType
  <2>3. QED
    BY <2>2, Bounds DEF Chain, Lived
<1>5. Lived' /\ \A i \in 1..Len(log) : log[i].boot # boots + 1
  BY <1>1, <1>2, <1>4 DEF Lived
<1>6. LastHash' = <<>>
  <2>1. CASE log = <<>>
    BY <1>1, <2>1 DEF LastHash
  <2>2. CASE log # <<>>
    <3>1. Len(log) \in 1..Len(log)
      BY <1>2, <2>2
    <3>2. QED
      BY <1>1, <1>5, <3>1 DEF LastHash
  <2>3. QED
    BY <2>1, <2>2
<1>7. Ahead' = 0
  BY <1>1, <1>6 DEF Ahead
<1>8. QED
  BY <1>1, <1>2, <1>3, <1>5, <1>7, AheadRange DEF Chain

LEMMA ChainInit == Init => Chain
<1> SUFFICES ASSUME Init PROVE Chain
  OBVIOUS
<1>1. log = <<>> /\ previousHash = <<>> /\ writeFails = 0
  BY DEF Init
<1>2. Gaps = {} /\ Lived
  BY <1>1 DEF Gaps, Lived
<1>3. Ahead = 0
  BY <1>1 DEF Ahead, LastHash
<1>4. QED
  BY <1>1, <1>2, <1>3, FS_EmptySet DEF Chain

LEMMA ChainNext == TypeOK /\ Chain /\ [Next]_vars => Chain'
<1> SUFFICES ASSUME TypeOK, Chain, [Next]_vars PROVE Chain'
  OBVIOUS
<1>1. ASSUME UNCHANGED fileVars, boots' = boots PROVE Chain'
  BY <1>1 DEF Chain, Lived, Ahead, LastHash, Gaps, Link
<1>2. ASSUME NEW r \in Records, Call(r) \/ LogStreamChunk(r) \/ CleanupExpired(r)
      PROVE  Chain'
  BY <1>1, <1>2 DEF Call, LogGate, LogEnter, LogSelect, LogReturn, LogStreamChunk, CleanupExpired
<1>3. ASSUME NEW t \in Threads, Decide(t) PROVE Chain'
  BY <1>1, <1>3 DEF Decide
<1>4. ASSUME NEW t \in Threads, Store(t) PROVE Chain'
  <2>1. hand[t] \in Records
    BY <1>4 DEF Store, TypeOK
  <2>2. QED
    BY <1>4, <2>1, AppendEntryChain DEF Store
<1>5. CASE WorkerStep \/ MonitorTick \/ MonitorExit
  BY <1>1, <1>5 DEF WorkerStep, WorkerReceive, WorkerStop, WorkerExit, MonitorTick, MonitorExit
<1>6. CASE CloseBegin \/ FlushAll \/ CloseStop \/ CloseJoin \/ CloseSettle \/ CloseReceive \/ CloseReturn
  BY <1>1, <1>6 DEF CloseBegin, FlushAll, CloseStop, CloseJoin, CloseSettle, CloseReceive, CloseReturn
<1>7. ASSUME NEW r \in Records, CloseFlushOne(r) PROVE Chain'
  BY <1>1, <1>7, AppendEntryChain DEF CloseFlushOne
<1>8. CASE UpdateConfig \/ Midnight
  BY <1>1, <1>8 DEF UpdateConfig, Midnight
<1>9. CASE Restart
  BY <1>9, RestartChain
<1>10. CASE UNCHANGED vars
  BY <1>1, <1>10 DEF vars
<1>11. QED
  BY <1>2, <1>3, <1>4, <1>5, <1>6, <1>7, <1>8, <1>9, <1>10 DEF Next, WriteLog, CloserStep

\* Whoever writes two consecutive entries of one life of the process, the second
\* carries the hash of the first; the exceptions are at most one for each failed
\* write (ChainLinked).
THEOREM ChainHolds == Spec => []ChainLinked
<1>1. TypeOK /\ Chain => ChainLinked
  <2> SUFFICES ASSUME TypeOK, Chain PROVE ChainLinked
    OBVIOUS
  <2>1. writeFails \in Nat /\ Cardinality(Gaps) \in Nat
    BY Bounds, GapsFinite DEF TypeOK
  <2>2. QED
    BY <2>1, AheadRange DEF Chain, ChainLinked
<1>2. QED
  BY <1>1, ChainInit, ChainNext, TypeCorrect, PTL DEF Spec

-----------------------------------------------------------------------------
(* A record is in one place.                                               *)

Before == {"idle", "gated", "enter", "select"}
Logged(r) == \E i \in 1..Len(log) : log[i].rec = r

\* Log has not yet put the record anywhere.
FreshIsNowhere ==
  \A r \in Records : pc[r] \in Before =>
    ~Queued(r) /\ ~InHand(r) /\ (r \notin Chunked => ~Logged(r))

QueuedOnce == \A i, j \in 1..Len(buffer) : buffer[i] = buffer[j] => i = j
HeldOnce == \A t, u \in Threads : hand[t] = hand[u] /\ hand[t] # NoRecord => t = u
QueuedOrHeld == \A t \in Threads, i \in 1..Len(buffer) : hand[t] # buffer[i]
PendingIsUnwritten ==
  \A r \in Records \ Chunked : Queued(r) \/ InHand(r) => ~Logged(r)
SessionsChunked == sessions \cup flushing \subseteq Chunked

OnePlace ==
  /\ FreshIsNowhere /\ QueuedOnce /\ HeldOnce /\ QueuedOrHeld
  /\ PendingIsUnwritten /\ AtMostOnce /\ SessionsChunked

\* A step that moves no record.
LEMMA PlaceKept ==
  ASSUME OnePlace, UNCHANGED <<buffer, hand, log>>,
         \A r \in Records : pc'[r] \in Before => pc[r] \in Before,
         sessions' \cup flushing' \subseteq Chunked
  PROVE  OnePlace'
BY DEF OnePlace, FreshIsNowhere, QueuedOnce, HeldOnce, QueuedOrHeld, PendingIsUnwritten,
       AtMostOnce, SessionsChunked, Queued, InHand, Logged

\* Log puts its record into the channel.
LEMMA PlaceQueued ==
  ASSUME TypeOK, OnePlace, NEW r \in Records, pc[r] \in Before,
         pc' = [pc EXCEPT ![r] = "leave"], buffer' = Append(buffer, r),
         UNCHANGED <<hand, log, sessions, flushing>>
  PROVE  OnePlace'
<1>1. /\ Len(buffer') = Len(buffer) + 1 /\ Len(buffer) \in Nat
      /\ \A i \in 1..Len(buffer) : buffer'[i] = buffer[i]
      /\ buffer'[Len(buffer) + 1] = r
  BY AppendProperties DEF TypeOK
<1>2. \A i \in 1..Len(buffer') : i \in 1..Len(buffer) \/ i = Len(buffer) + 1
  BY <1>1
<1>3. ~Queued(r) /\ ~InHand(r) /\ (r \notin Chunked => ~Logged(r))
  BY DEF OnePlace, FreshIsNowhere
<1>4. \A s \in Records : pc'[s] \in Before => pc[s] \in Before /\ s # r
  BY DEF TypeOK, Before
<1>5. \A s \in Records \ {r} : Queued(s)' => Queued(s)
  BY <1>1, <1>2 DEF Queued
<1>6. FreshIsNowhere' /\ PendingIsUnwritten'
  BY <1>3, <1>4, <1>5 DEF OnePlace, FreshIsNowhere, PendingIsUnwritten, InHand, Logged
<1>7. QueuedOnce'
  BY <1>1, <1>2, <1>3 DEF OnePlace, QueuedOnce, Queued
<1>8. QueuedOrHeld'
  BY <1>1, <1>2, <1>3 DEF OnePlace, QueuedOrHeld, InHand
<1>9. QED
  BY <1>6, <1>7, <1>8 DEF OnePlace, HeldOnce, AtMostOnce, SessionsChunked

\* Log keeps its record in hand.
LEMMA PlaceOwn ==
  ASSUME TypeOK, OnePlace, NEW r \in Records, pc[r] \in Before,
         pc' = [pc EXCEPT ![r] = "leave"], hand' = [hand EXCEPT ![r] = r],
         UNCHANGED <<buffer, log, sessions, flushing>>
  PROVE  OnePlace'
<1>1. /\ hand'[r] = r /\ r \in Threads /\ r # NoRecord
      /\ \A t \in Threads \ {r} : hand'[t] = hand[t]
  BY RecordSets DEF TypeOK, Threads
<1>2. ~Queued(r) /\ ~InHand(r) /\ (r \notin Chunked => ~Logged(r))
  BY DEF OnePlace, FreshIsNowhere
<1>3. \A s \in Records : pc'[s] \in Before => pc[s] \in Before /\ s # r
  BY DEF TypeOK, Before
<1>4. \A s \in Records \ {r} : InHand(s)' => InHand(s)
  BY <1>1 DEF InHand
<1>5. FreshIsNowhere' /\ PendingIsUnwritten'
  BY <1>2, <1>3, <1>4 DEF OnePlace, FreshIsNowhere, PendingIsUnwritten, Queued, Logged
<1>6. HeldOnce'
  BY <1>1, <1>2 DEF OnePlace, HeldOnce, InHand
<1>7. QueuedOrHeld'
  BY <1>1, <1>2 DEF OnePlace, QueuedOrHeld, Queued
<1>8. QED
  BY <1>5, <1>6, <1>7 DEF OnePlace, QueuedOnce, AtMostOnce, SessionsChunked

\* The worker or Close takes the first record of the channel.
LEMMA PlaceReceived ==
  ASSUME TypeOK, OnePlace, NEW t \in Threads, buffer # <<>>,
         hand' = [hand EXCEPT ![t] = Head(buffer)], buffer' = Tail(buffer),
         UNCHANGED <<pc, log, sessions, flushing>>
  PROVE  OnePlace'
<1>1. /\ Len(buffer) \in Nat \ {0} /\ Len(buffer') = Len(buffer) - 1
      /\ \A i \in 1..Len(buffer') : buffer'[i] = buffer[i + 1]
      /\ Head(buffer) = buffer[1] /\ Head(buffer) \in Records
  BY HeadTailProperties, EmptySeq, LenProperties DEF TypeOK
<1>2. hand'[t] = buffer[1] /\ \A u \in Threads \ {t} : hand'[u] = hand[u]
  BY <1>1 DEF TypeOK
<1>3. \A i \in 1..Len(buffer') : i + 1 \in 1..Len(buffer) /\ i + 1 # 1
  BY <1>1
<1>4. 1 \in 1..Len(buffer)
  BY <1>1
<1>5. \A s \in Records : Queued(s)' \/ InHand(s)' => Queued(s) \/ InHand(s)
  BY <1>1, <1>2, <1>3, <1>4 DEF Queued, InHand
<1>6. FreshIsNowhere' /\ PendingIsUnwritten'
  BY <1>5 DEF OnePlace, FreshIsNowhere, PendingIsUnwritten, Logged
<1>7. QueuedOnce'
  <2> SUFFICES ASSUME NEW i \in 1..Len(buffer'), NEW j \in 1..Len(buffer'), buffer'[i] = buffer'[j]
               PROVE  i = j
    BY DEF QueuedOnce
  <2>1. buffer[i + 1] = buffer[j + 1]
    BY <1>1
  <2>2. i + 1 = j + 1
    BY <1>3, <2>1 DEF OnePlace, QueuedOnce
  <2>3. QED
    BY <1>1, <2>2
<1>8. HeldOnce'
  BY <1>1, <1>2, <1>4 DEF OnePlace, HeldOnce, QueuedOrHeld
<1>9. QueuedOrHeld'
  <2> SUFFICES ASSUME NEW u \in Threads, NEW i \in 1..Len(buffer') PROVE hand'[u] # buffer'[i]
    BY DEF QueuedOrHeld
  <2>1. CASE u = t
    BY <1>1, <1>2, <1>3, <1>4, <2>1 DEF OnePlace, QueuedOnce
  <2>2. CASE u # t
    BY <1>1, <1>2, <1>3, <2>2 DEF OnePlace, QueuedOrHeld
  <2>3. QED
    BY <2>1, <2>2
<1>10. QED
  BY <1>6, <1>7, <1>8, <1>9 DEF OnePlace, AtMostOnce, SessionsChunked

\* writeLog is through with the record in its hand.
LEMMA PlaceDropped ==
  ASSUME TypeOK, OnePlace, NEW t \in Threads, hand' = [hand EXCEPT ![t] = NoRecord],
         UNCHANGED <<pc, buffer, log>>, sessions' \subseteq sessions, UNCHANGED flushing
  PROVE  OnePlace'
<1>1. hand'[t] = NoRecord /\ \A u \in Threads \ {t} : hand'[u] = hand[u]
  BY DEF TypeOK
<1>2. \A s \in Records : InHand(s)' => InHand(s)
  BY <1>1, RecordSets DEF InHand
<1>3. FreshIsNowhere' /\ PendingIsUnwritten'
  BY <1>2 DEF OnePlace, FreshIsNowhere, PendingIsUnwritten, Queued, Logged
<1>4. HeldOnce'
  BY <1>1 DEF OnePlace, HeldOnce
<1>5. QueuedOrHeld'
  <2>1. \A i \in 1..Len(buffer) : buffer[i] \in Records
    BY DEF TypeOK
  <2>2. QED
    BY <1>1, <2>1, RecordSets DEF OnePlace, QueuedOrHeld
<1>6. QED
  BY <1>3, <1>4, <1>5 DEF OnePlace, QueuedOnce, AtMostOnce, SessionsChunked

\* What writing an entry, or failing to, does to the file.
LEMMA WrittenLog ==
  ASSUME TypeOK, NEW r \in Records, AppendEntry(r)
  PROVE  \/ log' = log /\ openFails' + writeFails' = openFails + writeFails + 1
         \/ /\ Len(log') = Len(log) + 1
            /\ \A i \in 1..Len(log) : log'[i] = log[i]
            /\ log'[Len(log) + 1].rec = r
            /\ \/ ~log'[Len(log) + 1].torn /\ openFails' = openFails /\ writeFails' = writeFails
               \/ log'[Len(log) + 1].torn /\ openFails' = openFails /\ writeFails' = writeFails + 1
<1>1. openFails \in Nat /\ writeFails \in Nat /\ log \in Seq(EntryType)
  BY Bounds DEF TypeOK
<1>2. /\ Entry(r) \in EntryType /\ [Entry(r) EXCEPT !.torn = TRUE] \in EntryType
      /\ Entry(r).rec = r /\ ~Entry(r).torn
      /\ [Entry(r) EXCEPT !.torn = TRUE].rec = r /\ [Entry(r) EXCEPT !.torn = TRUE].torn
  <2>1. Entry(r).rec = r /\ ~Entry(r).torn
    BY DEF Entry
  <2>2. QED
    BY <2>1, EntryTyped DEF Entry
<1>3. CASE log' = Append(log, Entry(r)) /\ UNCHANGED <<openFails, writeFails>>
  BY <1>1, <1>2, <1>3, AppendProperties
<1>4. CASE openFails' = openFails + 1 /\ UNCHANGED <<log, writeFails>>
  BY <1>1, <1>4
<1>5. CASE writeFails' = writeFails + 1 /\ UNCHANGED <<log, openFails>>
  BY <1>1, <1>5
<1>6. CASE writeFails' = writeFails + 1 /\ UNCHANGED openFails
             /\ log' = Append(log, [Entry(r) EXCEPT !.torn = TRUE])
  BY <1>1, <1>2, <1>6, AppendProperties
<1>7. QED
  BY <1>3, <1>4, <1>5, <1>6 DEF AppendEntry

\* writeToFile ends with the record of its thread in the file, or not.
LEMMA PlaceWritten ==
  ASSUME TypeOK, OnePlace, NEW t \in Threads, hand[t] # NoRecord, AppendEntry(hand[t]),
         hand' = [hand EXCEPT ![t] = NoRecord],
         UNCHANGED <<pc, buffer, sessions, flushing>>
  PROVE  OnePlace'
<1> DEFINE r == hand[t]
<1>1. r \in Records /\ InHand(r)
  BY DEF TypeOK, InHand
<1>2. hand'[t] = NoRecord /\ \A u \in Threads \ {t} : hand'[u] = hand[u]
  BY DEF TypeOK
<1>3. \/ log' = log
      \/ /\ Len(log') = Len(log) + 1 /\ \A i \in 1..Len(log) : log'[i] = log[i]
         /\ log'[Len(log) + 1].rec = r
  BY <1>1, WrittenLog
<1>4. Len(log) \in Nat
  BY LenProperties DEF TypeOK
<1>5. \A s \in Records : InHand(s)' => InHand(s) /\ s # r
  BY <1>2, RecordSets DEF InHand, OnePlace, HeldOnce
<1>6. ~Queued(r)
  BY DEF OnePlace, QueuedOrHeld, Queued
<1>7. \A s \in Records : Logged(s)' => Logged(s) \/ s = r
  BY <1>3, <1>4 DEF Logged
<1>8. FreshIsNowhere'
  <2>1. pc[r] \notin Before
    BY <1>1 DEF OnePlace, FreshIsNowhere
  <2>2. QED
    BY <2>1, <1>5, <1>7 DEF OnePlace, FreshIsNowhere, Queued
<1>9. PendingIsUnwritten'
  BY <1>5, <1>6, <1>7 DEF OnePlace, PendingIsUnwritten, Queued
<1>10. HeldOnce'
  BY <1>2 DEF OnePlace, HeldOnce
<1>11. QueuedOrHeld'
  <2>1. \A i \in 1..Len(buffer) : buffer[i] \in Records
    BY DEF TypeOK
  <2>2. QED
    BY <1>2, <2>1, RecordSets DEF OnePlace, QueuedOrHeld
<1>12. AtMostOnce'
  <2>1. r \notin Chunked => ~Logged(r)
    BY <1>1 DEF OnePlace, PendingIsUnwritten
  <2>2. QED
    BY <1>3, <1>4, <2>1 DEF OnePlace, AtMostOnce, Logged
<1>13. QED
  BY <1>8, <1>9, <1>10, <1>11, <1>12 DEF OnePlace, QueuedOnce, SessionsChunked

\* Close writes a session, whose record may come to Log as well.
LEMMA PlaceFlushed ==
  ASSUME TypeOK, OnePlace, NEW r \in Chunked,
         AppendEntry(r) \/ UNCHANGED log, flushing' \subseteq flushing,
         UNCHANGED <<pc, buffer, hand, sessions>>
  PROVE  OnePlace'
<1>1. r \in Records
  BY RecordSets
<1>2. \/ log' = log
      \/ /\ Len(log') = Len(log) + 1 /\ \A i \in 1..Len(log) : log'[i] = log[i]
         /\ log'[Len(log) + 1].rec = r
  BY <1>1, WrittenLog
<1>3. Len(log) \in Nat
  BY LenProperties DEF TypeOK
<1>4. \A s \in Records \ Chunked : Logged(s)' => Logged(s)
  BY <1>2, <1>3 DEF Logged
<1>5. FreshIsNowhere' /\ PendingIsUnwritten'
  BY <1>4 DEF OnePlace, FreshIsNowhere, PendingIsUnwritten, Queued, InHand
<1>6. AtMostOnce'
  BY <1>2, <1>3 DEF OnePlace, AtMostOnce
<1>7. QED
  BY <1>5, <1>6 DEF OnePlace, QueuedOnce, HeldOnce, QueuedOrHeld, SessionsChunked

\* The process dies: what was in memory is gone, and no call begins anew.
LEMMA PlaceRestarted ==
  ASSUME TypeOK, OnePlace, Restart
  PROVE  OnePlace'
<1>1. /\ buffer' = <<>> /\ log' = log /\ sessions' \cup flushing' = {}
      /\ hand' = [t \in Threads |-> NoRecord]
  BY DEF Restart, NoHand
<1>2. \A r \in Records : ~Queued(r)' /\ ~InHand(r)'
  BY <1>1, RecordSets DEF Queued, InHand
<1>3. \A r \in Records : pc'[r] \in Before => pc[r] \in Before
  BY DEF Restart, TypeOK, Before
<1>4. QED
  BY <1>1, <1>2, <1>3 DEF OnePlace, FreshIsNowhere, QueuedOnce, HeldOnce, QueuedOrHeld,
                          PendingIsUnwritten, AtMostOnce, SessionsChunked, Logged

\* No record is anywhere before the first call.
LEMMA PlaceInit == Init => OnePlace
BY RecordSets DEF Init, NoHand, OnePlace, FreshIsNowhere, QueuedOnce, HeldOnce, QueuedOrHeld,
   PendingIsUnwritten, AtMostOnce, SessionsChunked, Queued, InHand, Logged

\* Every step keeps each record in one place.
LEMMA PlaceNext == TypeOK /\ OnePlace /\ [Next]_vars => OnePlace'
<1> SUFFICES ASSUME TypeOK, OnePlace, [Next]_vars PROVE OnePlace'
  OBVIOUS
<1>1. CASE UNCHANGED vars
  BY <1>1, PlaceKept DEF vars, OnePlace, SessionsChunked
<1>2. ASSUME NEW r \in Records, LogGate(r) PROVE OnePlace'
  BY <1>2, PlaceKept DEF LogGate, TypeOK, Before, OnePlace, SessionsChunked
<1>3. ASSUME NEW r \in Records, LogEnter(r) PROVE OnePlace'
  <2>1. CASE closing
    BY <1>3, <2>1, PlaceOwn DEF LogEnter, Before
  <2>2. CASE ~closing
    BY <1>3, <2>2, PlaceKept DEF LogEnter, TypeOK, Before, OnePlace, SessionsChunked
  <2>3. QED
    BY <2>1, <2>2
<1>4. ASSUME NEW r \in Records, LogSelect(r) PROVE OnePlace'
  <2>1. CASE Len(buffer) < BufferSize
    BY <1>4, <2>1, PlaceQueued DEF LogSelect, Before
  <2>2. CASE ~(Len(buffer) < BufferSize)
    BY <1>4, <2>2, PlaceOwn DEF LogSelect, Before
  <2>3. QED
    BY <2>1, <2>2
<1>5. ASSUME NEW r \in Records, LogReturn(r) PROVE OnePlace'
  BY <1>5, PlaceKept DEF LogReturn, TypeOK, Before, OnePlace, SessionsChunked
<1>6. ASSUME NEW r \in Records, LogStreamChunk(r) \/ CleanupExpired(r) PROVE OnePlace'
  BY <1>6, PlaceKept DEF LogStreamChunk, CleanupExpired, OnePlace, SessionsChunked
<1>7. ASSUME NEW t \in Threads, Decide(t) PROVE OnePlace'
  <2>1. CASE Keep(t)
    BY <1>7, <2>1, PlaceKept DEF Decide, Keep, OnePlace, SessionsChunked
  <2>2. CASE DropIncomplete(t) \/ Discard(t)
    BY <1>7, <2>2, PlaceDropped DEF Decide, DropIncomplete, Discard
  <2>3. QED
    BY <1>7, <2>1, <2>2 DEF Decide
<1>8. ASSUME NEW t \in Threads, Store(t) PROVE OnePlace'
  BY <1>8, PlaceWritten DEF Store, TypeOK
<1>9. CASE WorkerReceive \/ CloseReceive
  BY <1>9, PlaceReceived DEF WorkerReceive, CloseReceive, Threads
<1>10. CASE WorkerStop \/ WorkerExit \/ MonitorTick \/ MonitorExit
  BY <1>10, PlaceKept DEF WorkerStop, WorkerExit, MonitorTick, MonitorExit, OnePlace,
                          SessionsChunked
<1>11. CASE CloseBegin \/ CloseStop \/ CloseJoin \/ CloseSettle \/ CloseReturn
  BY <1>11, PlaceKept DEF CloseBegin, CloseStop, CloseJoin, CloseSettle, CloseReturn, OnePlace,
                          SessionsChunked
<1>12. CASE FlushAll
  BY <1>12, PlaceKept DEF FlushAll, OnePlace, SessionsChunked
<1>13. ASSUME NEW r \in Records, CloseFlushOne(r) PROVE OnePlace'
  <2>1. r \in Chunked
    BY <1>13 DEF CloseFlushOne, OnePlace, SessionsChunked
  <2>2. QED
    BY <1>13, <2>1, PlaceFlushed DEF CloseFlushOne
<1>14. CASE UpdateConfig \/ Midnight
  BY <1>14, PlaceKept DEF UpdateConfig, Midnight, OnePlace, SessionsChunked
<1>15. CASE Restart
  BY <1>15, PlaceRestarted
<1>16. QED
  BY <1>1, <1>2, <1>3, <1>4, <1>5, <1>6, <1>7, <1>8, <1>9, <1>10, <1>11, <1>12, <1>13, <1>14,
     <1>15 DEF Next, Call, WriteLog, WorkerStep, CloserStep

\* Log, the worker and Close write no record twice, except a session that
\* Close had already flushed (AtMostOnce).
THEOREM AtMostOnceHolds == Spec => []AtMostOnce
<1>1. OnePlace => AtMostOnce
  BY DEF OnePlace
<1>2. QED
  BY <1>1, TypeCorrect, PlaceInit, PlaceNext, PTL DEF Spec

-----------------------------------------------------------------------------
(* What Close can rely on.                                                 *)

\* A caller holds nothing but its own record, and only while it is in Log.
OwnHand ==
  \A r \in Records : hand[r] \in {NoRecord, r} /\ (hand[r] = r => pc[r] = "leave")

\* Close waits for the worker, which holds nothing when it has left.
WorkerGone ==
  /\ closerPc \in {"settle", "drain", "closed"} => workerLoop = "exited"
  /\ workerLoop = "exited" => hand[Worker] = NoRecord

\* Close waits for the calls that may still send; no other begins to.
SendersGone ==
  /\ \A r \in Records : pc[r] = "select" => r \in pending
  /\ closerPc # "open" => closing
  /\ closerPc \in {"drain", "closed"} => pending = {}

ChannelDrained == closerPc = "closed" => buffer = <<>> /\ hand[Closer] = NoRecord

CloseOrder == OwnHand /\ WorkerGone /\ SendersGone /\ ChannelDrained

LEMMA OrderInit == Init => CloseOrder
BY RecordSets DEF Init, NoHand, Threads, CloseOrder, OwnHand, WorkerGone, SendersGone, ChannelDrained

LEMMA OrderNext == TypeOK /\ CloseOrder /\ [Next]_vars => CloseOrder'
<1> SUFFICES ASSUME TypeOK, CloseOrder, [Next]_vars PROVE CloseOrder'
  OBVIOUS
<1> USE DEF CloseOrder, OwnHand, WorkerGone, SendersGone, ChannelDrained
<1>0. /\ Records \subseteq Threads /\ Worker \in Threads /\ Closer \in Threads
      /\ Worker # Closer /\ Worker \notin Records /\ Closer \notin Records
      /\ NoRecord \notin Records
  BY RecordSets DEF Threads
<1>h. hand \in [Threads -> Records \cup {NoRecord}] /\ pc \in [Records -> CallPc]
  BY DEF TypeOK
<1>1. CASE UNCHANGED vars
  BY <1>1 DEF vars
<1>2. ASSUME NEW r \in Records, LogGate(r) PROVE CloseOrder'
  BY <1>2, <1>h DEF LogGate
<1>3. ASSUME NEW r \in Records, LogEnter(r) PROVE CloseOrder'
  BY <1>3, <1>0, <1>h DEF LogEnter
<1>4. ASSUME NEW r \in Records, LogSelect(r) PROVE CloseOrder'
  BY <1>4, <1>0, <1>h DEF LogSelect
<1>5. ASSUME NEW r \in Records, LogReturn(r) PROVE CloseOrder'
  BY <1>5, <1>0, <1>h DEF LogReturn
<1>6. ASSUME NEW r \in Records, LogStreamChunk(r) \/ CleanupExpired(r) PROVE CloseOrder'
  BY <1>6 DEF LogStreamChunk, CleanupExpired
<1>7. ASSUME NEW t \in Threads, Decide(t) PROVE CloseOrder'
  BY <1>7, <1>0, <1>h DEF Decide, Keep, DropIncomplete, Discard
<1>8. ASSUME NEW t \in Threads, Store(t) PROVE CloseOrder'
  BY <1>8, <1>0, <1>h DEF Store
<1>9. CASE WorkerReceive
  BY <1>9, <1>0, <1>h DEF WorkerReceive, WorkerFree
<1>10. CASE CloseReceive
  BY <1>10, <1>0, <1>h DEF CloseReceive
<1>11. CASE WorkerStop \/ WorkerExit \/ MonitorTick \/ MonitorExit
  BY <1>11 DEF WorkerStop, WorkerExit, MonitorTick, MonitorExit, WorkerFree
<1>12. CASE CloseBegin \/ FlushAll \/ CloseStop \/ CloseJoin \/ CloseSettle \/ CloseReturn
  BY <1>12 DEF CloseBegin, FlushAll, CloseStop, CloseJoin, CloseSettle, CloseReturn
<1>13. ASSUME NEW r \in Records, CloseFlushOne(r) PROVE CloseOrder'
  BY <1>13 DEF CloseFlushOne
<1>14. CASE UpdateConfig \/ Midnight
  BY <1>14 DEF UpdateConfig, Midnight
<1>15. CASE Restart
  BY <1>15, <1>0 DEF Restart, NoHand
<1>16. QED
  BY <1>1, <1>2, <1>3, <1>4, <1>5, <1>6, <1>7, <1>8, <1>9, <1>10, <1>11, <1>12, <1>13, <1>14,
     <1>15 DEF Next, Call, WriteLog, WorkerStep, CloserStep

-----------------------------------------------------------------------------
(* Every missing record has an I/O error of its own.                       *)

Fails == openFails + writeFails
LossPaidFor == IsFiniteSet(Missing) /\ Cardinality(Missing) <= Fails

\* The number of I/O errors is a number.
LEMMA FailsCount == TypeOK => Fails \in Nat
BY Bounds DEF TypeOK, Fails

\* A step after which no more records are missing.
LEMMA LossKept ==
  ASSUME TypeOK, LossPaidFor, Missing' \subseteq Missing,
         Fails' = Fails \/ Fails' = Fails + 1
  PROVE  LossPaidFor'
<1>1. IsFiniteSet(Missing') /\ Cardinality(Missing') <= Cardinality(Missing)
  BY FS_Subset DEF LossPaidFor
<1>2. Cardinality(Missing) \in Nat /\ Cardinality(Missing') \in Nat
  BY <1>1, FS_CardinalityType DEF LossPaidFor
<1>3. Fails \in Nat
  BY FailsCount
<1>4. CASE Fails' = Fails
  BY <1>1, <1>2, <1>3, <1>4 DEF LossPaidFor
<1>5. CASE Fails' = Fails + 1
  BY <1>1, <1>2, <1>3, <1>5 DEF LossPaidFor
<1>6. QED
  BY <1>4, <1>5

\* An I/O error may make the record it happened on missing.
LEMMA LossAdded ==
  ASSUME TypeOK, LossPaidFor, NEW r, Missing' \subseteq Missing \cup {r}, Fails' = Fails + 1
  PROVE  LossPaidFor'
<1>1. /\ IsFiniteSet(Missing \cup {r})
      /\ Cardinality(Missing \cup {r}) \in {Cardinality(Missing), Cardinality(Missing) + 1}
  BY FS_AddElement DEF LossPaidFor
<1>2. IsFiniteSet(Missing') /\ Cardinality(Missing') <= Cardinality(Missing \cup {r})
  BY <1>1, FS_Subset
<1>3. Cardinality(Missing) \in Nat /\ Cardinality(Missing') \in Nat
  BY <1>2, FS_CardinalityType DEF LossPaidFor
<1>4. Fails \in Nat
  BY FailsCount
<1>5. QED
  BY <1>1, <1>2, <1>3, <1>4 DEF LossPaidFor

\* A step that takes no record out of the channel, a hand or the file, and
\* finishes no call that was not about to.
LEMMA LossUnmoved ==
  ASSUME TypeOK, LossPaidFor, Fails' = Fails \/ Fails' = Fails + 1,
         \A r \in Records : Queued(r) \/ InHand(r) => Queued(r)' \/ InHand(r)',
         \A r \in Records : Stored(r) => Stored(r)',
         \A r \in Records : pc'[r] \in {"leave", "done"} =>
           pc[r] \in {"leave", "done"} \/ Queued(r)' \/ InHand(r)'
  PROVE  LossPaidFor'
<1>1. Missing' \subseteq Missing
  BY RecordSets DEF Missing, Durable, FileOnly
<1>2. QED
  BY <1>1, LossKept

\* Only a record that nothing obliges the logger to keep is dropped.
LEMMA DroppedIsNotDurable ==
  ASSUME TypeOK, NEW t \in Threads, DropIncomplete(t) \/ Discard(t)
  PROVE  hand[t] \notin Durable
<1>1. CASE DropIncomplete(t)
  BY <1>1 DEF DropIncomplete, Durable
<1>2. CASE Discard(t)
  <2>1. CASE MaySkip(hand[t])
    BY <2>1 DEF MaySkip, Durable
  <2>2. CASE hand[t] \notin Streams /\ cfg.storage = "kafka"
    <3>1. ~FileOnly
      BY <2>2 DEF FileOnly, TypeOK
    <3>2. QED
      BY <2>2, <3>1 DEF Durable
  <2>3. QED
    BY <1>2, <2>1, <2>2 DEF Discard
<1>3. QED
  BY <1>1, <1>2

\* What is appended stays, and is stored unless torn.
LEMMA WrittenStays ==
  ASSUME TypeOK, NEW r \in Records, AppendEntry(r)
  PROVE  /\ \A s \in Records : Stored(s) => Stored(s)'
         /\ (Stored(r)' /\ Fails' = Fails) \/ Fails' = Fails + 1
<1>1. Len(log) \in Nat /\ openFails \in Nat /\ writeFails \in Nat
  BY LenProperties, Bounds DEF TypeOK
<1>2. CASE log' = log /\ openFails' + writeFails' = openFails + writeFails + 1
  BY <1>2 DEF Stored, Fails
<1>3. CASE /\ Len(log') = Len(log) + 1
           /\ \A i \in 1..Len(log) : log'[i] = log[i]
           /\ log'[Len(log) + 1].rec = r
           /\ ~log'[Len(log) + 1].torn /\ openFails' = openFails /\ writeFails' = writeFails
  BY <1>1, <1>3 DEF Stored, Fails
<1>4. CASE /\ Len(log') = Len(log) + 1
           /\ \A i \in 1..Len(log) : log'[i] = log[i]
           /\ openFails' = openFails /\ writeFails' = writeFails + 1
  BY <1>1, <1>4 DEF Stored, Fails
<1>5. QED
  BY <1>2, <1>3, <1>4, WrittenLog

\* The record a thread has written, or failed to write.
LEMMA LossWritten ==
  ASSUME TypeOK, LossPaidFor, NEW t \in Threads, NEW r \in Records, hand[t] = r,
         AppendEntry(r), hand' = [hand EXCEPT ![t] = NoRecord], UNCHANGED <<pc, buffer>>
  PROVE  LossPaidFor'
<1>1. \A s \in Records \ {r} : InHand(s) => InHand(s)'
  BY DEF TypeOK, InHand
<1>2. /\ \A s \in Records : Stored(s) => Stored(s)'
      /\ (Stored(r)' /\ Fails' = Fails) \/ Fails' = Fails + 1
  BY WrittenStays
<1>3. Missing' \subseteq Missing \cup {r}
  BY <1>1, <1>2, RecordSets DEF Missing, Durable, FileOnly, Queued
<1>4. CASE Fails' = Fails + 1
  BY <1>3, <1>4, LossAdded
<1>5. CASE Stored(r)' /\ Fails' = Fails
  <2>1. Missing' \subseteq Missing
    BY <1>3, <1>5 DEF Missing
  <2>2. Fails \in Nat
    BY FailsCount
  <2>3. QED
    BY <1>5, <2>1, <2>2, LossKept
<1>6. QED
  BY <1>2, <1>4, <1>5

\* A session that Close writes, or fails to.
LEMMA LossFlushed ==
  ASSUME TypeOK, LossPaidFor, NEW r \in Records, CloseFlushOne(r)
  PROVE  LossPaidFor'
<1>1. openFails \in Nat /\ writeFails \in Nat
  BY Bounds DEF TypeOK
<1>2. \A s \in Records : Stored(s) => Stored(s)'
  BY WrittenStays DEF CloseFlushOne, Stored
<1>3. Fails' = Fails \/ Fails' = Fails + 1
  BY <1>1, WrittenStays DEF CloseFlushOne, Fails
<1>4. QED
  BY <1>2, <1>3, LossUnmoved DEF CloseFlushOne, Queued, InHand

\* Taking the first record of the channel into a free hand hides none.
LEMMA LossReceived ==
  ASSUME TypeOK, LossPaidFor, NEW t \in Threads, buffer # <<>>, hand[t] = NoRecord,
         hand' = [hand EXCEPT ![t] = Head(buffer)], buffer' = Tail(buffer),
         UNCHANGED <<pc, log, openFails, writeFails>>
  PROVE  LossPaidFor'
<1>1. /\ Len(buffer) \in Nat \ {0} /\ Len(buffer') = Len(buffer) - 1
      /\ \A i \in 1..Len(buffer') : buffer'[i] = buffer[i + 1]
      /\ Head(buffer) = buffer[1]
  BY HeadTailProperties, EmptySeq, LenProperties DEF TypeOK
<1>2. hand'[t] = buffer[1] /\ \A u \in Threads \ {t} : hand'[u] = hand[u]
  BY <1>1 DEF TypeOK
<1>3. ASSUME NEW i \in 1..Len(buffer), i # 1
      PROVE  i - 1 \in 1..Len(buffer') /\ buffer'[i - 1] = buffer[i]
  <2>1. i - 1 \in 1..Len(buffer') /\ (i - 1) + 1 = i
    BY <1>1, <1>3
  <2>2. QED
    BY <1>1, <2>1
<1>4. \A r \in Records : Queued(r) \/ InHand(r) => Queued(r)' \/ InHand(r)'
  BY <1>2, <1>3, RecordSets DEF Queued, InHand
<1>5. openFails \in Nat /\ writeFails \in Nat
  BY Bounds DEF TypeOK
<1>6. QED
  BY <1>4, <1>5, LossUnmoved DEF Stored, Fails

\* A step of Log puts the record where it can be found again, or leaves the
\* call short of its end.
LEMMA LossCall ==
  ASSUME TypeOK, CloseOrder, LossPaidFor, NEW r \in Records, Call(r)
  PROVE  LossPaidFor'
<1>1. Fails' = Fails /\ Fails \in Nat
  <2>1. openFails \in Nat /\ writeFails \in Nat
    BY Bounds DEF TypeOK
  <2>2. openFails' = openFails /\ writeFails' = writeFails
    BY DEF Call, LogGate, LogEnter, LogSelect, LogReturn
  <2>3. QED
    BY <2>1, <2>2 DEF Fails
<1>2. r \in Threads /\ r # NoRecord
  BY RecordSets DEF Threads
<1>3. \A s \in Records : Stored(s) => Stored(s)'
  BY DEF Stored, Call, LogGate, LogEnter, LogSelect, LogReturn
<1>4. hand \in [Threads -> Records \cup {NoRecord}] /\ pc \in [Records -> CallPc]
  BY DEF TypeOK
<1>5. ASSUME hand' = [hand EXCEPT ![r] = r], UNCHANGED buffer, pc' = [pc EXCEPT ![r] = "leave"]
      PROVE  LossPaidFor'
  <2>1. hand'[r] = r /\ \A t \in Threads \ {r} : hand'[t] = hand[t]
    BY <1>2, <1>4, <1>5
  <2>2. hand[r] \in {NoRecord, r}
    BY DEF CloseOrder, OwnHand
  <2>3. \A s \in Records : InHand(s) => InHand(s)'
    BY <2>1, <2>2, RecordSets DEF InHand
  <2>4. InHand(r)'
    BY <1>2, <2>1 DEF InHand
  <2>5. \A s \in Records : pc'[s] = pc[s] \/ InHand(s)'
    BY <1>4, <1>5, <2>4
  <2>6. \A s \in Records : Queued(s) => Queued(s)'
    BY <1>5 DEF Queued
  <2>7. QED
    BY <1>1, <1>3, <2>3, <2>5, <2>6, LossUnmoved
<1>6. ASSUME buffer' = Append(buffer, r), UNCHANGED hand, pc' = [pc EXCEPT ![r] = "leave"]
      PROVE  LossPaidFor'
  <2>1. /\ Len(buffer') = Len(buffer) + 1 /\ Len(buffer) \in Nat
        /\ \A i \in 1..Len(buffer) : buffer'[i] = buffer[i]
        /\ buffer'[Len(buffer) + 1] = r
    BY <1>6, AppendProperties DEF TypeOK
  <2>2. \A s \in Records : Queued(s) => Queued(s)'
    BY <2>1 DEF Queued
  <2>3. Queued(r)'
    BY <2>1 DEF Queued
  <2>4. \A s \in Records : pc'[s] = pc[s] \/ Queued(s)'
    BY <1>4, <1>6, <2>3
  <2>5. \A s \in Records : InHand(s) => InHand(s)'
    BY <1>6 DEF InHand
  <2>6. QED
    BY <1>1, <1>3, <2>2, <2>4, <2>5, LossUnmoved
<1>7. ASSUME UNCHANGED <<hand, buffer>>,
             \A s \in Records : pc'[s] \in {"leave", "done"} => pc[s] \in {"leave", "done"}
      PROVE  LossPaidFor'
  <2>1. \A s \in Records : (Queued(s) => Queued(s)') /\ (InHand(s) => InHand(s)')
    BY <1>7 DEF Queued, InHand
  <2>2. QED
    BY <1>1, <1>3, <1>7, <2>1, LossUnmoved
<1>8. CASE LogGate(r) \/ LogReturn(r)
  BY <1>4, <1>7, <1>8 DEF LogGate, LogReturn
<1>9. CASE LogEnter(r)
  BY <1>4, <1>5, <1>7, <1>9 DEF LogEnter
<1>10. CASE LogSelect(r)
  BY <1>5, <1>6, <1>10 DEF LogSelect
<1>11. QED
  BY <1>8, <1>9, <1>10 DEF Call

\* A step that touches neither the calls, the channel, the hands nor the file.
LEMMA LossStill ==
  ASSUME TypeOK, LossPaidFor, UNCHANGED <<pc, buffer, hand, log, openFails, writeFails>>
  PROVE  LossPaidFor'
<1>1. openFails \in Nat /\ writeFails \in Nat
  BY Bounds DEF TypeOK
<1>2. QED
  BY <1>1, LossUnmoved DEF Queued, InHand, Stored, Fails

\* The steps of writeLog before it writes.
LEMMA LossDecide ==
  ASSUME TypeOK, LossPaidFor, NEW t \in Threads, Decide(t)
  PROVE  LossPaidFor'
<1>1. Fails' = Fails /\ Fails \in Nat
  <2>1. openFails \in Nat /\ writeFails \in Nat
    BY Bounds DEF TypeOK
  <2>2. QED
    BY <2>1 DEF Decide, Fails
<1>2. CASE Keep(t)
  BY <1>2, LossStill DEF Decide, Keep
<1>3. CASE DropIncomplete(t) \/ Discard(t)
  <2>1. PICK r \in Records : r = hand[t]
    BY <1>3 DEF DropIncomplete, Discard, TypeOK
  <2>2. r \notin Durable
    BY <1>3, <2>1, DroppedIsNotDurable
  <2>3. \A s \in Records \ {r} : InHand(s) => InHand(s)'
    BY <1>3, <2>1 DEF DropIncomplete, Discard, TypeOK, InHand
  <2>4. Missing' \subseteq Missing
    BY <2>2, <2>3, RecordSets DEF Decide, Missing, Durable, FileOnly, Queued, Stored
  <2>5. QED
    BY <1>1, <2>4, LossKept
<1>4. QED
  BY <1>2, <1>3 DEF Decide

LEMMA LossInit == Init => LossPaidFor
<1> SUFFICES ASSUME Init PROVE LossPaidFor
  OBVIOUS
<1>1. Missing = {}
  BY RecordSets DEF Init, Missing, Durable
<1>2. QED
  BY <1>1, FS_EmptySet DEF Init, LossPaidFor, Fails

LEMMA LossNext ==
  TypeOK /\ CloseOrder /\ LossPaidFor /\ [Next]_vars => LossPaidFor'
<1> SUFFICES ASSUME TypeOK, CloseOrder, LossPaidFor, [Next]_vars PROVE LossPaidFor'
  OBVIOUS
<1>1. CASE UNCHANGED vars
  BY <1>1, LossStill DEF vars
<1>2. ASSUME NEW r \in Records, Call(r) PROVE LossPaidFor'
  BY <1>2, LossCall
<1>3. ASSUME NEW r \in Records, LogStreamChunk(r) \/ CleanupExpired(r) PROVE LossPaidFor'
  BY <1>3, LossStill DEF LogStreamChunk, CleanupExpired
<1>4. ASSUME NEW t \in Threads, Decide(t) PROVE LossPaidFor'
  BY <1>4, LossDecide
<1>5. ASSUME NEW t \in Threads, Store(t) PROVE LossPaidFor'
  <2>1. hand[t] \in Records
    BY <1>5 DEF Store, TypeOK
  <2>2. QED
    BY <1>5, <2>1, LossWritten DEF Store
<1>6. CASE WorkerReceive
  BY <1>6, LossReceived DEF WorkerReceive, WorkerFree, Threads
<1>7. CASE CloseReceive
  BY <1>7, LossReceived DEF CloseReceive, Threads
<1>8. CASE WorkerStop \/ WorkerExit \/ MonitorTick \/ MonitorExit
  BY <1>8, LossStill DEF WorkerStop, WorkerExit, MonitorTick, MonitorExit
<1>9. CASE CloseBegin \/ FlushAll \/ CloseStop \/ CloseJoin \/ CloseSettle \/ CloseReturn
  BY <1>9, LossStill DEF CloseBegin, FlushAll, CloseStop, CloseJoin, CloseSettle, CloseReturn
<1>10. ASSUME NEW r \in Records, CloseFlushOne(r) PROVE LossPaidFor'
  BY <1>10, LossFlushed
<1>11. CASE UpdateConfig \/ Midnight
  BY <1>11, LossStill DEF UpdateConfig, Midnight
<1>12. CASE Restart
  <2>1. \A r \in Records : pc'[r] \notin {"leave", "done"}
    BY <1>12 DEF Restart
  <2>2. Missing' \subseteq Missing
    BY <2>1, RecordSets DEF Missing, Durable, FileOnly
  <2>3. openFails \in Nat /\ writeFails \in Nat /\ openFails' = openFails
        /\ writeFails' = writeFails
    BY <1>12, Bounds DEF Restart, TypeOK
  <2>4. QED
    BY <2>2, <2>3, LossKept DEF Fails
<1>13. QED
  BY <1>1, <1>2, <1>3, <1>4, <1>5, <1>6, <1>7, <1>8, <1>9, <1>10, <1>11, <1>12
     DEF Next, WriteLog, WorkerStep, CloserStep

\* The same as a theorem, for the modules that run the logger.
THEOREM OrderHolds == Spec => []CloseOrder
BY TypeCorrect, OrderInit, OrderNext, PTL DEF Spec

\* "Never drop audit records because of a full buffer": a record that Log has
\* taken is in the channel, in a hand or in a file, or met an I/O error of its
\* own (NoSilentDrop).
THEOREM NoSilentDropHolds == Spec => []NoSilentDrop
<1>1. LossPaidFor => NoSilentDrop
  BY DEF LossPaidFor, Fails, NoSilentDrop
<1>2. QED
  BY <1>1, TypeCorrect, OrderInit, OrderNext, LossInit, LossNext, PTL DEF Spec

\* When Close has returned, what the finished calls handed over is written
\* (CloseDrains): every sender was waited for, then the channel was emptied.
THEOREM CloseDrainsHolds == Spec => []CloseDrains
<1>1. TypeOK /\ CloseOrder /\ LossPaidFor => CloseDrains
  <2> SUFFICES ASSUME TypeOK, CloseOrder, LossPaidFor, closerPc = "closed"
               PROVE  Cardinality({r \in Durable : pc[r] = "done" /\ ~Stored(r)}) <= Fails
    BY DEF CloseDrains, Fails
  <2> DEFINE Lost == {r \in Durable : pc[r] = "done" /\ ~Stored(r)}
  <2>1. \A r \in Records : ~Queued(r)
    BY DEF CloseOrder, ChannelDrained, Queued
  <2>2. \A r \in Records : pc[r] = "done" => ~InHand(r)
    BY RecordSets DEF CloseOrder, OwnHand, WorkerGone, ChannelDrained, InHand, Threads
  <2>3. Lost \subseteq Missing
    BY <2>1, <2>2, RecordSets DEF Missing, Durable
  <2>4. IsFiniteSet(Lost) /\ Cardinality(Lost) <= Cardinality(Missing)
    BY <2>3, FS_Subset DEF LossPaidFor
  <2>5. Cardinality(Lost) \in Nat /\ Cardinality(Missing) \in Nat
    BY <2>4, FS_CardinalityType DEF LossPaidFor
  <2>6. Fails \in Nat
    BY FailsCount
  <2>7. QED
    BY <2>4, <2>5, <2>6 DEF LossPaidFor
<1>2. QED
  BY <1>1, TypeCorrect, OrderInit, OrderNext, LossInit, LossNext, PTL DEF Spec

-----------------------------------------------------------------------------
(* A record within the retention period is found.                          *)

\* Only expired days are purged, and only a failed write leaves a fragment.
FilesKept ==
  /\ \A d \in purgedDays : d + RetentionDays <= today
  /\ \A i \in 1..Len(log) : log[i].torn => writeFails > 0

LEMMA FilesAppend ==
  ASSUME TypeOK, FilesKept, NEW r \in Records, AppendEntry(r), UNCHANGED <<purgedDays, today>>
  PROVE  FilesKept'
<1>1. Len(log) \in Nat /\ openFails \in Nat /\ writeFails \in Nat
  BY LenProperties, Bounds DEF TypeOK
<1>2. writeFails' \in Nat /\ writeFails' >= writeFails
  BY <1>1 DEF AppendEntry
<1>3. /\ Len(log') \in {Len(log), Len(log) + 1}
      /\ \A i \in 1..Len(log) : log'[i] = log[i]
      /\ Len(log') = Len(log) + 1 /\ log'[Len(log) + 1].torn => writeFails' = writeFails + 1
  BY <1>1, WrittenLog
<1>4. ASSUME NEW i \in 1..Len(log'), log'[i].torn PROVE writeFails' > 0
  <2>1. i \in 1..Len(log) \/ (i = Len(log) + 1 /\ Len(log') = Len(log) + 1)
    BY <1>1, <1>3
  <2>2. CASE i \in 1..Len(log)
    BY <1>1, <1>2, <1>3, <1>4, <2>2 DEF FilesKept
  <2>3. CASE i = Len(log) + 1 /\ Len(log') = Len(log) + 1
    BY <1>1, <1>3, <1>4, <2>3
  <2>4. QED
    BY <2>1, <2>2, <2>3
<1>5. QED
  BY <1>4 DEF FilesKept

LEMMA FilesNext == TypeOK /\ FilesKept /\ [Next]_vars => FilesKept'
<1> SUFFICES ASSUME TypeOK, FilesKept, [Next]_vars PROVE FilesKept'
  OBVIOUS
<1>1. CASE UNCHANGED <<log, writeFails, purgedDays, today>>
  BY <1>1 DEF FilesKept
<1>2. ASSUME NEW r \in Records, Call(r) \/ LogStreamChunk(r) \/ CleanupExpired(r)
      PROVE  FilesKept'
  BY <1>1, <1>2 DEF Call, LogGate, LogEnter, LogSelect, LogReturn, LogStreamChunk, CleanupExpired
<1>3. ASSUME NEW t \in Threads, Decide(t) PROVE FilesKept'
  BY <1>1, <1>3 DEF Decide
<1>4. ASSUME NEW t \in Threads, Store(t) PROVE FilesKept'
  BY <1>4, FilesAppend DEF Store, TypeOK
<1>5. CASE WorkerStep
  BY <1>1, <1>5 DEF WorkerStep, WorkerReceive, WorkerStop, WorkerExit
<1>6. CASE MonitorTick
  BY <1>6 DEF MonitorTick, MayExpire, FilesKept
<1>7. CASE MonitorExit \/ CloseBegin \/ UpdateConfig \/ Restart
  BY <1>1, <1>7 DEF MonitorExit, CloseBegin, UpdateConfig, Restart
<1>8. CASE FlushAll \/ CloseStop \/ CloseJoin \/ CloseSettle \/ CloseReceive \/ CloseReturn
  BY <1>1, <1>8 DEF FlushAll, CloseStop, CloseJoin, CloseSettle, CloseReceive, CloseReturn
<1>9. ASSUME NEW r \in Records, CloseFlushOne(r) PROVE FilesKept'
  BY <1>1, <1>9, FilesAppend DEF CloseFlushOne
<1>10. CASE Midnight
  <2>1. today \in Nat /\ RetentionDays \in Nat /\ purgedDays \subseteq Nat
    BY Bounds DEF TypeOK
  <2>2. QED
    BY <1>10, <2>1 DEF Midnight, FilesKept
<1>11. CASE UNCHANGED vars
  BY <1>1, <1>11 DEF vars
<1>12. QED
  BY <1>2, <1>3, <1>4, <1>5, <1>6, <1>7, <1>8, <1>9, <1>10, <1>11
     DEF Next, WriteLog, CloserStep

\* A record written within the retention period is found by its request id
\* (QueryAnswers).
THEOREM QueryAnswersHolds == Spec => []QueryAnswers
<1>1. Init => FilesKept
  BY DEF Init, FilesKept
<1>2. TypeOK /\ FilesKept => QueryAnswers
  <2> SUFFICES ASSUME TypeOK, FilesKept, writeFails = 0, NEW i \in 1..Len(log),
                      log[i].day + RetentionDays > today
               PROVE  i \in QueryByRequestID(log[i].rec)
    BY DEF QueryAnswers
  <2>1. log[i].day \notin purgedDays
    <3>1. today \in Nat /\ RetentionDays \in Nat /\ log[i] \in EntryType
      BY Bounds DEF TypeOK
    <3>2. log[i].day \in Nat
      BY <3>1, Bounds DEF EntryType
    <3>3. QED
      BY <3>1, <3>2 DEF FilesKept
  <2>2. \A j \in 1..i : ~log[j].torn
    BY LenProperties DEF FilesKept, TypeOK
  <2>3. QED
    BY <2>1, <2>2 DEF QueryByRequestID, Readable
<1>3. QED
  BY <1>1, <1>2, TypeCorrect, FilesNext, PTL DEF Spec

-----------------------------------------------------------------------------
(* The logger implements AuditPromise.                                     *)

\* Only a call of this life of the process has put its record somewhere.
HeldIsCalled == \A r \in Records : Held(r) => pc[r] \in {"leave", "done"}

\* What custody is, row by row, before and after a step.
CustodyRows(r) ==
  /\ Stored(r) => Custody(r) = "stored"
  /\ ~Stored(r) /\ pc[r] = "idle" => Custody(r) = "new"
  /\ ~Stored(r) /\ pc[r] = "gated" => Custody(r) = "refused"
  /\ ~Stored(r) /\ pc[r] \in {"enter", "select"} => Custody(r) = "taken"
  /\ ~Stored(r) /\ pc[r] = "leave" /\ Held(r) => Custody(r) = "taken"
  /\ ~Stored(r) /\ pc[r] = "done" /\ Held(r) => Custody(r) = "owed"
  /\ ~Stored(r) /\ pc[r] \in {"leave", "done"} /\ ~Held(r) => Custody(r) = "gone"
  /\ ~Stored(r) /\ pc[r] = "lost" => Custody(r) = "gone"

LEMMA CustodyTable ==
  ASSUME NEW r
  PROVE  CustodyRows(r) /\ CustodyRows(r)'
BY DEF CustodyRows, Custody, Unstored

\* A step that leaves the place of a record alone.
LEMMA CustodyKept ==
  ASSUME NEW r, pc'[r] = pc[r], Held(r)' <=> Held(r), Stored(r)' <=> Stored(r)
  PROVE  Custody(r)' = Custody(r)
BY DEF Custody, Unstored

\* What a write does to the file, for each record.
LEMMA WrittenExactly ==
  ASSUME TypeOK, NEW r \in Records, AppendEntry(r)
  PROVE  /\ \A q \in Records \ {r} : Stored(q)' <=> Stored(q)
         /\ \/ Stored(r)' /\ Fails' = Fails
            \/ (Stored(r)' <=> Stored(r)) /\ Fails' = Fails + 1
<1>1. Len(log) \in Nat /\ openFails \in Nat /\ writeFails \in Nat
  BY LenProperties, Bounds DEF TypeOK
<1>2. CASE log' = log /\ openFails' + writeFails' = openFails + writeFails + 1
  BY <1>2 DEF Stored, Fails
<1>3. CASE /\ Len(log') = Len(log) + 1
           /\ \A i \in 1..Len(log) : log'[i] = log[i]
           /\ log'[Len(log) + 1].rec = r
           /\ ~log'[Len(log) + 1].torn /\ openFails' = openFails /\ writeFails' = writeFails
  BY <1>1, <1>3 DEF Stored, Fails
<1>4. CASE /\ Len(log') = Len(log) + 1
           /\ \A i \in 1..Len(log) : log'[i] = log[i]
           /\ log'[Len(log) + 1].torn
           /\ openFails' = openFails /\ writeFails' = writeFails + 1
  BY <1>1, <1>4 DEF Stored, Fails
<1>5. QED
  BY <1>2, <1>3, <1>4, WrittenLog

\* Taking the first record of the channel into a free hand hides none.
LEMMA HeldReceived ==
  ASSUME TypeOK, NEW t \in Threads, buffer # <<>>, hand[t] = NoRecord,
         hand' = [hand EXCEPT ![t] = Head(buffer)], buffer' = Tail(buffer)
  PROVE  \A r \in Records : Held(r)' <=> Held(r)
<1>1. /\ Len(buffer) \in Nat \ {0} /\ Len(buffer') = Len(buffer) - 1
      /\ \A i \in 1..Len(buffer') : buffer'[i] = buffer[i + 1]
      /\ Head(buffer) = buffer[1]
  BY HeadTailProperties, EmptySeq, LenProperties DEF TypeOK
<1>2. hand'[t] = buffer[1] /\ \A u \in Threads \ {t} : hand'[u] = hand[u]
  BY <1>1 DEF TypeOK
<1>3. ASSUME NEW i \in 1..Len(buffer), i # 1
      PROVE  i - 1 \in 1..Len(buffer') /\ buffer'[i - 1] = buffer[i]
  <2>1. i - 1 \in 1..Len(buffer') /\ (i - 1) + 1 = i
    BY <1>1, <1>3
  <2>2. QED
    BY <1>1, <2>1
<1>4. 1 \in 1..Len(buffer) /\ \A i \in 1..Len(buffer') : i + 1 \in 1..Len(buffer)
  BY <1>1
<1>5. ASSUME NEW r \in Records, Held(r) PROVE Held(r)'
  BY <1>2, <1>3, <1>5, RecordSets DEF Held, Queued, InHand
<1>6. ASSUME NEW r \in Records, Held(r)' PROVE Held(r)
  BY <1>1, <1>2, <1>4, <1>6, RecordSets DEF Held, Queued, InHand
<1>7. QED
  BY <1>5, <1>6

\* A thread lets go of a record, which is then nowhere.
LEMMA HeldDropped ==
  ASSUME TypeOK, OnePlace, NEW t \in Threads, NEW r \in Records, hand[t] = r,
         hand' = [hand EXCEPT ![t] = NoRecord], buffer' = buffer
  PROVE  /\ Held(r) /\ ~Held(r)'
         /\ \A q \in Records \ {r} : Held(q)' <=> Held(q)
<1>1. NoRecord \notin Records
  BY RecordSets
<1>2. hand'[t] = NoRecord /\ \A u \in Threads \ {t} : hand'[u] = hand[u]
  BY DEF TypeOK
<1>3. Held(r)
  BY DEF Held, InHand
<1>4. ~Queued(r)'
  BY DEF OnePlace, QueuedOrHeld, Queued
<1>5. ~InHand(r)'
  BY <1>1, <1>2 DEF OnePlace, HeldOnce, InHand
<1>6. \A q \in Records \ {r} : Held(q)' <=> Held(q)
  BY <1>1, <1>2 DEF Held, Queued, InHand
<1>7. QED
  BY <1>3, <1>4, <1>5, <1>6 DEF Held

\* Log puts its record where it is held.
LEMMA HeldTaken ==
  ASSUME TypeOK, CloseOrder, NEW r \in Records,
         \/ hand' = [hand EXCEPT ![r] = r] /\ buffer' = buffer
         \/ buffer' = Append(buffer, r) /\ hand' = hand
  PROVE  Held(r)' /\ \A q \in Records \ {r} : Held(q)' <=> Held(q)
<1>1. r \in Threads /\ r # NoRecord
  BY RecordSets DEF Threads
<1>2. CASE hand' = [hand EXCEPT ![r] = r] /\ buffer' = buffer
  <2>1. hand'[r] = r /\ \A t \in Threads \ {r} : hand'[t] = hand[t]
    BY <1>1, <1>2 DEF TypeOK
  <2>2. hand[r] \in {NoRecord, r}
    BY DEF CloseOrder, OwnHand
  <2>3. QED
    BY <1>1, <1>2, <2>1, <2>2, RecordSets DEF Held, Queued, InHand
<1>3. CASE buffer' = Append(buffer, r) /\ hand' = hand
  <2>1. /\ Len(buffer') = Len(buffer) + 1 /\ Len(buffer) \in Nat
        /\ \A i \in 1..Len(buffer) : buffer'[i] = buffer[i]
        /\ buffer'[Len(buffer) + 1] = r
    BY <1>3, AppendProperties DEF TypeOK
  <2>2. \A i \in 1..Len(buffer') : i \in 1..Len(buffer) \/ i = Len(buffer) + 1
    BY <2>1
  <2>3. QED
    BY <1>3, <2>1, <2>2 DEF Held, Queued, InHand
<1>4. QED
  BY <1>2, <1>3

LEMMA HeldInit == Init => HeldIsCalled
BY RecordSets DEF Init, NoHand, HeldIsCalled, Held, Queued, InHand

LEMMA HeldNext ==
  TypeOK /\ OnePlace /\ CloseOrder /\ HeldIsCalled /\ [Next]_vars => HeldIsCalled'
<1> SUFFICES ASSUME TypeOK, OnePlace, CloseOrder, HeldIsCalled, [Next]_vars
             PROVE  HeldIsCalled'
  OBVIOUS
<1>0. pc \in [Records -> CallPc]
  BY DEF TypeOK
<1>1. ASSUME \A r \in Records : Held(r)' => Held(r),
             \A r \in Records : Held(r) /\ pc[r] \in {"leave", "done"} =>
                                  pc'[r] \in {"leave", "done"}
      PROVE  HeldIsCalled'
  BY <1>1 DEF HeldIsCalled
<1>2. ASSUME UNCHANGED <<buffer, hand>>,
             \A r \in Records : pc[r] \in {"leave", "done"} => pc'[r] \in {"leave", "done"}
      PROVE  HeldIsCalled'
  BY <1>1, <1>2 DEF Held, Queued, InHand
<1>3. CASE UNCHANGED vars
  BY <1>2, <1>3 DEF vars
<1>4. ASSUME NEW r \in Records, LogGate(r) \/ LogReturn(r) PROVE HeldIsCalled'
  BY <1>0, <1>2, <1>4 DEF LogGate, LogReturn
<1>5. ASSUME NEW r \in Records, pc' = [pc EXCEPT ![r] = "leave"],
             \/ hand' = [hand EXCEPT ![r] = r] /\ buffer' = buffer
             \/ buffer' = Append(buffer, r) /\ hand' = hand
      PROVE  HeldIsCalled'
  <2>1. \A q \in Records \ {r} : Held(q)' <=> Held(q)
    BY <1>5, HeldTaken
  <2>2. \A q \in Records : pc'[q] = IF q = r THEN "leave" ELSE pc[q]
    BY <1>0, <1>5
  <2>3. QED
    BY <2>1, <2>2 DEF HeldIsCalled
<1>6. ASSUME NEW r \in Records, LogEnter(r) PROVE HeldIsCalled'
  <2>1. CASE closing
    BY <1>5, <1>6, <2>1 DEF LogEnter
  <2>2. CASE ~closing
    BY <1>0, <1>2, <1>6, <2>2 DEF LogEnter
  <2>3. QED
    BY <2>1, <2>2
<1>7. ASSUME NEW r \in Records, LogSelect(r) PROVE HeldIsCalled'
  BY <1>5, <1>7 DEF LogSelect
<1>8. ASSUME NEW r \in Records, LogStreamChunk(r) \/ CleanupExpired(r) PROVE HeldIsCalled'
  BY <1>2, <1>8 DEF LogStreamChunk, CleanupExpired
<1>9. ASSUME NEW t \in Threads, hand[t] # NoRecord, hand' = [hand EXCEPT ![t] = NoRecord],
             buffer' = buffer, pc' = pc
      PROVE  HeldIsCalled'
  <2>1. PICK r \in Records : hand[t] = r
    BY <1>9 DEF TypeOK
  <2>2. \A q \in Records : Held(q)' => Held(q)
    BY <1>9, <2>1, HeldDropped
  <2>3. QED
    BY <1>1, <1>9, <2>2
<1>10. ASSUME NEW t \in Threads, WriteLog(t) PROVE HeldIsCalled'
  <2>1. CASE Keep(t) /\ Decide(t)
    BY <1>2, <2>1 DEF Decide, Keep
  <2>2. CASE (DropIncomplete(t) \/ Discard(t)) /\ Decide(t)
    BY <1>9, <2>2 DEF Decide, DropIncomplete, Discard
  <2>3. CASE Store(t)
    BY <1>9, <2>3 DEF Store, TypeOK
  <2>4. QED
    BY <1>10, <2>1, <2>2, <2>3 DEF WriteLog, Decide
<1>11. CASE WorkerReceive \/ CloseReceive
  <2>1. \A r \in Records : Held(r)' <=> Held(r)
    BY <1>11, HeldReceived DEF WorkerReceive, CloseReceive, WorkerFree, Threads
  <2>2. QED
    BY <1>1, <1>11, <2>1 DEF WorkerReceive, CloseReceive
<1>12. CASE WorkerStop \/ WorkerExit \/ MonitorTick \/ MonitorExit
  BY <1>2, <1>12 DEF WorkerStop, WorkerExit, MonitorTick, MonitorExit
<1>13. CASE CloseBegin \/ FlushAll \/ CloseStop \/ CloseJoin \/ CloseSettle \/ CloseReturn
  BY <1>2, <1>13 DEF CloseBegin, FlushAll, CloseStop, CloseJoin, CloseSettle, CloseReturn
<1>14. ASSUME NEW r \in Records, CloseFlushOne(r) PROVE HeldIsCalled'
  BY <1>2, <1>14 DEF CloseFlushOne
<1>15. CASE UpdateConfig \/ Midnight
  BY <1>2, <1>15 DEF UpdateConfig, Midnight
<1>16. CASE Restart
  BY <1>16, RecordSets DEF Restart, NoHand, HeldIsCalled, Held, Queued, InHand
<1>17. QED
  BY <1>3, <1>4, <1>6, <1>7, <1>8, <1>10, <1>11, <1>12, <1>13, <1>14, <1>15, <1>16
     DEF Next, Call, WorkerStep, CloserStep

Kept == TypeOK /\ OnePlace /\ CloseOrder /\ HeldIsCalled

\* A step that changes neither a record's place, nor Close's end, nor the count.
LEMMA PromiseStutters ==
  ASSUME \A r \in Records : Custody(r)' = Custody(r),
         closerPc' = "closed" <=> closerPc = "closed",
         Fails' = Fails
  PROVE  UNCHANGED Promise!vars
<1>1. [r \in Records |-> Custody(r)]' = [r \in Records |-> Custody(r)]
  OBVIOUS
<1>2. (closerPc = "closed")' = (closerPc = "closed")
  OBVIOUS
<1>3. QED
  BY <1>1, <1>2 DEF Promise!vars, Fails

\* The place of one record changes.
LEMMA PromiseSettles ==
  ASSUME NEW r \in Records, NEW s, Custody(r)' = s,
         \A q \in Records \ {r} : Custody(q)' = Custody(q)
  PROVE  Promise!Settle(r, s)
BY DEF Promise!Settle

\* A step that moves no record.
LEMMA PromiseStill ==
  ASSUME UNCHANGED <<pc, buffer, hand, log, openFails, writeFails>>,
         closerPc' = "closed" <=> closerPc = "closed"
  PROVE  UNCHANGED Promise!vars
<1>1. \A r \in Records : Custody(r)' = Custody(r)
  BY CustodyKept DEF Held, Queued, InHand, Stored
<1>2. QED
  BY <1>1, PromiseStutters DEF Fails

\* LogGate refuses the record or accepts it.
LEMMA PromiseGate ==
  ASSUME Kept, NEW r \in Records, LogGate(r)
  PROVE  [Promise!Next]_(Promise!vars)
<1>1. /\ pc[r] = "idle" /\ pc'[r] \in {"enter", "gated"}
      /\ \A q \in Records \ {r} : pc'[q] = pc[q]
      /\ UNCHANGED <<buffer, hand, log, openFails, writeFails, closerPc>>
  BY DEF LogGate, Kept, TypeOK
<1>2. \A q \in Records : (Held(q)' <=> Held(q)) /\ (Stored(q)' <=> Stored(q))
  BY <1>1 DEF Held, Queued, InHand, Stored
<1>3. \A q \in Records \ {r} : Custody(q)' = Custody(q)
  BY <1>1, <1>2, CustodyKept
<1>4. CASE Stored(r)
  <2>1. Custody(r)' = Custody(r)
    BY <1>2, <1>4, CustodyTable DEF CustodyRows
  <2>2. QED
    BY <1>1, <1>3, <2>1, PromiseStutters DEF Fails
<1>5. CASE ~Stored(r)
  <2>1. Custody(r) = "new" /\ Custody(r)' \in {"taken", "refused"}
    BY <1>1, <1>2, <1>5, CustodyTable DEF CustodyRows
  <2>2. Promise!Settle(r, "taken") \/ Promise!Settle(r, "refused")
    BY <1>3, <2>1, PromiseSettles
  <2>3. Promise!Accept(r) \/ Promise!Refuse(r)
    BY <1>1, <2>1, <2>2 DEF Promise!Accept, Promise!Refuse
  <2>4. QED
    BY <2>3 DEF Promise!Next
<1>6. QED
  BY <1>4, <1>5

\* LogEnter and LogSelect keep the record in custody.
LEMMA PromiseTakes ==
  ASSUME Kept, NEW r \in Records, LogEnter(r) \/ LogSelect(r)
  PROVE  UNCHANGED Promise!vars
<1>1. /\ pc[r] \in {"enter", "select"} /\ \A q \in Records \ {r} : pc'[q] = pc[q]
      /\ UNCHANGED <<log, openFails, writeFails, closerPc>>
  BY DEF LogEnter, LogSelect, Kept, TypeOK
<1>2. /\ pc'[r] = "select" \/ (pc'[r] = "leave" /\ Held(r)')
      /\ \A q \in Records \ {r} : Held(q)' <=> Held(q)
  <2>1. CASE LogEnter(r) /\ ~closing
    BY <2>1 DEF LogEnter, Kept, TypeOK, Held, Queued, InHand
  <2>2. CASE \/ hand' = [hand EXCEPT ![r] = r] /\ buffer' = buffer /\ pc'[r] = "leave"
             \/ buffer' = Append(buffer, r) /\ hand' = hand /\ pc'[r] = "leave"
    BY <2>2, HeldTaken DEF Kept
  <2>3. QED
    BY <2>1, <2>2 DEF LogEnter, LogSelect, Kept, TypeOK
<1>3. \A q \in Records : Stored(q)' <=> Stored(q)
  BY <1>1 DEF Stored
<1>4. Custody(r)' = Custody(r)
  BY <1>1, <1>2, <1>3, CustodyTable DEF CustodyRows
<1>5. \A q \in Records \ {r} : Custody(q)' = Custody(q)
  BY <1>1, <1>2, <1>3, CustodyKept
<1>6. QED
  BY <1>1, <1>4, <1>5, PromiseStutters DEF Fails

\* When Close has returned, no record is left that nobody but Close would write.
LEMMA NothingLeft ==
  ASSUME TypeOK, CloseOrder, workerLoop = "exited", buffer = <<>>, hand[Closer] = NoRecord,
         NEW r \in Records, hand[r] = NoRecord \/ pc[r] # "leave"
  PROVE  ~Held(r)
<1>1. ~Queued(r)
  BY DEF Queued
<1>2. ASSUME NEW t \in Threads, hand[t] = r PROVE FALSE
  <2>1. NoRecord # r /\ t # Worker /\ t # Closer
    BY <1>2, RecordSets DEF CloseOrder, WorkerGone
  <2>2. t \in Records /\ t = r
    BY <1>2, <2>1 DEF CloseOrder, OwnHand, Threads
  <2>3. QED
    BY <1>2, <2>1, <2>2 DEF CloseOrder, OwnHand
<1>3. QED
  BY <1>1, <1>2 DEF Held, InHand

\* Log returns: its record is settled, or owed by a logger that is not closed.
LEMMA PromiseReturns ==
  ASSUME Kept, NEW r \in Records, LogReturn(r)
  PROVE  [Promise!Next]_(Promise!vars)
<1>1. /\ pc[r] = "leave" /\ pc'[r] = "done" /\ hand[r] = NoRecord
      /\ \A q \in Records \ {r} : pc'[q] = pc[q]
      /\ UNCHANGED <<buffer, hand, log, openFails, writeFails, closerPc>>
  BY DEF LogReturn, Kept, TypeOK
<1>2. \A q \in Records : (Held(q)' <=> Held(q)) /\ (Stored(q)' <=> Stored(q))
  BY <1>1 DEF Held, Queued, InHand, Stored
<1>3. \A q \in Records \ {r} : Custody(q)' = Custody(q)
  BY <1>1, <1>2, CustodyKept
<1>4. CASE Stored(r) \/ ~Held(r)
  <2>1. Custody(r)' = Custody(r)
    BY <1>1, <1>2, <1>4, CustodyTable DEF CustodyRows
  <2>2. QED
    BY <1>1, <1>3, <2>1, PromiseStutters DEF Fails
<1>5. CASE ~Stored(r) /\ Held(r)
  <2>1. Custody(r) = "taken" /\ Custody(r)' = "owed"
    BY <1>1, <1>2, <1>5, CustodyTable DEF CustodyRows
  <2>2. closerPc # "closed"
    BY <1>1, <1>5, NothingLeft DEF Kept, CloseOrder, WorkerGone, ChannelDrained
  <2>3. Promise!Settle(r, "owed")
    BY <1>3, <2>1, PromiseSettles
  <2>4. Promise!Owe(r)
    BY <1>1, <2>1, <2>2, <2>3 DEF Promise!Owe
  <2>5. QED
    BY <2>4 DEF Promise!Next
<1>6. QED
  BY <1>4, <1>5

\* writeLog drops only what nothing obliges it to keep.
LEMMA PromiseDecides ==
  ASSUME Kept, NEW t \in Threads, Decide(t)
  PROVE  [Promise!Next]_(Promise!vars)
<1>1. UNCHANGED <<pc, buffer, log, openFails, writeFails, closerPc>>
  BY DEF Decide
<1>2. CASE Keep(t)
  BY <1>1, <1>2, PromiseStill DEF Keep
<1>3. CASE DropIncomplete(t) \/ Discard(t)
  <2>1. PICK r \in Records : r = hand[t]
    BY <1>3 DEF DropIncomplete, Discard, Kept, TypeOK
  <2>2. r \notin Durable
    BY <1>3, <2>1, DroppedIsNotDurable DEF Kept
  <2>3. hand' = [hand EXCEPT ![t] = NoRecord]
    BY <1>3 DEF DropIncomplete, Discard
  <2>4. Held(r) /\ ~Held(r)' /\ \A q \in Records \ {r} : Held(q)' <=> Held(q)
    BY <1>1, <2>1, <2>3, HeldDropped DEF Kept
  <2>5. \A q \in Records : Stored(q)' <=> Stored(q)
    BY <1>1 DEF Stored
  <2>6. \A q \in Records \ {r} : Custody(q)' = Custody(q)
    BY <1>1, <2>4, <2>5, CustodyKept
  <2>7. CASE Stored(r)
    <3>1. Custody(r)' = Custody(r)
      BY <2>5, <2>7, CustodyTable DEF CustodyRows
    <3>2. QED
      BY <1>1, <2>6, <3>1, PromiseStutters DEF Fails
  <2>8. CASE ~Stored(r)
    <3>1. pc[r] \in {"leave", "done"}
      BY <2>4 DEF Kept, HeldIsCalled
    <3>2. Custody(r) \in {"taken", "owed"} /\ Custody(r)' = "gone"
      BY <1>1, <2>4, <2>5, <2>8, <3>1, CustodyTable DEF CustodyRows
    <3>3. Promise!Settle(r, "gone")
      BY <2>6, <3>2, PromiseSettles
    <3>4. Promise!Omit(r)
      BY <1>1, <2>2, <3>2, <3>3 DEF Promise!Omit, Promise!Pending
    <3>5. QED
      BY <3>4 DEF Promise!Next
  <2>9. QED
    BY <2>7, <2>8
<1>4. QED
  BY <1>2, <1>3 DEF Decide

\* A thread writes its record, or loses it to an error.
LEMMA PromiseStores ==
  ASSUME Kept, NEW t \in Threads, Store(t)
  PROVE  [Promise!Next]_(Promise!vars)
<1>1. /\ UNCHANGED <<pc, buffer, closerPc>> /\ hand' = [hand EXCEPT ![t] = NoRecord]
      /\ hand[t] \in Records
  BY DEF Store, Kept, TypeOK
<1>2. PICK r \in Records : r = hand[t]
  BY <1>1
<1>3. Held(r) /\ ~Held(r)' /\ \A q \in Records \ {r} : Held(q)' <=> Held(q)
  BY <1>1, <1>2, HeldDropped DEF Kept
<1>4. AppendEntry(r)
  BY <1>2 DEF Store
<1>5. /\ \A q \in Records \ {r} : Stored(q)' <=> Stored(q)
      /\ \/ Stored(r)' /\ Fails' = Fails
         \/ (Stored(r)' <=> Stored(r)) /\ Fails' = Fails + 1
  BY <1>4, WrittenExactly DEF Kept
<1>6. \A q \in Records \ {r} : Custody(q)' = Custody(q)
  BY <1>1, <1>3, <1>5, CustodyKept
<1>7. pc[r] \in {"leave", "done"}
  BY <1>3 DEF Kept, HeldIsCalled
<1>8. Stored(r) \/ Custody(r) \in {"taken", "owed"}
  BY <1>3, <1>7, CustodyTable DEF CustodyRows
<1>9. CASE Stored(r)' /\ Fails' = Fails
  <2>1. Custody(r)' = "stored"
    BY <1>9, CustodyTable DEF CustodyRows
  <2>2. CASE Stored(r)
    <3>1. Custody(r)' = Custody(r)
      BY <2>1, <2>2, CustodyTable DEF CustodyRows
    <3>2. QED
      BY <1>1, <1>6, <1>9, <3>1, PromiseStutters
  <2>3. CASE Custody(r) \in {"taken", "owed"}
    <3>1. Promise!Settle(r, "stored")
      BY <1>6, <2>1, PromiseSettles
    <3>2. Promise!Store(r)
      BY <1>1, <1>9, <2>3, <3>1 DEF Promise!Store, Promise!Pending, Fails
    <3>3. QED
      BY <3>2 DEF Promise!Next
  <2>4. QED
    BY <1>8, <2>2, <2>3
<1>10. CASE (Stored(r)' <=> Stored(r)) /\ Fails' = Fails + 1
  <2>1. CASE Stored(r)
    <3>1. Custody(r)' = Custody(r)
      BY <1>10, <2>1, CustodyTable DEF CustodyRows
    <3>2. \A q \in Records : Custody(q)' = Custody(q)
      BY <1>6, <3>1
    <3>3. Promise!Fault
      BY <1>1, <1>10, <3>2 DEF Promise!Fault, Fails
    <3>4. QED
      BY <3>3 DEF Promise!Next
  <2>2. CASE ~Stored(r)
    <3>1. Custody(r) \in {"taken", "owed"} /\ Custody(r)' = "gone"
      BY <1>1, <1>3, <1>7, <1>8, <1>10, <2>2, CustodyTable DEF CustodyRows
    <3>2. Promise!Settle(r, "gone")
      BY <1>6, <3>1, PromiseSettles
    <3>3. Promise!Fault
      BY <1>1, <1>10, <3>1, <3>2 DEF Promise!Fault, Promise!Pending, Fails
    <3>4. QED
      BY <3>3 DEF Promise!Next
  <2>3. QED
    BY <2>1, <2>2
<1>11. QED
  BY <1>5, <1>9, <1>10

\* Close writes a session, perhaps before its call is made.
LEMMA PromiseFlushes ==
  ASSUME Kept, NEW r \in Records, CloseFlushOne(r)
  PROVE  [Promise!Next]_(Promise!vars)
<1>1. /\ UNCHANGED <<pc, buffer, hand, closerPc>> /\ r \in Chunked
  BY DEF CloseFlushOne, Kept, OnePlace, SessionsChunked
<1>2. \A q \in Records : Held(q)' <=> Held(q)
  BY <1>1 DEF Held, Queued, InHand
<1>3. CASE UNCHANGED fileVars
  BY <1>1, <1>3, PromiseStill
<1>4. CASE AppendEntry(r)
  <2>1. /\ \A q \in Records \ {r} : Stored(q)' <=> Stored(q)
        /\ \/ Stored(r)' /\ Fails' = Fails
           \/ (Stored(r)' <=> Stored(r)) /\ Fails' = Fails + 1
    BY <1>4, WrittenExactly DEF Kept
  <2>2. \A q \in Records \ {r} : Custody(q)' = Custody(q)
    BY <1>1, <1>2, <2>1, CustodyKept
  <2>3. CASE (Stored(r)' <=> Stored(r)) /\ Fails' = Fails + 1
    <3>1. Custody(r)' = Custody(r)
      BY <1>1, <1>2, <2>3, CustodyKept
    <3>2. \A q \in Records : Custody(q)' = Custody(q)
      BY <2>2, <3>1
    <3>3. Promise!Fault
      BY <1>1, <2>3, <3>2 DEF Promise!Fault, Fails
    <3>4. QED
      BY <3>3 DEF Promise!Next
  <2>4. CASE Stored(r)' /\ Fails' = Fails
    <3>1. Custody(r)' = "stored"
      BY <2>4, CustodyTable DEF CustodyRows
    <3>2. CASE Stored(r)
      <4>1. Custody(r)' = Custody(r)
        BY <3>1, <3>2, CustodyTable DEF CustodyRows
      <4>2. QED
        BY <1>1, <2>2, <2>4, <4>1, PromiseStutters
    <3>3. CASE ~Stored(r)
      <4>1. Custody(r) \in {"new", "refused", "taken", "owed", "gone"}
        BY <3>3 DEF Custody, Unstored
      <4>2. Promise!Settle(r, "stored")
        BY <2>2, <3>1, PromiseSettles
      <4>3. Promise!Store(r)
        BY <1>1, <2>4, <4>1, <4>2 DEF Promise!Store, Promise!Pending, Fails
      <4>4. QED
        BY <4>3 DEF Promise!Next
    <3>4. QED
      BY <3>2, <3>3
  <2>5. QED
    BY <2>1, <2>3, <2>4
<1>5. QED
  BY <1>3, <1>4 DEF CloseFlushOne

\* Taking a record out of the channel leaves it in custody.
LEMMA PromiseReceives ==
  ASSUME Kept, WorkerReceive \/ CloseReceive
  PROVE  UNCHANGED Promise!vars
<1>1. UNCHANGED <<pc, log, openFails, writeFails, closerPc>>
  BY DEF WorkerReceive, CloseReceive
<1>2. \A r \in Records : Held(r)' <=> Held(r)
  BY HeldReceived DEF Kept, WorkerReceive, CloseReceive, WorkerFree, Threads
<1>3. \A r \in Records : Custody(r)' = Custody(r)
  BY <1>1, <1>2, CustodyKept DEF Stored
<1>4. QED
  BY <1>1, <1>3, PromiseStutters DEF Fails

\* Close returns owing nothing.
LEMMA PromiseCloses ==
  ASSUME Kept, CloseReturn
  PROVE  Promise!Next
<1>1. /\ UNCHANGED <<pc, buffer, hand, log, openFails, writeFails>> /\ closerPc' = "closed"
      /\ workerLoop = "exited" /\ buffer = <<>> /\ hand[Closer] = NoRecord
  BY DEF CloseReturn, Kept, CloseOrder, WorkerGone
<1>2. \A r \in Records : Custody(r)' = Custody(r)
  BY <1>1, CustodyKept DEF Held, Queued, InHand, Stored
<1>3. ASSUME NEW r \in Records PROVE Custody(r) # "owed"
  <2>1. pc[r] = "done" => ~Held(r)
    BY <1>1, NothingLeft DEF Kept
  <2>2. QED
    BY <2>1 DEF Custody, Unstored
<1>4. Promise!Close
  BY <1>1, <1>2, <1>3 DEF Promise!Close
<1>5. QED
  BY <1>4 DEF Promise!Next

\* With the process goes what is not stored.
LEMMA PromiseDies ==
  ASSUME Kept, Restart
  PROVE  Promise!Next
<1>1. /\ UNCHANGED <<log, openFails, writeFails>> /\ closerPc' = "open"
      /\ \A r \in Records : pc'[r] = IF pc[r] \in {"idle", "gated"} THEN pc[r] ELSE "lost"
  BY DEF Restart, Kept, TypeOK
<1>2. \A r \in Records : Stored(r)' <=> Stored(r)
  BY <1>1 DEF Stored
<1>3. ASSUME NEW r \in Records
      PROVE  Custody(r)' = IF Custody(r) \in {"taken", "owed"} THEN "gone" ELSE Custody(r)
  <2>1. CASE Stored(r)
    BY <1>2, <2>1, CustodyTable DEF CustodyRows
  <2>2. CASE ~Stored(r) /\ pc[r] \in {"idle", "gated"}
    BY <1>1, <1>2, <2>2, CustodyTable DEF CustodyRows
  <2>3. CASE ~Stored(r) /\ pc[r] \notin {"idle", "gated"}
    <3>1. Custody(r) \in {"taken", "owed", "gone"}
      BY <2>3 DEF Custody, Unstored
    <3>2. Custody(r)' = "gone"
      BY <1>1, <1>2, <2>3, CustodyTable DEF CustodyRows
    <3>3. QED
      BY <3>1, <3>2
  <2>4. QED
    BY <2>1, <2>2, <2>3
<1>4. Promise!Die
  BY <1>1, <1>3 DEF Promise!Die, Promise!Pending
<1>5. QED
  BY <1>4 DEF Promise!Next

LEMMA PromiseInit == Init => Promise!Init
<1> SUFFICES ASSUME Init PROVE Promise!Init
  OBVIOUS
<1>1. \A r \in Records : pc[r] = "idle" /\ ~Stored(r)
  BY DEF Init, Stored
<1>2. \A r \in Records : Custody(r) = "new"
  BY <1>1, CustodyTable DEF CustodyRows
<1>3. QED
  BY <1>2 DEF Init, Promise!Init

LEMMA PromiseNext == Kept /\ [Next]_vars => [Promise!Next]_(Promise!vars)
<1> SUFFICES ASSUME Kept, [Next]_vars PROVE [Promise!Next]_(Promise!vars)
  OBVIOUS
<1>1. CASE UNCHANGED vars
  BY <1>1, PromiseStill DEF vars
<1>2. ASSUME NEW r \in Records, Call(r) PROVE [Promise!Next]_(Promise!vars)
  BY <1>2, PromiseGate, PromiseTakes, PromiseReturns DEF Call
<1>3. ASSUME NEW r \in Records, LogStreamChunk(r) \/ CleanupExpired(r)
      PROVE  [Promise!Next]_(Promise!vars)
  BY <1>3, PromiseStill DEF LogStreamChunk, CleanupExpired
<1>4. ASSUME NEW t \in Threads, WriteLog(t) PROVE [Promise!Next]_(Promise!vars)
  BY <1>4, PromiseDecides, PromiseStores DEF WriteLog
<1>5. CASE WorkerReceive \/ CloseReceive
  BY <1>5, PromiseReceives
<1>6. CASE WorkerStop \/ WorkerExit \/ MonitorTick \/ MonitorExit
  BY <1>6, PromiseStill DEF WorkerStop, WorkerExit, MonitorTick, MonitorExit
<1>7. CASE CloseBegin \/ FlushAll \/ CloseStop \/ CloseJoin \/ CloseSettle
  BY <1>7, PromiseStill DEF CloseBegin, FlushAll, CloseStop, CloseJoin, CloseSettle
<1>8. CASE CloseReturn
  BY <1>8, PromiseCloses
<1>9. ASSUME NEW r \in Records, CloseFlushOne(r) PROVE [Promise!Next]_(Promise!vars)
  BY <1>9, PromiseFlushes
<1>10. CASE UpdateConfig \/ Midnight
  BY <1>10, PromiseStill DEF UpdateConfig, Midnight
<1>11. CASE Restart
  BY <1>11, PromiseDies
<1>12. QED
  BY <1>1, <1>2, <1>3, <1>4, <1>5, <1>6, <1>7, <1>8, <1>9, <1>10, <1>11
     DEF Next, WorkerStep, CloserStep

\* The logger keeps its promise, step by step and for every record.
THEOREM PromiseKept == Spec => PromiseSpec
<1>1. TypeOK /\ OnePlace /\ CloseOrder /\ HeldIsCalled <=> Kept
  BY DEF Kept
<1>2. QED
  BY <1>1, PromiseInit, PromiseNext, TypeCorrect, PlaceInit, PlaceNext, OrderInit, OrderNext,
     HeldInit, HeldNext, PTL
     DEF Spec, PromiseSpec, Promise!Spec

-----------------------------------------------------------------------------
(* What follows from the promise alone.                                    *)

NothingOwed == closerPc = "closed" => \A r \in Records : Custody(r) # "owed"

\* What may become of a record: what is stored stays, what is gone comes back
\* only with a session, and what the logger owes and must keep is stored, or
\* taken by an error that takes nothing else, or by the death of the process.
Fate(r) ==
  /\ Custody(r) = "stored" => Custody(r)' = "stored"
  /\ Custody(r) = "gone" => Custody(r)' = "gone" \/ (r \in Chunked /\ Custody(r)' = "stored")
  /\ r \in Durable /\ Custody(r) = "owed" =>
       \/ Custody(r)' \in {"owed", "stored"}
       \/ Fails' = Fails + 1 /\ \A q \in Records \ {r} : Custody(q)' = Custody(q)
       \/ \A q \in Records : Custody(q)' \notin {"taken", "owed"}
Fated == \A r \in Records : Fate(r)

LEMMA SettleMoves ==
  ASSUME NEW r \in Records, NEW s, Promise!Settle(r, s)
  PROVE  Custody(r)' = s /\ \A q \in Records \ {r} : Custody(q)' = Custody(q)
BY DEF Promise!Settle

LEMMA SameFate ==
  ASSUME NEW r \in Records, Custody(r)' = Custody(r)
  PROVE  Fate(r)
BY DEF Fate

\* What a record may become in a step of the promise that takes nothing away.
LEMMA SettleFate ==
  ASSUME NEW r \in Records, NEW s, Promise!Settle(r, s), NEW q \in Records,
         \/ s = "stored" /\ (Custody(r) = "gone" => r \in Chunked)
         \/ Custody(r) \notin {"stored", "gone"} /\ (r \in Durable => Custody(r) # "owed")
         \/ Custody(r) \notin {"stored", "gone"} /\ Fails' = Fails + 1
  PROVE  Fate(q)
<1>1. Custody(r)' = s /\ \A p \in Records \ {r} : Custody(p)' = Custody(p)
  BY SettleMoves
<1>2. CASE q = r
  BY <1>1, <1>2 DEF Fate
<1>3. CASE q # r
  BY <1>1, <1>3, SameFate
<1>4. QED
  BY <1>2, <1>3

\* Whoever keeps AuditPromise owes no finished call anything once it is closed,
\* and its records have no other fate than these: the promise is as strong as
\* it reads.
THEOREM PromiseMeans == PromiseSpec => []NothingOwed /\ [][Fated]_(Promise!vars)
<1>1. Promise!Init => NothingOwed
  BY DEF Promise!Init, NothingOwed
<1>2. NothingOwed /\ [Promise!Next]_(Promise!vars) => NothingOwed'
  <2> SUFFICES ASSUME NothingOwed, [Promise!Next]_(Promise!vars), closerPc' = "closed",
                      NEW q \in Records
               PROVE  Custody(q)' # "owed"
    BY DEF NothingOwed
  <2>1. ASSUME NEW r \in Records, NEW s, Promise!Settle(r, s), s # "owed", closerPc = "closed"
        PROVE  Custody(q)' # "owed"
    BY <2>1, SettleMoves DEF NothingOwed
  <2>2. ASSUME NEW r \in Records,
               Promise!Refuse(r) \/ Promise!Accept(r) \/ Promise!Store(r) \/ Promise!Omit(r)
        PROVE  Custody(q)' # "owed"
    BY <2>1, <2>2 DEF Promise!Refuse, Promise!Accept, Promise!Store, Promise!Omit
  <2>3. ASSUME NEW r \in Records, Promise!Owe(r) PROVE Custody(q)' # "owed"
    BY <2>3 DEF Promise!Owe
  <2>4. CASE Promise!Fault
    <3>1. closerPc = "closed"
      BY <2>4 DEF Promise!Fault
    <3>2. CASE UNCHANGED [r \in Records |-> Custody(r)]
      BY <3>1, <3>2 DEF NothingOwed
    <3>3. QED
      BY <2>1, <2>4, <3>1, <3>2 DEF Promise!Fault
  <2>5. CASE Promise!Close
    BY <2>5 DEF Promise!Close
  <2>6. CASE Promise!Die
    BY <2>6 DEF Promise!Die
  <2>7. CASE UNCHANGED Promise!vars
    BY <2>7 DEF Promise!vars, NothingOwed
  <2>8. QED
    BY <2>2, <2>3, <2>4, <2>5, <2>6, <2>7 DEF Promise!Next
<1>3. ASSUME Promise!Next PROVE Fated
  <2> SUFFICES ASSUME NEW q \in Records PROVE Fate(q)
    BY DEF Fated
  <2>1. ASSUME NEW r \in Records, Promise!Refuse(r) \/ Promise!Accept(r) \/ Promise!Owe(r)
        PROVE  Fate(q)
    <3>1. Custody(r) \in {"new", "taken"}
      BY <2>1 DEF Promise!Refuse, Promise!Accept, Promise!Owe
    <3>2. QED
      BY <2>1, <3>1, SettleFate DEF Promise!Refuse, Promise!Accept, Promise!Owe
  <2>2. ASSUME NEW r \in Records, Promise!Store(r) PROVE Fate(q)
    <3>1. Promise!Settle(r, "stored") /\ (Custody(r) = "gone" => r \in Chunked)
      BY <2>2 DEF Promise!Store, Promise!Pending
    <3>2. QED
      BY <3>1, SettleFate
  <2>3. ASSUME NEW r \in Records, Promise!Omit(r) PROVE Fate(q)
    <3>1. Promise!Settle(r, "gone") /\ r \notin Durable /\ Custody(r) \in {"taken", "owed"}
      BY <2>3 DEF Promise!Omit, Promise!Pending
    <3>2. QED
      BY <3>1, SettleFate
  <2>4. CASE Promise!Fault
    <3>1. Fails' = Fails + 1
      BY <2>4 DEF Promise!Fault, Fails
    <3>2. CASE UNCHANGED [r \in Records |-> Custody(r)]
      BY <3>2, SameFate
    <3>3. ASSUME NEW r \in Records, Promise!Pending(r), Promise!Settle(r, "gone")
          PROVE  Fate(q)
      <4>1. Custody(r) \in {"taken", "owed"}
        BY <3>3 DEF Promise!Pending
      <4>2. QED
        BY <3>1, <3>3, <4>1, SettleFate
    <3>4. QED
      BY <2>4, <3>2, <3>3 DEF Promise!Fault
  <2>5. CASE Promise!Close
    BY <2>5, SameFate DEF Promise!Close
  <2>6. CASE Promise!Die
    <3>1. \A r \in Records :
            Custody(r)' = IF Custody(r) \in {"taken", "owed"} THEN "gone" ELSE Custody(r)
      BY <2>6 DEF Promise!Die, Promise!Pending
    <3>2. \A r \in Records : Custody(r)' \notin {"taken", "owed"}
      BY <3>1
    <3>3. Custody(q) \in {"stored", "gone"} => Custody(q)' = Custody(q)
      BY <3>1
    <3>4. QED
      BY <3>2, <3>3 DEF Fate
  <2>7. QED
    BY <1>3, <2>1, <2>2, <2>3, <2>4, <2>5, <2>6 DEF Promise!Next
<1>4. QED
  BY <1>1, <1>2, <1>3, PTL DEF PromiseSpec, Promise!Spec

-----------------------------------------------------------------------------
(* What is written stays as it is.                                         *)

Untouched == Len(log) <= Len(log') /\ \A i \in 1..Len(log) : log'[i] = log[i]

\* The audit trail is append-only: no step of a caller, the worker, Close, the
\* monitor or a new start of the process alters, moves or removes an entry
\* (writeToFile and writeSessionLog open with O_APPEND).
THEOREM AppendOnly == Spec => [][Untouched]_vars
<1> USE DEF Untouched
<1>1. ASSUME TypeOK, [Next]_vars PROVE Untouched
  <2>1. Len(log) \in Nat
    BY <1>1, LenProperties DEF TypeOK
  <2>2. ASSUME UNCHANGED log PROVE Untouched
    BY <2>1, <2>2
  <2>3. ASSUME NEW r \in Records, AppendEntry(r) PROVE Untouched
    <3>1. log' = log \/ (Len(log') = Len(log) + 1 /\ \A i \in 1..Len(log) : log'[i] = log[i])
      BY <1>1, <2>3, WrittenLog
    <3>2. QED
      BY <2>1, <3>1
  <2>4. CASE UNCHANGED vars
    BY <2>2, <2>4 DEF vars
  <2>5. ASSUME NEW r \in Records, Call(r) \/ LogStreamChunk(r) \/ CleanupExpired(r)
        PROVE  Untouched
    BY <2>2, <2>5
    DEF Call, LogGate, LogEnter, LogSelect, LogReturn, LogStreamChunk, CleanupExpired
  <2>6. ASSUME NEW t \in Threads, WriteLog(t) PROVE Untouched
    <3>1. CASE Decide(t)
      BY <2>2, <3>1 DEF Decide
    <3>2. CASE Store(t)
      <4>1. hand[t] \in Records /\ AppendEntry(hand[t])
        BY <1>1, <3>2 DEF Store, TypeOK
      <4>2. QED
        BY <2>3, <4>1
    <3>3. QED
      BY <2>6, <3>1, <3>2 DEF WriteLog
  <2>7. CASE WorkerStep \/ MonitorTick \/ MonitorExit
    BY <2>2, <2>7 DEF WorkerStep, WorkerReceive, WorkerStop, WorkerExit, MonitorTick, MonitorExit
  <2>8. CASE CloseBegin \/ FlushAll \/ CloseStop \/ CloseJoin \/ CloseSettle \/ CloseReceive
               \/ CloseReturn
    BY <2>2, <2>8
    DEF CloseBegin, FlushAll, CloseStop, CloseJoin, CloseSettle, CloseReceive, CloseReturn
  <2>9. ASSUME NEW r \in Records, CloseFlushOne(r) PROVE Untouched
    BY <2>2, <2>3, <2>9 DEF CloseFlushOne
  <2>10. CASE UpdateConfig \/ Midnight \/ Restart
    BY <2>2, <2>10 DEF UpdateConfig, Midnight, Restart
  <2>11. QED
    BY <1>1, <2>4, <2>5, <2>6, <2>7, <2>8, <2>9, <2>10 DEF Next, CloserStep
<1>2. QED
  BY <1>1, TypeCorrect, PTL DEF Spec

-----------------------------------------------------------------------------
(* Close waits for nobody who waits.                                       *)

\* A thread with a record can go on: it writes it, or one of the three ends of
\* writeLog applies.
WriterGoesOn(t) ==
  hand[t] # NoRecord =>
    \/ kept[t]
    \/ hand[t] \in Streams \cap Incomplete
    \/ hand[t] \in Streams \/ cfg.storage = "file"
    \/ hand[t] \notin Streams /\ cfg.storage = "kafka"

\* The worker with its hand free has a case of its select that is ready.
WorkerGoesOn ==
  workerLoop # "exited" /\ WorkerFree =>
    buffer # <<>> \/ workerLoop = "drain" \/ (workerLoop = "main" /\ stopped)

\* Whoever one of Close's two waits is waiting for can take its next step.
WaitsEnd ==
  /\ \A t \in Threads : WriterGoesOn(t)
  /\ closerPc = "join" => WorkerGoesOn /\ (monitor = "running" => stopped)
  /\ closerPc = "settle" => \A r \in pending : pc[r] \in {"select", "leave"}

\* A call that has announced itself is on its way out, and from the first wait
\* on everybody has been told to stop.
PendingRuns == \A r \in pending : pc[r] \in {"select", "leave"}
StopIsOut == closerPc \in {"join", "settle", "drain", "closed"} => stopped
Progress == PendingRuns /\ StopIsOut

LEMMA ProgressInit == Init => Progress
BY DEF Init, Progress, PendingRuns, StopIsOut

LEMMA ProgressNext == TypeOK /\ Progress /\ [Next]_vars => Progress'
<1> SUFFICES ASSUME TypeOK, Progress, [Next]_vars PROVE Progress'
  OBVIOUS
<1> USE DEF Progress, PendingRuns, StopIsOut
<1>0. pc \in [Records -> CallPc] /\ pending \subseteq Records
  BY DEF TypeOK
<1>1. CASE UNCHANGED vars
  BY <1>1 DEF vars
<1>2. ASSUME NEW r \in Records, Call(r) PROVE Progress'
  BY <1>0, <1>2 DEF Call, LogGate, LogEnter, LogSelect, LogReturn
<1>3. ASSUME NEW r \in Records, LogStreamChunk(r) \/ CleanupExpired(r) PROVE Progress'
  BY <1>3 DEF LogStreamChunk, CleanupExpired
<1>4. ASSUME NEW t \in Threads, WriteLog(t) PROVE Progress'
  BY <1>4 DEF WriteLog, Decide, Store
<1>5. CASE WorkerStep \/ MonitorTick \/ MonitorExit
  BY <1>5 DEF WorkerStep, WorkerReceive, WorkerStop, WorkerExit, MonitorTick, MonitorExit
<1>6. CASE CloseBegin \/ CloserStep
  BY <1>6 DEF CloseBegin, CloserStep, FlushAll, CloseStop, CloseJoin, CloseSettle, CloseReceive,
              CloseReturn, CloseFlushOne
<1>7. CASE UpdateConfig \/ Midnight
  BY <1>7 DEF UpdateConfig, Midnight
<1>8. CASE Restart
  BY <1>8 DEF Restart
<1>9. QED
  BY <1>1, <1>2, <1>3, <1>4, <1>5, <1>6, <1>7, <1>8 DEF Next

\* Close never waits for a thread that is itself waiting: neither the worker, nor
\* the monitor, nor a caller that has announced itself is ever stuck, for any
\* number of callers and any size of the channel.
THEOREM CloseIsNeverStuck == Spec => []WaitsEnd
<1>1. ASSUME TypeOK, Progress PROVE WaitsEnd
  <2>1. ASSUME NEW t \in Threads PROVE WriterGoesOn(t)
    <3>1. cfg.storage \in {"file", "kafka"}
      BY <1>1, ConfigShape DEF TypeOK
    <3>2. QED
      BY <3>1 DEF WriterGoesOn
  <2>2. closerPc = "join" => stopped
    BY <1>1 DEF Progress, StopIsOut
  <2>3. workerLoop \in {"main", "drain", "exited"}
    BY <1>1 DEF TypeOK
  <2>4. QED
    BY <1>1, <2>1, <2>2, <2>3 DEF WaitsEnd, WorkerGoesOn, Progress, PendingRuns
<1>2. QED
  BY <1>1, TypeCorrect, ProgressInit, ProgressNext, PTL DEF Spec

=============================================================================
