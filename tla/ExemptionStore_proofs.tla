----------------------- MODULE ExemptionStore_proofs ------------------------
(***************************************************************************)
(* Proofs about ExemptionStore, for every set of items, any number of      *)
(* administrators, changes by hand, failures and restarts.                 *)
(***************************************************************************)
EXTENDS ExemptionStore, SequenceTheorems, TLAPS

USE DEF timerVars, handVars, watchVars, memVars, adminVars, boundVars, WatchRest

AdminPc == {"idle", "persist", "open", "write", "orphan", "apply"}
AtWork  == {"open", "write", "orphan", "apply"}

\* The parts of the type invariant, by who changes them.
FileType ==
  /\ file \in Contents \cup {Blank, Absent, Garbled}
  /\ watching \in BOOLEAN /\ events \in Seq({"write", "gone"})
WatcherType ==
  /\ recent \in BOOLEAN /\ reAdd \in BOOLEAN /\ saving \in BOOLEAN /\ raced \in BOOLEAN
  /\ loop \in {"idle", "called", "apply"}
  /\ got \in Contents \cup {NoItems} /\ (loop = "apply" => got \in Contents)
MemoryType == memory \in Contents /\ wanted \in Contents /\ sourced \in BOOLEAN
AdminType ==
  /\ pc \in [Admins -> AdminPc] /\ hand \in [Admins -> Contents \cup {NoItems}]
  /\ \A a \in Admins : pc[a] \in AtWork => hand[a] \in Contents
CountType ==
  edits \in 0..MaxEdits /\ calls \in 0..MaxCalls /\ fails \in 0..MaxFails /\ boots \in 0..MaxBoots

LEMMA TypeParts ==
  TypeOK <=> FileType /\ WatcherType /\ MemoryType /\ AdminType /\ CountType
BY DEF TypeOK, WatchTypeOK, FileType, WatcherType, MemoryType, AdminType, CountType, AdminPc, AtWork

LEMMA TypePartsNext ==
  ASSUME FileType', WatcherType', MemoryType', AdminType', CountType'
  PROVE  TypeOK'
BY DEF TypeOK, WatchTypeOK, FileType, WatcherType, MemoryType, AdminType, CountType, AdminPc, AtWork

\* A change of the file, whoever makes it.
LEMMA FileChanged ==
  ASSUME FileType, NEW e \in {"write", "gone"}, Notify(e) \/ UNCHANGED events,
         watching' \in BOOLEAN, file' \in Contents \cup {Blank, Absent, Garbled}
  PROVE  FileType'
BY AppendProperties DEF FileType, Notify

\* Adding and removing an item give a set of items.
LEMMA ItemSets ==
  ASSUME NEW m \in Contents, NEW i \in Items
  PROVE  m \cup {i} \in Contents /\ m \ {i} \in Contents
BY StoreShape

\* What a load finds.
LEMMA ParsesTyped ==
  ASSUME NEW f \in Contents \cup {Blank, Absent, Garbled}
  PROVE  Parses(f) \subseteq Contents
BY StoreShape, FileStates DEF Parses

LEMMA AdminMoves ==
  ASSUME AdminType, NEW a \in Admins, NEW p \in AdminPc, NEW h \in Contents \cup {NoItems},
         p \in AtWork => h \in Contents,
         pc' = [pc EXCEPT ![a] = p], hand' = [hand EXCEPT ![a] = h]
  PROVE  AdminType'
BY DEF AdminType

\* The steps of an administrator's request.
LEMMA AdminTyped ==
  ASSUME TypeOK, NEW a \in Admins,
         \/ AddKeyword(a) \/ RemoveKeyword(a) \/ ReloadRead(a)
         \/ Persist(a) \/ PersistFail(a) \/ ReloadApply(a)
  PROVE  TypeOK'
<1>1. FileType /\ WatcherType /\ MemoryType /\ AdminType /\ CountType
  BY TypeParts
<1>2. /\ pc \in [Admins -> AdminPc] /\ hand \in [Admins -> Contents \cup {NoItems}]
      /\ hand[a] \in Contents \cup {NoItems}
      /\ {"idle", "persist", "open", "write", "apply"} \subseteq AdminPc
      /\ "idle" \notin AtWork /\ "persist" \notin AtWork
  BY <1>1 DEF AdminType, AdminPc, AtWork
<1>3. /\ calls \in Nat /\ fails \in Nat /\ (calls < MaxCalls => calls + 1 \in 0..MaxCalls)
      /\ (fails < MaxFails => fails + 1 \in 0..MaxFails)
  BY <1>1, StoreBounds DEF CountType
<1>4. Raced(a) \in BOOLEAN /\ raced \in BOOLEAN /\ file \in Contents \cup {Blank, Absent, Garbled}
  BY <1>1 DEF Raced, WatcherType, FileType
<1>5. ASSUME NEW new \in Contents, Change(a, new), wanted' \in Contents PROVE TypeOK'
  <2>1. AdminType'
    BY <1>1, <1>2, <1>5 DEF Change, AdminType
  <2>2. FileType' /\ WatcherType' /\ MemoryType' /\ CountType'
    BY <1>1, <1>3, <1>4, <1>5 DEF Change, FileType, WatcherType, MemoryType, CountType
  <2>3. QED
    BY <2>1, <2>2, TypePartsNext
<1>6. CASE AddKeyword(a) \/ RemoveKeyword(a)
  <2>1. \A i \in Items : /\ memory \cup {i} \in Contents /\ memory \ {i} \in Contents
                         /\ wanted \cup {i} \in Contents /\ wanted \ {i} \in Contents
    BY <1>1, ItemSets DEF MemoryType
  <2>2. ASSUME NEW i \in Items, Change(a, memory \cup {i}), wanted' = wanted \cup {i} PROVE TypeOK'
    BY <1>5, <2>1, <2>2
  <2>3. ASSUME NEW i \in Items, Change(a, memory \ {i}), wanted' = wanted \ {i} PROVE TypeOK'
    BY <1>5, <2>1, <2>3
  <2>4. QED
    BY <1>6, <2>2, <2>3 DEF AddKeyword, RemoveKeyword
<1>7. CASE ReloadRead(a)
  <2>1. raced' \in BOOLEAN
    BY <1>4, <1>7 DEF ReloadRead
  <2>2. FileType' /\ WatcherType' /\ MemoryType' /\ CountType'
    BY <1>1, <1>3, <1>7, <2>1 DEF ReloadRead, FileType, WatcherType, MemoryType, CountType
  <2>3. AdminType'
    <3>1. ASSUME NEW c \in Parses(file), pc' = [pc EXCEPT ![a] = "apply"], hand' = [hand EXCEPT ![a] = c]
          PROVE  AdminType'
      <4>1. c \in Contents
        BY <1>4, ParsesTyped
      <4>2. QED
        BY <1>1, <1>2, <3>1, <4>1, AdminMoves
    <3>2. ASSUME UNCHANGED adminVars PROVE AdminType'
      BY <1>1, <3>2 DEF AdminType
    <3>3. QED
      BY <1>7, <3>1, <3>2 DEF ReloadRead
  <2>4. QED
    BY <2>2, <2>3, TypePartsNext
<1>8. CASE Snapshot(a)
  <2>1. FileType' /\ WatcherType' /\ MemoryType' /\ CountType'
    BY <1>1, <1>8 DEF Snapshot, FileType, WatcherType, MemoryType, CountType
  <2>2. AdminType'
    BY <1>1, <1>2, <1>8 DEF Snapshot, AdminType, MemoryType
  <2>3. QED
    BY <2>1, <2>2, TypePartsNext
<1>9. CASE PersistOpen(a)
  <2>1. FileType'
    BY <1>1, <1>9, FileChanged DEF PersistOpen, Truncate, FileType
  <2>2. WatcherType' /\ MemoryType' /\ CountType'
    BY <1>1, <1>9 DEF PersistOpen, WatcherType, MemoryType, CountType
  <2>3. AdminType'
    BY <1>1, <1>2, <1>9 DEF PersistOpen, AdminType, AtWork
  <2>4. QED
    BY <2>1, <2>2, <2>3, TypePartsNext
<1>10. CASE PersistWrite(a)
  <2>1. hand[a] \in Contents
    BY <1>1, <1>10 DEF PersistWrite, AdminType, AtWork
  <2>2. FileType'
    BY <1>1, <1>10, <2>1, FileChanged DEF PersistWrite, WriteTo, Overwritten, FileType
  <2>3. WatcherType' /\ MemoryType' /\ CountType'
    BY <1>1, <1>10 DEF PersistWrite, WatcherType, MemoryType, CountType
  <2>4. AdminType'
    BY <1>1, <1>2, <1>10 DEF PersistWrite, AdminType
  <2>5. QED
    BY <2>2, <2>3, <2>4, TypePartsNext
<1>11. CASE PersistWriteLost(a)
  <2>1. FileType' /\ WatcherType' /\ MemoryType' /\ CountType'
    BY <1>1, <1>11 DEF PersistWriteLost, FileType, WatcherType, MemoryType, CountType
  <2>2. AdminType'
    BY <1>1, <1>2, <1>11 DEF PersistWriteLost, AdminType
  <2>3. QED
    BY <2>1, <2>2, TypePartsNext
<1>12. CASE PersistFail(a)
  <2>1. FileType'
    BY <1>1, <1>12, FileChanged DEF PersistFail, WriteTo, FileType
  <2>2. WatcherType' /\ MemoryType' /\ CountType'
    BY <1>1, <1>3, <1>12 DEF PersistFail, WatcherType, MemoryType, CountType
  <2>3. AdminType'
    BY <1>1, <1>2, <1>12 DEF PersistFail, AdminType
  <2>4. QED
    BY <2>1, <2>2, <2>3, TypePartsNext
<1>13. CASE ReloadApply(a)
  <2>1. hand[a] \in Contents
    BY <1>1, <1>13 DEF ReloadApply, AdminType, AtWork
  <2>2. FileType' /\ WatcherType' /\ MemoryType' /\ CountType'
    BY <1>1, <1>13, <2>1 DEF ReloadApply, FileType, WatcherType, MemoryType, CountType
  <2>3. AdminType'
    BY <1>1, <1>2, <1>13 DEF ReloadApply, AdminType
  <2>4. QED
    BY <2>2, <2>3, TypePartsNext
<1>14. QED
  BY <1>6, <1>7, <1>8, <1>9, <1>10, <1>11, <1>12, <1>13 DEF Persist

\* The callback and the rest of the watcher.
LEMMA CallbackTyped ==
  ASSUME TypeOK, Callback
  PROVE  TypeOK'
<1>1. FileType /\ WatcherType /\ MemoryType /\ AdminType /\ CountType
  BY TypeParts
<1>2. Busy \in BOOLEAN /\ Parses(file) \subseteq Contents
  BY <1>1, ParsesTyped DEF Busy, FileType
<1>3. FileType' /\ AdminType' /\ CountType'
  BY <1>1 DEF Callback, CallbackRead, CallbackApply, FileType, AdminType, CountType
<1>4. CASE CallbackRead
  BY <1>1, <1>2, <1>3, <1>4, TypePartsNext DEF CallbackRead, WatcherType, MemoryType
<1>5. CASE CallbackApply
  BY <1>1, <1>3, <1>5, TypePartsNext DEF CallbackApply, WatcherType, MemoryType
<1>6. QED
  BY <1>4, <1>5 DEF Callback

LEMMA WatcherTyped ==
  ASSUME TypeOK, Watcher
  PROVE  TypeOK'
<1>1. FileType /\ WatcherType /\ MemoryType /\ AdminType /\ CountType
  BY TypeParts
<1>2. MemoryType' /\ AdminType'
  BY <1>1 DEF Watcher, MemoryType, AdminType
<1>3. CASE Coalesce \/ Accept
  <2>1. Tail(events) \in Seq({"write", "gone"})
    BY <1>1, <1>3, HeadTailProperties DEF Coalesce, Accept, FileType
  <2>2. FileType' /\ CountType'
    BY <1>1, <1>3, <2>1 DEF Watcher, Coalesce, Accept, FileType, CountType
  <2>3. WatcherType'
    BY <1>1, <1>3 DEF Watcher, Coalesce, Accept, WatcherType
  <2>4. QED
    BY <1>2, <2>2, <2>3, TypePartsNext
<1>4. CASE SecondPasses \/ ReAdd
  <2>1. FileType' /\ WatcherType' /\ CountType'
    BY <1>1, <1>4 DEF Watcher, SecondPasses, ReAdd, FileType, WatcherType, CountType
  <2>2. QED
    BY <1>2, <2>1, TypePartsNext
<1>5. QED
  BY <1>3, <1>4 DEF Watcher, WatchStep, WatchLoop

\* Changes by hand.
LEMMA EditTyped ==
  ASSUME TypeOK, EditInPlace \/ EditAnew
  PROVE  TypeOK'
<1> USE DEF HandInPlace, HandAnew, HandTruncate, HandWrite, HandReplace, HandDelete
<1>1. FileType /\ WatcherType /\ MemoryType /\ AdminType /\ CountType
  BY TypeParts
<1>2. FileType'
  BY <1>1, FileChanged DEF EditInPlace, EditAnew, Truncate, WriteTo, FileType
<1>3. TooSoon(Busy) \in BOOLEAN
  BY <1>1 DEF TooSoon, WatcherType, Busy
<1>4. WatcherType'
  BY <1>1, <1>3 DEF EditInPlace, EditAnew, ByHand, WatcherType
<1>5. MemoryType'
  BY <1>1 DEF EditInPlace, EditAnew, MemoryType
<1>6. AdminType'
  BY <1>1 DEF EditInPlace, EditAnew, AdminType, AdminPc, AtWork
<1>7. CountType'
  <2>1. edits' = edits \/ (edits < MaxEdits /\ edits' = edits + 1)
    BY DEF EditInPlace, EditAnew, ByHand
  <2>2. edits' \in 0..MaxEdits
    BY <1>1, <2>1, EditBound DEF CountType
  <2>3. QED
    BY <1>1, <2>2 DEF EditInPlace, EditAnew, CountType
<1>8. QED
  BY <1>2, <1>4, <1>5, <1>6, <1>7, TypePartsNext

\* What main loads.
LEMMA StartTyped ==
  ASSUME NEW f \in Contents \cup {Blank, Absent, Garbled}, NEW m \in LoadAtStart(f)
  PROVE  m[1] \in Contents /\ m[2] \in BOOLEAN
<1>1. Parses(f) \subseteq Contents
  BY ParsesTyped
<1>2. {} \in Contents
  BY StoreShape
<1>3. CASE m \in Parses(f) \X {TRUE}
  BY <1>1, <1>3
<1>4. CASE m = <<{}, FALSE>>
  BY <1>2, <1>4
<1>5. QED
  BY <1>3, <1>4 DEF LoadAtStart

LEMMA RestartTyped ==
  ASSUME TypeOK, Restart
  PROVE  TypeOK'
<1>1. FileType /\ WatcherType /\ MemoryType /\ AdminType /\ CountType
  BY TypeParts
<1>2. Busy \in BOOLEAN /\ file \in Contents \cup {Blank, Absent, Garbled}
  BY <1>1 DEF Busy, FileType
<1>3. MemoryType'
  BY <1>1, <1>2, StartTyped DEF Restart, MemoryType
<1>4. AdminType'
  BY DEF Restart, NotYet, Nothing, AdminType, AdminPc, AtWork
<1>5. FileType'
  <2>1. watching' \in BOOLEAN
    BY Zenon DEF Restart
  <2>2. QED
    BY <1>2, <2>1 DEF Restart, FileType
<1>6. WatcherType'
  BY <1>1, <1>2 DEF Restart, WatcherType
<1>7. CountType'
  BY <1>1, StoreBounds DEF Restart, CountType
<1>8. QED
  BY <1>3, <1>4, <1>5, <1>6, <1>7, TypePartsNext

LEMMA TypeInit == Init => TypeOK
<1> SUFFICES ASSUME Init PROVE TypeOK
  OBVIOUS
<1>1. MemoryType
  BY StartTyped DEF Init, MemoryType
<1>2. FileType /\ WatcherType
  <2>1. watching \in BOOLEAN /\ raced \in BOOLEAN
    BY Zenon DEF Init, WatchInit
  <2>2. FileType
    BY <2>1 DEF Init, WatchInit, FileType
  <2>3. WatcherType
    BY <2>1 DEF Init, WatchInit, WatcherType
  <2>4. QED
    BY <2>2, <2>3
<1>3. AdminType
  BY DEF Init, NotYet, Nothing, AdminType, AdminPc, AtWork
<1>4. CountType
  BY EditBound, StoreBounds DEF Init, WatchInit, CountType
<1>5. QED
  BY <1>1, <1>2, <1>3, <1>4, TypeParts

LEMMA TypeNext == TypeOK /\ [Next]_vars => TypeOK'
<1> SUFFICES ASSUME TypeOK, [Next]_vars PROVE TypeOK'
  OBVIOUS
<1>1. CASE UNCHANGED vars
  BY <1>1 DEF vars, TypeOK, WatchTypeOK
<1>2. QED
  BY <1>1, AdminTyped, CallbackTyped, WatcherTyped, EditTyped, RestartTyped DEF Next

\* Types, and: a request only ever writes or installs a complete set of items.
THEOREM TypeCorrect == Spec => []TypeOK
BY TypeInit, TypeNext, PTL DEF Spec

-----------------------------------------------------------------------------
(* As long as nothing overlaps, memory and the file follow what is wanted. *)

Pending == events # <<>> /\ ~recent

\* The watch is on the file, or the event that will bring it back is accepted or
\* next.
Watched ==
  /\ file # Absent /\ (reAdd => recent)
  /\ watching \/ reAdd \/ (Pending /\ Head(events) = "gone")

\* One request at a time, each of its steps working on what is wanted.
OneAdmin ==
  \A a \in Admins : pc[a] # "idle" =>
    /\ \A b \in Admins : pc[b] # "idle" => b = a
    /\ pc[a] # "orphan" /\ memory = wanted /\ ~saving /\ loop # "apply"
    /\ pc[a] \in {"open", "write", "apply"} => hand[a] = wanted
    /\ pc[a] = "write" => file = Blank
    /\ pc[a] = "apply" => file = wanted

\* Nobody is between the change and the end of the write.
NoWriter == \A a \in Admins : pc[a] \in {"idle", "apply"}
FileRight == (saving => file = Blank) /\ (NoWriter /\ ~saving => file = wanted)

\* What is not in force yet is on its way, and what is on its way is wanted or
\* will be corrected.
MemoryRight ==
  ~saving =>
    /\ memory # wanted => Pending \/ loop = "called" \/ (loop = "apply" /\ got = wanted)
    /\ loop = "apply" /\ got # wanted => Pending

Orderly == Watched /\ OneAdmin /\ FileRight /\ MemoryRight /\ sourced
Unraced == ~raced => Orderly

LEMMA IdleMeansNoWriter ==
  ASSUME TypeOK, Orderly, ~Busy
  PROVE  /\ \A a \in Admins : pc[a] = "idle"
         /\ ~saving => file = wanted /\ file \in Contents
<1>1. \A a \in Admins : pc[a] = "idle"
  BY DEF Busy
<1>2. QED
  BY <1>1, TypeParts DEF Orderly, FileRight, NoWriter, MemoryType

\* A file with what is wanted in it is read as that.
LEMMA ReadBack ==
  ASSUME NEW f \in Contents
  PROVE  Parses(f) = {f} /\ ~MayFail(f)
BY StoreShape, FileStates DEF Parses, MayFail

\* Writing the file while it is watched, or will be again, loses no watch.
LEMMA WatchedKept ==
  ASSUME TypeOK, Watched, NEW e \in {"write", "gone"}, Notify(e) \/ UNCHANGED events,
         file' # Absent, UNCHANGED <<watching, recent, reAdd>>
  PROVE  Watched'
<1>1. CASE UNCHANGED events
  BY <1>1 DEF Watched, Pending
<1>2. CASE Notify(e)
  BY <1>2 DEF Watched, Pending, Notify
<1>3. QED
  BY <1>1, <1>2

LEMMA ChangeOrderly ==
  ASSUME TypeOK, Unraced, NEW a \in Admins, NEW new, Change(a, new), ~raced',
         memory = wanted => new = wanted'
  PROVE  Orderly'
<1>1. ~raced /\ Calm(a) /\ loop # "apply" /\ ~saving /\ memory = wanted /\ pc[a] = "idle"
  BY DEF Change, Raced
<1>2. Orderly /\ pc \in [Admins -> AdminPc]
  BY <1>1, TypeParts DEF Unraced, AdminType
<1>3. pc'[a] = "persist" /\ \A b \in Admins \ {a} : pc'[b] = "idle"
  BY <1>1, <1>2 DEF Change, Calm
<1>4. memory' = wanted' /\ ~saving' /\ loop' # "apply"
  BY <1>1 DEF Change
<1>5. Watched'
  BY <1>2 DEF Change, Orderly, Watched, Pending
<1>6. OneAdmin' /\ FileRight' /\ MemoryRight'
  BY <1>3, <1>4 DEF OneAdmin, FileRight, NoWriter, MemoryRight
<1>7. QED
  BY <1>2, <1>5, <1>6 DEF Change, Orderly

LEMMA ReloadOrderly ==
  ASSUME TypeOK, Unraced, NEW a \in Admins, ReloadRead(a), ~raced'
  PROVE  Orderly'
<1>1. /\ ~raced /\ Calm(a) /\ loop # "apply" /\ ~saving /\ memory = wanted /\ pc[a] = "idle"
      /\ file \in Contents
  BY DEF ReloadRead, Raced
<1>2. Orderly /\ pc \in [Admins -> AdminPc] /\ hand \in [Admins -> Contents \cup {NoItems}]
  BY <1>1, TypeParts DEF Unraced, AdminType
<1>3. file = wanted
  BY <1>1, <1>2 DEF Orderly, FileRight, NoWriter, Calm
<1>4. pc' = [pc EXCEPT ![a] = "apply"] /\ hand' = [hand EXCEPT ![a] = wanted]
  BY <1>1, <1>3, ReadBack DEF ReloadRead
<1>5. pc'[a] = "apply" /\ hand'[a] = wanted /\ \A b \in Admins \ {a} : pc'[b] = "idle"
  BY <1>1, <1>2, <1>4 DEF Calm
<1>6. Watched'
  BY <1>2 DEF ReloadRead, Orderly, Watched, Pending
<1>7. OneAdmin' /\ FileRight' /\ MemoryRight'
  BY <1>1, <1>3, <1>5 DEF ReloadRead, OneAdmin, FileRight, NoWriter, MemoryRight
<1>8. QED
  BY <1>2, <1>6, <1>7 DEF ReloadRead, Orderly

\* The later steps of a request.
LEMMA RequestOrderly ==
  ASSUME TypeOK, Unraced, NEW a \in Admins, Persist(a) \/ PersistFail(a) \/ ReloadApply(a), ~raced'
  PROVE  Orderly'
<1>1. ~PersistFail(a) /\ ~raced
  <2>1. ~PersistFail(a)
    BY DEF PersistFail
  <2>2. CASE Snapshot(a)
    BY <2>1, <2>2 DEF Snapshot
  <2>3. CASE PersistOpen(a)
    BY <2>1, <2>3 DEF PersistOpen
  <2>4. CASE PersistWrite(a)
    BY <2>1, <2>4 DEF PersistWrite
  <2>5. CASE PersistWriteLost(a)
    BY <2>1, <2>5 DEF PersistWriteLost
  <2>6. CASE ReloadApply(a)
    BY <2>1, <2>6 DEF ReloadApply
  <2>7. QED
    BY <2>1, <2>2, <2>3, <2>4, <2>5, <2>6 DEF Persist
<1>2. Orderly /\ pc \in [Admins -> AdminPc] /\ hand \in [Admins -> Contents \cup {NoItems}]
      /\ wanted \in Contents
  BY <1>1, TypeParts DEF Unraced, AdminType, MemoryType
<1>3. pc[a] # "idle"
  BY <1>1 DEF Persist, Snapshot, PersistOpen, PersistWrite, PersistWriteLost, ReloadApply
<1>4. /\ \A b \in Admins \ {a} : pc[b] = "idle"
      /\ pc[a] # "orphan" /\ memory = wanted /\ ~saving /\ loop # "apply"
      /\ pc[a] \in {"open", "write", "apply"} => hand[a] = wanted
      /\ pc[a] = "write" => file = Blank
      /\ pc[a] = "apply" => file = wanted
  BY <1>2, <1>3 DEF Orderly, OneAdmin
<1>5. wanted # Blank /\ wanted # Absent /\ Blank # Absent
  BY <1>2, FileStates
<1>6. CASE Snapshot(a)
  <2>1. /\ pc'[a] = "open" /\ hand'[a] = wanted /\ sourced'
        /\ \A b \in Admins \ {a} : pc'[b] = "idle"
    BY <1>2, <1>4, <1>6 DEF Snapshot, Orderly
  <2>2. Watched' /\ MemoryRight'
    BY <1>2, <1>4, <1>6 DEF Snapshot, Orderly, Watched, Pending, MemoryRight
  <2>3. OneAdmin' /\ FileRight'
    BY <1>4, <1>6, <2>1 DEF Snapshot, OneAdmin, FileRight, NoWriter
  <2>4. QED
    BY <2>1, <2>2, <2>3 DEF Orderly
<1>7. CASE PersistOpen(a)
  <2>1. /\ pc'[a] = "write" /\ hand'[a] = wanted /\ file' = Blank
        /\ \A b \in Admins \ {a} : pc'[b] = "idle"
    BY <1>2, <1>4, <1>7 DEF PersistOpen, Truncate
  <2>2. Watched'
    BY <1>2, <1>5, <1>7, <2>1, WatchedKept DEF PersistOpen, Truncate, Orderly
  <2>3. OneAdmin' /\ FileRight' /\ MemoryRight'
    BY <1>4, <1>7, <2>1 DEF PersistOpen, OneAdmin, FileRight, NoWriter, MemoryRight
  <2>4. QED
    BY <1>2, <1>7, <2>2, <2>3 DEF PersistOpen, Orderly
<1>8. CASE PersistWrite(a)
  <2>1. file' = wanted /\ Notify("write")
    BY <1>2, <1>4, <1>8, FileStates DEF PersistWrite, Overwritten, WriteTo
  <2>2. \A b \in Admins : pc'[b] = "idle"
    BY <1>2, <1>4, <1>8 DEF PersistWrite
  <2>3. Watched'
    BY <1>2, <1>5, <1>8, <2>1, WatchedKept DEF PersistWrite, WriteTo, Orderly
  <2>4. OneAdmin' /\ FileRight' /\ MemoryRight'
    BY <1>4, <1>8, <2>1, <2>2 DEF PersistWrite, OneAdmin, FileRight, NoWriter, MemoryRight
  <2>5. QED
    BY <1>2, <1>8, <2>3, <2>4 DEF PersistWrite, Orderly
<1>9. CASE ReloadApply(a)
  <2>1. memory' = wanted /\ \A b \in Admins : pc'[b] = "idle"
    BY <1>2, <1>4, <1>9 DEF ReloadApply
  <2>2. Watched'
    BY <1>2, <1>9 DEF ReloadApply, Orderly, Watched, Pending
  <2>3. OneAdmin' /\ FileRight' /\ MemoryRight'
    BY <1>4, <1>9, <2>1 DEF ReloadApply, OneAdmin, FileRight, NoWriter, MemoryRight
  <2>4. QED
    BY <1>9, <2>2, <2>3 DEF ReloadApply, Orderly
<1>10. QED
  BY <1>1, <1>4, <1>6, <1>7, <1>8, <1>9 DEF Persist, PersistWriteLost

LEMMA CallbackOrderly ==
  ASSUME TypeOK, Unraced, Callback, ~raced'
  PROVE  Orderly'
<1>1. ~raced
  BY DEF Callback, CallbackRead, CallbackApply
<1>2. Orderly
  BY <1>1 DEF Unraced
<1>3. UNCHANGED <<file, watching, events, recent, reAdd, saving, pc, wanted>>
  BY DEF Callback, CallbackRead, CallbackApply
<1>4. Watched'
  BY <1>2, <1>3 DEF Orderly, Watched, Pending
<1>5. FileRight'
  BY <1>2, <1>3 DEF Orderly, FileRight, NoWriter
<1>6. CASE CallbackRead
  <2>1. ~Busy
    BY <1>6 DEF CallbackRead
  <2>2. (\A a \in Admins : pc[a] = "idle") /\ (~saving => file = wanted /\ file \in Contents)
    BY <1>2, <2>1, IdleMeansNoWriter
  <2>3. OneAdmin'
    BY <1>6, <2>2 DEF CallbackRead, OneAdmin
  <2>4. ~saving => loop' = "apply" /\ got' = wanted
    BY <1>6, <2>2, ReadBack DEF CallbackRead
  <2>5. MemoryRight'
    BY <1>6, <2>4 DEF CallbackRead, MemoryRight
  <2>6. QED
    BY <1>2, <1>4, <1>5, <1>6, <2>3, <2>5 DEF CallbackRead, Orderly
<1>7. CASE CallbackApply
  <2>1. \A a \in Admins : pc[a] = "idle"
    BY <1>2, <1>7 DEF CallbackApply, Orderly, OneAdmin
  <2>2. OneAdmin'
    BY <1>7, <2>1 DEF CallbackApply, OneAdmin
  <2>3. MemoryRight'
    BY <1>2, <1>7 DEF CallbackApply, Orderly, MemoryRight, Pending
  <2>4. QED
    BY <1>4, <1>5, <1>7, <2>2, <2>3 DEF CallbackApply, Orderly
<1>8. QED
  BY <1>6, <1>7 DEF Callback

LEMMA WatcherOrderly ==
  ASSUME TypeOK, Unraced, Watcher, ~raced'
  PROVE  Orderly'
<1>1. Orderly
  BY DEF Watcher, WatchStep, WatchLoop, Coalesce, Accept, SecondPasses, ReAdd, Unraced
<1>2. CASE Coalesce
  BY <1>1, <1>2 DEF Watcher, Coalesce, Orderly, Watched, OneAdmin, FileRight, NoWriter, MemoryRight,
     Pending
<1>3. CASE Accept
  BY <1>1, <1>3 DEF Watcher, Accept, Orderly, Watched, OneAdmin, FileRight, NoWriter, MemoryRight,
     Pending
<1>4. CASE SecondPasses
  BY <1>1, <1>4 DEF Watcher, SecondPasses, Orderly, Watched, OneAdmin, FileRight, NoWriter,
     MemoryRight, Pending
<1>5. CASE ReAdd
  BY <1>1, <1>5 DEF Watcher, ReAdd, Orderly, Watched, OneAdmin, FileRight, NoWriter, MemoryRight,
     Pending
<1>6. QED
  BY <1>2, <1>3, <1>4, <1>5 DEF Watcher, WatchStep, WatchLoop

LEMMA EditOrderly ==
  ASSUME TypeOK, Unraced, EditInPlace \/ EditAnew, ~raced'
  PROVE  Orderly'
<1> USE DEF HandInPlace, HandAnew
<1>1. ~HandDelete
  BY DEF HandDelete
<1>2. ~raced /\ ~Busy /\ ~recent /\ events = <<>>
  BY <1>1 DEF EditInPlace, EditAnew, HandTruncate, HandWrite, HandReplace, TooSoon
<1>3. Orderly /\ (\A a \in Admins : pc[a] = "idle") /\ watching
  BY <1>2, IdleMeansNoWriter DEF Unraced, Orderly, Watched, Pending
<1>4. \A a \in Admins : pc'[a] = "idle"
  BY <1>3 DEF EditInPlace, EditAnew
<1>5. OneAdmin' /\ sourced'
  BY <1>3, <1>4 DEF EditInPlace, EditAnew, OneAdmin, Orderly
<1>6. UNCHANGED <<recent, reAdd>> /\ ~reAdd
  BY <1>1, <1>2, <1>3 DEF EditInPlace, EditAnew, HandTruncate, HandWrite, HandReplace, ByHand,
     Orderly, Watched
<1>7. CASE HandTruncate(Busy)
  <2>1. file' = Blank /\ saving' /\ UNCHANGED watching
    BY <1>7 DEF HandTruncate, Truncate
  <2>2. Watched'
    BY <1>3, <1>6, <2>1, FileStates DEF Watched
  <2>3. QED
    BY <1>5, <2>1, <2>2 DEF Orderly, FileRight, MemoryRight
<1>8. ASSUME NEW e \in {"write", "gone"}, Notify(e) PROVE events' = <<e>>
  BY <1>2, <1>3, <1>8 DEF Notify
<1>9. CASE HandWrite(Busy) /\ EditInPlace
  <2>1. file' \in Contents /\ ~saving' /\ UNCHANGED watching /\ events' = <<"write">>
    BY <1>8, <1>9 DEF HandWrite, WriteTo
  <2>2. wanted' = file'
    BY <1>9, <2>1 DEF EditInPlace
  <2>3. Watched' /\ Pending'
    BY <1>2, <1>3, <1>6, <2>1, FileStates DEF Watched, Pending
  <2>4. QED
    BY <1>5, <2>1, <2>2, <2>3 DEF Orderly, FileRight, MemoryRight
<1>10. CASE HandReplace(Busy) /\ EditAnew
  <2>1. file' \in Contents /\ ~saving' /\ events' = <<"gone">>
    BY <1>3, <1>8, <1>10 DEF HandReplace, Orderly, Watched
  <2>2. wanted' = file'
    BY <1>10, <2>1 DEF EditAnew
  <2>3. Watched' /\ Pending'
    BY <1>2, <1>6, <2>1, FileStates DEF Watched, Pending
  <2>4. QED
    BY <1>5, <2>1, <2>2, <2>3 DEF Orderly, FileRight, MemoryRight
<1>11. QED
  BY <1>1, <1>7, <1>9, <1>10 DEF EditInPlace, EditAnew

\* A complete file is loaded at startup, and watched.
LEMMA StartOrderly ==
  ASSUME NEW f \in Contents, NEW m \in LoadAtStart(f)
  PROVE  m[1] = f /\ m[2] = TRUE
<1>1. Parses(f) = {f} /\ ~MayFail(f)
  BY ReadBack
<1>2. m \in Parses(f) \X {TRUE}
  <2>1. m \in Parses(f) \X {TRUE} \/ m \in IF MayFail(f) THEN {<<{}, FALSE>>} ELSE {}
    BY DEF LoadAtStart
  <2>2. CASE m \in IF MayFail(f) THEN {<<{}, FALSE>>} ELSE {}
    BY <1>1, <2>2
  <2>3. QED
    BY <2>1, <2>2
<1>3. ASSUME NEW S, NEW T, m \in S \X T PROVE m[1] \in S /\ m[2] \in T
  BY <1>3
<1>4. m[1] \in Parses(f) /\ m[2] \in {TRUE}
  BY <1>2, <1>3, Zenon
<1>5. QED
  BY <1>1, <1>4, Zenon

LEMMA RestartOrderly ==
  ASSUME TypeOK, Unraced, Restart, ~raced'
  PROVE  Orderly'
<1>1. ~raced /\ ~Busy /\ file \in Contents
  BY DEF Restart
<1>2. Orderly
  BY <1>1 DEF Unraced
<1>3. ~saving /\ file = wanted
  BY <1>1, <1>2, IdleMeansNoWriter, FileStates DEF Orderly, FileRight
<1>4. memory' = file /\ sourced' = TRUE
  <2>1. PICK m \in LoadAtStart(file) : memory' = m[1] /\ sourced' = m[2]
    BY DEF Restart
  <2>2. m[1] = file /\ m[2] = TRUE
    BY <1>1, StartOrderly, Zenon
  <2>3. QED
    BY <2>1, <2>2
<1>5. /\ \A a \in Admins : pc'[a] = "idle"
      /\ watching' /\ file' = file /\ wanted' = wanted /\ saving' = saving
      /\ events' = <<>> /\ recent' = FALSE /\ reAdd' = FALSE /\ loop' = "idle"
  BY <1>1, FileStates DEF Restart, NotYet
<1>6. QED
  BY <1>1, <1>3, <1>4, <1>5, FileStates DEF Orderly, Watched, OneAdmin, FileRight, MemoryRight

LEMMA UnracedInit == Init => Unraced
<1> SUFFICES ASSUME Init, ~raced PROVE Orderly
  BY DEF Unraced
<1>1. file \in Contents /\ watching /\ events = <<>> /\ ~reAdd /\ loop = "idle" /\ ~saving
  BY DEF Init, WatchInit
<1>2. memory = file /\ sourced = TRUE /\ wanted = file
  <2>1. PICK m \in LoadAtStart(file) : memory = m[1] /\ sourced = m[2]
    BY DEF Init
  <2>2. m[1] = file /\ m[2] = TRUE
    BY <1>1, StartOrderly, Zenon
  <2>3. QED
    BY <2>1, <2>2 DEF Init
<1>3. \A a \in Admins : pc[a] = "idle"
  BY DEF Init, NotYet
<1>4. QED
  BY <1>1, <1>2, <1>3, FileStates DEF Orderly, Watched, OneAdmin, FileRight, MemoryRight

LEMMA UnracedNext == TypeOK /\ Unraced /\ [Next]_vars => Unraced'
<1> SUFFICES ASSUME TypeOK, Unraced, [Next]_vars, ~raced' PROVE Orderly'
  BY DEF Unraced
<1>1. CASE UNCHANGED vars
  BY <1>1 DEF vars, Unraced, Orderly, Watched, OneAdmin, FileRight, NoWriter, MemoryRight, Pending
<1>2. ASSUME NEW a \in Admins, AddKeyword(a) \/ RemoveKeyword(a) PROVE Orderly'
  <2>1. ASSUME NEW i \in Items, Change(a, memory \cup {i}), wanted' = wanted \cup {i} PROVE Orderly'
    BY <2>1, ChangeOrderly
  <2>2. ASSUME NEW i \in Items, Change(a, memory \ {i}), wanted' = wanted \ {i} PROVE Orderly'
    BY <2>2, ChangeOrderly
  <2>3. QED
    BY <1>2, <2>1, <2>2 DEF AddKeyword, RemoveKeyword
<1>3. QED
  BY <1>1, <1>2, ReloadOrderly, RequestOrderly, CallbackOrderly, WatcherOrderly, EditOrderly,
     RestartOrderly DEF Next

\* Requests, saves by hand, reloads and restarts that do not overlap lose nothing
\* and bring nothing back: at rest, memory and the file hold what the changes add
\* up to (Agreement).
THEOREM AgreementHolds == Spec => []Agreement
<1>1. TypeOK /\ Unraced => Agreement
  BY IdleMeansNoWriter DEF Unraced, Agreement, Quiet, Orderly, MemoryRight, Pending
<1>2. QED
  BY <1>1, TypeCorrect, UnracedInit, UnracedNext, PTL DEF Spec

=============================================================================
