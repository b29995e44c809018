------------------------ MODULE ConfigReload_proofs -------------------------
(***************************************************************************)
(* Proofs about ConfigReload, for every set of configurations and every    *)
(* number of changes to the file.                                          *)
(***************************************************************************)
EXTENDS ConfigReload, SequenceTheorems, TLAPS

USE DEF timerVars, handVars, watchVars, configVars, WatchOnly, CallbackRest

\* An event joins the queue, or nobody hears it.
LEMMA NotifyTyped ==
  ASSUME events \in Seq({"write", "gone"}), NEW e \in {"write", "gone"},
         Notify(e) \/ UNCHANGED events
  PROVE  events' \in Seq({"write", "gone"})
BY AppendProperties DEF Notify

LEMMA TypeInit == Init => TypeOK
<1> SUFFICES ASSUME Init PROVE TypeOK
  OBVIOUS
<1>1. WatchTypeOK
  <2>1. watching \in BOOLEAN /\ raced \in BOOLEAN
    BY Zenon DEF Init, WatchInit
  <2>2. events \in Seq({"write", "gone"}) /\ edits \in 0..MaxEdits
    BY EditBound DEF Init, WatchInit
  <2>3. QED
    BY <2>1, <2>2 DEF Init, WatchInit, WatchTypeOK
<1>2. QED
  BY <1>1 DEF Init, WatchInit, TypeOK, Loadable, Usable

\* What a change by hand can disturb.
LEMMA HandTyped ==
  ASSUME TypeOK, HandInPlace(FALSE) \/ HandAnew(FALSE), WatchOnly
  PROVE  TypeOK'
<1>1. edits \in Nat /\ MaxEdits \in Nat /\ events \in Seq({"write", "gone"}) /\ raced \in BOOLEAN
  BY EditBound DEF TypeOK, WatchTypeOK
<1>2. TooSoon(FALSE) \in BOOLEAN
  BY DEF TooSoon, TypeOK, WatchTypeOK
<1>3. UNCHANGED loop
  BY DEF HandInPlace, HandAnew, HandTruncate, HandWrite, HandReplace, HandDelete, ByHand
<1>4. events' \in Seq({"write", "gone"})
  BY <1>1, NotifyTyped DEF HandInPlace, HandAnew, HandTruncate, HandWrite, HandReplace,
     HandDelete, Truncate, WriteTo
<1>5. watching' \in BOOLEAN /\ recent' \in BOOLEAN /\ reAdd' \in BOOLEAN /\ saving' \in BOOLEAN
  BY DEF TypeOK, WatchTypeOK, HandInPlace, HandAnew, HandTruncate, HandWrite, HandReplace,
     HandDelete, Truncate, WriteTo, ByHand
<1>6. edits' \in 0..MaxEdits
  <2>1. edits' = edits \/ (edits < MaxEdits /\ edits' = edits + 1)
    BY DEF HandInPlace, HandAnew, HandTruncate, HandWrite, HandReplace, HandDelete, ByHand
  <2>2. edits \in 0..MaxEdits
    BY DEF TypeOK, WatchTypeOK
  <2>3. QED
    BY <1>1, <2>1, <2>2
<1>7. raced' \in BOOLEAN
  BY <1>1, <1>2 DEF HandInPlace, HandAnew, HandTruncate, HandWrite, HandReplace, HandDelete
<1>8. file' \in Contents \cup {Blank, Absent}
  BY DEF TypeOK, HandInPlace, HandAnew, HandTruncate, HandWrite, HandReplace, HandDelete,
     Truncate, WriteTo
<1>9. QED
  BY <1>3, <1>4, <1>5, <1>6, <1>7, <1>8 DEF TypeOK, WatchTypeOK

\* What the watcher's goroutine, its timer and the clock can disturb.
LEMMA WatchTyped ==
  ASSUME TypeOK, WatchStep, WatchOnly
  PROVE  TypeOK'
<1>1. CASE Coalesce \/ Accept
  <2>1. events' \in Seq({"write", "gone"})
    BY <1>1, HeadTailProperties DEF Coalesce, Accept, TypeOK, WatchTypeOK
  <2>2. QED
    BY <1>1, <2>1 DEF Coalesce, Accept, TypeOK, WatchTypeOK
<1>2. CASE SecondPasses \/ ReAdd
  BY <1>2 DEF SecondPasses, ReAdd, TypeOK, WatchTypeOK
<1>3. QED
  BY <1>1, <1>2 DEF WatchStep, WatchLoop

LEMMA CallbackTyped ==
  ASSUME TypeOK, Callback
  PROVE  TypeOK'
BY DEF Callback, ReloadConfig, UpdateProxy, UpdateAudit, ReloadRules, TypeOK, WatchTypeOK

LEMMA TypeNext == TypeOK /\ [Next]_vars => TypeOK'
<1> SUFFICES ASSUME TypeOK, [Next]_vars PROVE TypeOK'
  OBVIOUS
<1>1. CASE UNCHANGED vars
  BY <1>1 DEF vars, TypeOK, WatchTypeOK
<1>2. QED
  BY <1>1, HandTyped, WatchTyped, CallbackTyped DEF Next

\* Types, and: nothing that could not be read or used is ever installed.
THEOREM TypeCorrect == Spec => []TypeOK
BY TypeInit, TypeNext, PTL DEF Spec

-----------------------------------------------------------------------------
(* Which configuration each component is on.                               *)

\* How far the callback has carried a new instance.
Carried ==
  /\ Usable(instance) => lastUsable = instance
  /\ loop \in {"idle", "called"} =>
       auditCfg = instance /\ ruleCfg = instance /\ proxyCfg = lastUsable
  /\ loop = "proxy" => lastUsable = IF Usable(instance) THEN instance ELSE proxyCfg
  /\ loop = "audit" => proxyCfg = lastUsable
  /\ loop = "rules" => proxyCfg = lastUsable /\ auditCfg = instance

LEMMA CarriedNext == TypeOK /\ Carried /\ [Next]_vars => Carried'
<1> SUFFICES ASSUME TypeOK, Carried, [Next]_vars PROVE Carried'
  OBVIOUS
<1>1. CASE UNCHANGED vars
  BY <1>1 DEF vars, Carried, Usable
<1>2. CASE (HandInPlace(FALSE) \/ HandAnew(FALSE)) /\ WatchOnly
  BY <1>2 DEF HandInPlace, HandAnew, HandTruncate, HandWrite, HandReplace, HandDelete, ByHand,
     Carried, Usable
<1>3. CASE WatchStep /\ WatchOnly
  BY <1>3 DEF WatchStep, WatchLoop, Coalesce, Accept, SecondPasses, ReAdd, Carried, Usable
<1>4. CASE ReloadConfig
  BY <1>4 DEF ReloadConfig, Carried, Usable
<1>5. CASE UpdateProxy
  BY <1>5 DEF UpdateProxy, Carried, Usable
<1>6. CASE UpdateAudit \/ ReloadRules
  BY <1>6 DEF UpdateAudit, ReloadRules, Carried, Usable
<1>7. QED
  BY <1>1, <1>2, <1>3, <1>4, <1>5, <1>6 DEF Next, Callback

\* Between reloads the audit logger and the rules run on the instance; the proxy
\* does too if it can use it, and is on the last one it could use if not (InStep).
THEOREM InStepHolds == Spec => []InStep
<1>1. Init => Carried
  BY DEF Init, WatchInit, Carried
<1>2. Carried => InStep
  BY DEF Carried, InStep
<1>3. QED
  BY <1>1, <1>2, CarriedNext, TypeCorrect, PTL DEF Spec

-----------------------------------------------------------------------------
(* Spaced changes are all loaded.                                          *)

\* As long as no two changes came too close and the file was never away: the
\* change under way has its one event, the watch is on the file or will be
\* again before the next change can count, and all else is loaded.
Attended ==
  /\ file # Absent
  /\ reAdd => recent
  /\ events = <<>> => watching \/ reAdd
  /\ events # <<>> => Tail(events) = <<>> /\ ~recent /\ (watching \/ Head(events) = "gone")
  /\ events = <<>> /\ loop # "called" /\ file \in Loadable => instance = file

Spaced == ~raced => Attended

\* A change that counts finds the watch in place and leaves one event.
LEMMA ChangeHeard ==
  ASSUME TypeOK, Attended, events = <<>>, ~recent, NEW e \in {"write", "gone"}, Notify(e),
         file' # Absent, UNCHANGED <<recent, reAdd, loop>>, watching' \/ e = "gone"
  PROVE  Attended'
<1>1. events' = Append(<<>>, e)
  BY DEF Attended, Notify
<1>2. events' # <<>> /\ Tail(events') = <<>> /\ Head(events') = e
  BY <1>1
<1>3. QED
  BY <1>2 DEF Attended

LEMMA SpacedNext == TypeOK /\ Spaced /\ [Next]_vars => Spaced'
<1> SUFFICES ASSUME TypeOK, Spaced, [Next]_vars, ~raced' PROVE Attended'
  BY DEF Spaced
<1>0. raced \in BOOLEAN /\ events \in Seq({"write", "gone"})
  BY DEF TypeOK, WatchTypeOK
<1>1. CASE UNCHANGED vars
  BY <1>1 DEF vars, Spaced, Attended
<1>2. CASE (HandInPlace(FALSE) \/ HandAnew(FALSE)) /\ WatchOnly
  <2>1. ~HandDelete
    BY DEF HandDelete
  <2>2. ~raced /\ ~recent /\ events = <<>>
    BY <1>0, <1>2, <2>1 DEF HandInPlace, HandAnew, HandTruncate, HandWrite, HandReplace, TooSoon
  <2>3. Attended /\ watching
    BY <2>2 DEF Spaced, Attended
  <2>4. UNCHANGED <<recent, reAdd, loop>>
    BY <1>2, <2>1 DEF HandInPlace, HandAnew, HandTruncate, HandWrite, HandReplace, ByHand
  <2>5. CASE HandTruncate(FALSE)
    <3>1. CASE file = Blank
      BY <1>2, <2>2, <2>3, <2>4, <2>5, <3>1 DEF HandTruncate, Truncate, Attended
    <3>2. CASE file # Blank
      BY <2>2, <2>3, <2>4, <2>5, <3>2, ChangeHeard, FileStates DEF HandTruncate, Truncate, Attended
    <3>3. QED
      BY <3>1, <3>2
  <2>6. CASE HandWrite(FALSE)
    BY <2>2, <2>3, <2>4, <2>6, ChangeHeard, FileStates DEF HandWrite, WriteTo
  <2>7. CASE HandReplace(FALSE)
    BY <2>2, <2>3, <2>4, <2>7, ChangeHeard, FileStates DEF HandReplace, Attended
  <2>8. QED
    BY <1>2, <2>1, <2>5, <2>6, <2>7 DEF HandInPlace, HandAnew
<1>3. CASE WatchStep /\ WatchOnly
  <2>1. Attended
    BY <1>3 DEF WatchStep, WatchLoop, Coalesce, Accept, SecondPasses, ReAdd, Spaced
  <2>2. CASE Coalesce
    BY <2>1, <2>2 DEF Coalesce, Attended
  <2>3. CASE Accept
    BY <1>3, <2>1, <2>3 DEF Accept, Attended
  <2>4. CASE SecondPasses
    BY <1>3, <2>1, <2>4 DEF SecondPasses, Attended
  <2>5. CASE ReAdd
    BY <1>3, <2>1, <2>5 DEF ReAdd, Attended
  <2>6. QED
    BY <1>3, <2>2, <2>3, <2>4, <2>5 DEF WatchStep, WatchLoop
<1>4. CASE Callback
  BY <1>4 DEF Callback, ReloadConfig, UpdateProxy, UpdateAudit, ReloadRules, Spaced, Attended
<1>5. QED
  BY <1>1, <1>2, <1>3, <1>4 DEF Next

\* What is in the file is what runs, once nothing is under way, if no change came
\* within a second of another one or removed the file (Loaded).
THEOREM LoadedHolds == Spec => []Loaded
<1>1. Init => Spaced
  BY FileStates DEF Init, WatchInit, Spaced, Attended
<1>2. Spaced => Loaded
  BY DEF Spaced, Attended, Loaded, Settled
<1>3. QED
  BY <1>1, <1>2, SpacedNext, TypeCorrect, PTL DEF Spec

=============================================================================
