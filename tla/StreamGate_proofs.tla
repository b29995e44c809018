------------------------- MODULE StreamGate_proofs -------------------------
(***************************************************************************)
(* Proofs about StreamGate, for every window size, threshold, event size   *)
(* and response that satisfy the named conditions of StreamGate.           *)
(***************************************************************************)
EXTENDS StreamGate, SequenceTheorems, TLAPS

\* What a flush takes is what there is, and at most Threshold.
LEMMA FlushSizeBounds ==
  ASSUME NEW w \in Window, w.off <= w.size
  PROVE  /\ FlushSize(w) \in Nat
         /\ FlushSize(w) <= UnflushedSize(w)
         /\ FlushSize(w) <= Threshold
         /\ FlushSize(w) = Threshold \/ FlushSize(w) = UnflushedSize(w)
BY Sizes DEF FlushSize, UnflushedSize, Window

\* The effect of WindowFlush on the numbers that describe a window.
LEMMA FlushEffect ==
  ASSUME NEW w \in Window, w.off <= w.size
  PROVE  /\ WindowFlush(w) \in Window
         /\ WindowFlush(w).hi = w.hi
         /\ WindowFlush(w).size = w.size
         /\ WindowFlush(w).off = w.off + FlushSize(w)
         /\ WindowFlush(w).off <= w.size
BY FlushSizeBounds DEF WindowFlush, Window, UnflushedSize

\* The effect of WindowAppend: the offset stays within the buffer, and the
\* front of what was released moves only if unreleased characters are lost.
LEMMA AppendEffect ==
  ASSUME NEW w \in Window, NEW n \in Nat,
         w.off <= w.size, w.size <= MaxSize, w.size <= w.hi
  PROVE  LET v == WindowAppend(w, n)
         IN  /\ v \in Window
             /\ v.off <= v.size /\ v.size <= MaxSize /\ v.size <= v.hi
             /\ v.hi = w.hi + n
             /\ (w.size = MaxSize \/ w.size = w.hi) => (v.size = MaxSize \/ v.size = v.hi)
             /\ UnflushedSize(w) + n <= MaxSize =>
                  Front(v) = Front(w) /\ UnflushedSize(v) = UnflushedSize(w) + n
BY Sizes DEF WindowAppend, Window, UnflushedSize, Front, Base

\* A chunk is a sequence of positions.
LEMMA ChunkIsSeq ==
  ASSUME NEW w \in Window, w.off <= w.size, w.size <= w.hi
  PROVE  /\ Chunk(w) \in Seq(Nat)
         /\ Len(Chunk(w)) = FlushSize(w)
         /\ \A i \in 1..FlushSize(w) : Chunk(w)[i] = Front(w) + i
<1> DEFINE k == FlushSize(w)
<1>1. k \in Nat
  BY FlushSizeBounds
<1>2. Front(w) \in Nat
  BY DEF Front, Base, Window
<1>3. Chunk(w) = [i \in 1..k |-> Front(w) + i]
  BY DEF Chunk
<1> HIDE DEF k
<1>4. \A i \in 1..k : Front(w) + i \in Nat
  BY <1>1, <1>2
<1>5. Chunk(w) \in [1..k -> Nat]
  BY <1>3, <1>4
<1>6. QED
  BY <1>1, <1>3, <1>5 DEF k

\* The type invariant: in SlidingWindow, no offset leaves the buffer and the
\* buffer never outgrows its size.
THEOREM TypeCorrect == Spec => []TypeOK
<1>1. Init => TypeOK
  <2> SUFFICES ASSUME Init PROVE TypeOK
    OBVIOUS
  <2>1. window \in Window /\ window.off <= window.size
          /\ window.size <= MaxSize /\ window.size <= window.hi
    BY Sizes DEF Init, Window, EmptyWindow
  <2>2. client \in Seq(Nat) /\ errs \in 0..MaxErrs
    BY Sizes DEF Init
  <2>3. QED
    BY <2>1, <2>2 DEF Init, TypeOK
<1>2. TypeOK /\ [Next]_vars => TypeOK'
  <2> SUFFICES ASSUME TypeOK, [Next]_vars PROVE TypeOK'
    OBVIOUS
  <2> USE DEF TypeOK
  <2>1. CASE ReadEvent
    <3>1. PICK n \in 0..MaxEvent : window' = WindowAppend(window, n) /\ last' \in BOOLEAN
      BY <2>1 DEF ReadEvent
    <3>2. n \in Nat
      BY Sizes
    <3>3. window' \in Window /\ window'.off <= window'.size
             /\ window'.size <= MaxSize /\ window'.size <= window'.hi
      BY <3>1, <3>2, AppendEffect
    <3>4. QED
      BY <2>1, <3>1, <3>3 DEF ReadEvent, request
  <2>2. CASE ReadEnd
    BY <2>2 DEF ReadEnd, request
  <2>3. CASE FlushNothing
    BY <2>3 DEF FlushNothing, FlushReturnsFalse, request
  <2>4. CASE FlushBlocks
    BY <2>4 DEF FlushBlocks, FlushReturnsTrue, request
  <2>5. CASE FlushReleases
    <3>1. window' \in Window /\ window'.off <= window'.size
             /\ window'.size <= MaxSize /\ window'.size <= window'.hi
      BY <2>5, FlushEffect DEF FlushReleases
    <3>2. client' \in Seq(Nat)
      BY <2>5, ChunkIsSeq DEF FlushReleases
    <3>3. hit' \in BOOLEAN
      BY <2>5, Zenon DEF FlushReleases, Scanned
    <3>6. errs' \in 0..MaxErrs
      BY <2>5, Sizes DEF FlushReleases, Scanned
    <3>4. pc' \in {"read", "flush", "tail", "finish", "end"}
      BY <2>5 DEF FlushReleases, FlushReturnsFalse
    <3>5. QED
      BY <2>5, <3>1, <3>2, <3>3, <3>4, <3>6 DEF FlushReleases, request
  <2>6. CASE Finish
    BY <2>6 DEF Finish, request
  <2>7. CASE UNCHANGED vars
    BY <2>7 DEF vars, request
  <2>8. QED
    BY <2>1, <2>2, <2>3, <2>4, <2>5, <2>6, <2>7 DEF Next, Flush
<1>3. QED
  BY <1>1, <1>2, PTL DEF Spec

-----------------------------------------------------------------------------
(* The inductive invariant.  What the client has is exactly what precedes  *)
(* the unreleased part of the window; the window forgets nothing before it *)
(* is full; and between two events too little is unreleased for a flush.   *)

Flow ==
  /\ Len(client) = Front(window)
  /\ \A i \in 1..Len(client) : client[i] = i
  /\ window.size = MaxSize \/ window.size = window.hi
  /\ pc = "read" => UnflushedSize(window) < Threshold
  /\ pc \in {"flush", "tail"} => UnflushedSize(window) < MaxEvent + Threshold

\* A chunk extends what the client has by exactly the characters that follow.
LEMMA ChunkContinues ==
  ASSUME TypeOK, Len(client) = Front(window), \A i \in 1..Len(client) : client[i] = i
  PROVE  LET c == client \o Chunk(window)
         IN  /\ Len(c) = Front(WindowFlush(window))
             /\ \A i \in 1..Len(c) : c[i] = i
<1> DEFINE c == client \o Chunk(window)
           k == FlushSize(window)
<1>1. k \in Nat /\ Front(window) \in Nat
  BY FlushSizeBounds DEF TypeOK, Front, Base, Window
<1>2. Chunk(window) \in Seq(Nat) /\ Len(Chunk(window)) = k
        /\ \A i \in 1..k : Chunk(window)[i] = Front(window) + i
  BY ChunkIsSeq DEF TypeOK
<1>3. Front(WindowFlush(window)) = Front(window) + k
  BY FlushEffect, <1>1 DEF Front, Base, TypeOK, Window
<1> HIDE DEF k
<1>4. client \in Seq(Nat)
  BY DEF TypeOK
<1>5. Len(c) = Front(window) + k
  <2>1. Len(c) = Len(client) + Len(Chunk(window))
    BY <1>2, <1>4, ConcatProperties
  <2>2. QED
    BY <2>1, <1>2
<1>6. ASSUME NEW i \in 1..Len(c) PROVE c[i] = i
  <2>1. CASE i <= Len(client)
    BY <2>1, <1>1, <1>2, <1>4, <1>5
  <2>2. CASE i > Len(client)
    <3>1. c[i] = Chunk(window)[i - Len(client)]
      BY <2>2, <1>1, <1>2, <1>4, <1>5
    <3>2. i - Len(client) \in 1..k
      BY <2>2, <1>1, <1>5
    <3>3. QED
      BY <3>1, <3>2, <1>1, <1>2
  <2>3. QED
    BY <2>1, <2>2, <1>1, <1>5
<1>7. QED
  BY <1>3, <1>5, <1>6

LEMMA FlowInit == Init => Flow
<1> SUFFICES ASSUME Init PROVE Flow
  OBVIOUS
<1>1. window.hi = 0 /\ window.size = 0 /\ window.off = 0 /\ Len(client) = 0 /\ pc = "read"
  BY DEF Init, EmptyWindow
<1>2. QED
  BY <1>1, Sizes DEF Flow, Front, Base, UnflushedSize

\* Every step keeps Flow, when an event always fits beside what is unreleased.
LEMMA FlowNext ==
  ASSUME Roomy, TypeOK, Flow, [Next]_vars
  PROVE  Flow'
<1> USE DEF Flow
<1>0. window \in Window /\ window.off <= window.size
        /\ window.size <= MaxSize /\ window.size <= window.hi
  BY DEF TypeOK
<1>1. CASE ReadEvent
  <2>1. PICK n \in 0..MaxEvent : window' = WindowAppend(window, n)
    BY <1>1 DEF ReadEvent
  <2>2. n \in Nat /\ n <= MaxEvent /\ UnflushedSize(window) < Threshold
    BY <1>1, Sizes DEF ReadEvent
  <2>3. UnflushedSize(window) + n <= MaxSize
    BY <2>2, <1>0, Sizes DEF Roomy, UnflushedSize, Window
  <2>4. Front(window') = Front(window) /\ window'.hi = window.hi + n
          /\ (window'.size = MaxSize \/ window'.size = window'.hi) /\ window' \in Window
    BY <2>1, <2>2, <2>3, <1>0, AppendEffect
  <2>5. UnflushedSize(window') = UnflushedSize(window) + n
    BY <2>1, <2>2, <2>3, <1>0, AppendEffect
  <2>6. UnflushedSize(window') < MaxEvent + Threshold
    BY <2>5, <2>2, <1>0, Sizes DEF UnflushedSize, Window
  <2>7. QED
    BY <1>1, <2>4, <2>6 DEF ReadEvent, Front, Base, UnflushedSize
<1>2. CASE ReadEnd
  <2>1. UnflushedSize(window) < MaxEvent + Threshold
    BY <1>2, <1>0, Sizes DEF ReadEnd, UnflushedSize, Window
  <2>2. QED
    BY <1>2, <2>1 DEF ReadEnd, Front, Base, UnflushedSize
<1>3. CASE FlushNothing
  <2>1. pc' = "read" => UnflushedSize(window) < Threshold
    BY <1>3, Sizes DEF FlushNothing, FlushReturnsFalse, Final
  <2>2. QED
    BY <1>3, <2>1 DEF FlushNothing, FlushReturnsFalse, Front, Base, UnflushedSize
<1>4. CASE FlushBlocks
  BY <1>4 DEF FlushBlocks, FlushReturnsTrue, Front, Base, UnflushedSize
<1>5. CASE FlushReleases
  <2>1. window' = WindowFlush(window) /\ client' = client \o Chunk(window)
    BY <1>5 DEF FlushReleases
  <2>2. window'.hi = window.hi /\ window'.size = window.size
          /\ window'.off = window.off + FlushSize(window) /\ FlushSize(window) \in Nat
    BY <2>1, <1>0, FlushEffect, FlushSizeBounds
  <2>3. Len(client') = Front(window') /\ \A i \in 1..Len(client') : client'[i] = i
    BY <2>1, ChunkContinues
  <2>4. UnflushedSize(window') <= UnflushedSize(window)
    BY <2>2, <1>0 DEF UnflushedSize, Window
  <2>5. pc' # "read"
    <3>1. CASE pc = "tail"
      BY <3>1, <1>5 DEF FlushReleases, FlushReturnsFalse, Final
    <3>2. CASE pc = "flush" /\ last
      BY <3>2, <1>5 DEF FlushReleases, FlushReturnsFalse, Final
    <3>3. CASE pc = "flush" /\ ~last
      BY <3>3, <1>5 DEF FlushReleases, Final
    <3>4. QED
      BY <3>1, <3>2, <3>3, <1>5 DEF FlushReleases
  <2>6. pc' \in {"flush", "tail"} => UnflushedSize(window') < MaxEvent + Threshold
    <3>1. UnflushedSize(window) < MaxEvent + Threshold
      BY <1>5 DEF FlushReleases
    <3>2. QED
      BY <3>1, <2>2, <2>4, <1>0, Sizes DEF UnflushedSize, Window
  <2>7. QED
    BY <2>2, <2>3, <2>5, <2>6 DEF Front, Base, UnflushedSize
<1>6. CASE Finish
  BY <1>6 DEF Finish, Front, Base, UnflushedSize
<1>7. CASE UNCHANGED vars
  BY <1>7 DEF vars, Front, Base, UnflushedSize
<1>8. QED
  BY <1>1, <1>2, <1>3, <1>4, <1>5, <1>6, <1>7 DEF Next, Flush

LEMMA FlowInvariant == ASSUME Roomy PROVE Spec => []Flow
<1>1. TypeOK /\ Flow /\ [Next]_vars => Flow'
  BY FlowNext
<1>2. QED
  BY <1>1, FlowInit, TypeCorrect, PTL DEF Spec

\* Nothing is lost between two characters, repeated or reordered on the way to
\* the client, if an event always fits in the window beside what is unreleased.
THEOREM OrderKept == ASSUME Roomy PROVE Spec => []InOrder
<1>1. Flow => InOrder
  BY DEF Flow, InOrder
<1>2. QED
  BY <1>1, FlowInvariant, PTL

-----------------------------------------------------------------------------
(* Nothing banned passes unnoticed.                                        *)

Guarded ==
  errs = 0 => \A s \in spans : s[2] <= Front(window) => hit /\ ~ShouldBlock

\* Only a release moves the front of what the client has.
LEMMA FrontMoves ==
  ASSUME Roomy, TypeOK, Flow, [Next]_vars, ~FlushReleases
  PROVE  Front(window') = Front(window) /\ UNCHANGED <<request, errs>> /\ (hit => hit')
<1>1. CASE ReadEvent
  <2>1. PICK n \in 0..MaxEvent : window' = WindowAppend(window, n)
    BY <1>1 DEF ReadEvent
  <2>2. n \in Nat /\ n <= MaxEvent /\ UnflushedSize(window) < Threshold
    BY <1>1, Sizes DEF ReadEvent, Flow
  <2>3. UnflushedSize(window) + n <= MaxSize
    BY <2>2, Sizes DEF Roomy, UnflushedSize, Window, TypeOK
  <2>4. Front(window') = Front(window)
    BY <2>1, <2>2, <2>3, AppendEffect DEF TypeOK
  <2>5. QED
    BY <1>1, <2>4 DEF ReadEvent
<1>2. CASE ReadEnd
  BY <1>2 DEF ReadEnd
<1>3. CASE FlushNothing
  BY <1>3 DEF FlushNothing
<1>4. CASE FlushBlocks
  BY <1>4 DEF FlushBlocks
<1>5. CASE Finish
  BY <1>5 DEF Finish
<1>6. CASE UNCHANGED vars
  BY <1>6 DEF vars
<1>7. QED
  BY <1>1, <1>2, <1>3, <1>4, <1>5, <1>6 DEF Next, Flush

\* A span that the next chunk would complete is still whole in the window, so
\* the scan before the chunk sees it.
LEMMA SpanInWindow ==
  ASSUME Remembers, TypeOK, Flow, pc \in {"flush", "tail"}, NEW s \in spans,
         Front(window) < s[2], s[2] <= Front(window) + FlushSize(window)
  PROVE  Hit
<1>1. /\ s[1] \in Nat /\ s[2] \in Nat
      /\ 1 <= s[1] /\ s[1] <= s[2] /\ s[2] - s[1] < TokenLen
  BY SpanShape DEF TypeOK, Span
<1>2. /\ window.hi \in Nat /\ window.size \in Nat /\ window.off \in Nat
      /\ window.off <= window.size /\ window.size <= window.hi
  BY DEF TypeOK, Window
<1>3. FlushSize(window) \in Nat /\ FlushSize(window) <= UnflushedSize(window)
  BY FlushSizeBounds DEF TypeOK
<1>4. s[2] <= window.hi
  BY <1>1, <1>2, <1>3 DEF Front, Base, UnflushedSize
<1>5. window.size - window.off < MaxEvent + Threshold
  BY DEF Flow, UnflushedSize
<1>6. window.hi - window.size < s[1]
  <2>1. CASE window.size = window.hi
    BY <2>1, <1>1, <1>2
  <2>2. CASE window.size = MaxSize
    <3>1. window.hi - window.size + window.off < s[2]
      BY DEF Front, Base
    <3>2. MaxEvent + Threshold + TokenLen - 2 <= MaxSize
      BY DEF Remembers
    <3>3. QED
      BY <2>2, <3>1, <3>2, <1>1, <1>2, <1>5, Sizes
  <2>3. QED
    BY <2>1, <2>2 DEF Flow
<1>7. QED
  BY <1>4, <1>6 DEF Hit, Base

LEMMA GuardedNext ==
  ASSUME Roomy, Remembers, TypeOK, Flow, Guarded, [Next]_vars
  PROVE  Guarded'
<1>1. CASE ~FlushReleases
  <2>1. Front(window') = Front(window) /\ UNCHANGED <<spans, policy, auditOnly, errs>>
          /\ (hit => hit')
    BY <1>1, FrontMoves DEF request
  <2>2. ShouldBlock' = ShouldBlock
    BY <2>1 DEF ShouldBlock
  <2>3. QED
    BY <2>1, <2>2 DEF Guarded
<1>2. CASE FlushReleases
  <2>1. /\ Scanned /\ pc \in {"flush", "tail"}
        /\ UNCHANGED <<spans, policy, auditOnly>> /\ window' = WindowFlush(window)
    BY <1>2 DEF FlushReleases, request
  <2>2. ShouldBlock' = ShouldBlock
    BY <2>1 DEF ShouldBlock
  <2>3. Front(window') = Front(window) + FlushSize(window)
    BY <2>1, FlushEffect, FlushSizeBounds DEF TypeOK, Front, Base, Window
  <2> SUFFICES ASSUME errs' = 0, NEW s \in spans, s[2] <= Front(window')
               PROVE  hit' /\ ~ShouldBlock
    BY <2>1, <2>2 DEF Guarded
  <2>4. errs' # errs + 1 /\ errs = 0 /\ (hit => hit')
    BY <2>1 DEF Scanned, TypeOK
  <2>5. CASE s[2] <= Front(window)
    BY <2>4, <2>5 DEF Guarded
  <2>6. CASE ~(s[2] <= Front(window))
    <3>1. s[2] \in Nat /\ Front(window) \in Nat
      BY SpanShape DEF TypeOK, Span, Front, Base, Window
    <3>2. Hit
      BY <3>1, <2>1, <2>3, <2>6, SpanInWindow
    <3>3. QED
      BY <3>2, <2>1, <2>4 DEF Scanned
  <2>7. QED
    BY <2>5, <2>6
<1>3. QED
  BY <1>1, <1>2

LEMMA GuardedInvariant == ASSUME Roomy, Remembers PROVE Spec => []Guarded
<1>1. Init => Guarded
  <2> SUFFICES ASSUME Init, NEW s \in spans PROVE ~(s[2] <= Front(window))
    BY DEF Guarded
  <2>1. Front(window) = 0
    BY DEF Init, EmptyWindow, Front, Base
  <2>2. s[1] \in Nat /\ s[2] \in Nat /\ 1 <= s[1] /\ s[1] <= s[2]
    BY SpanShape DEF Init, Span
  <2>3. QED
    BY <2>1, <2>2
<1>2. TypeOK /\ Flow /\ Guarded /\ [Next]_vars => Guarded'
  BY GuardedNext
<1>3. QED
  BY <1>1, <1>2, TypeCorrect, FlowInvariant, PTL DEF Spec

\* While blocking is enforced and no detection fails, the character that
\* completes a banned text never reaches the client, for every window that holds
\* an event, a threshold and a banned text together.
THEOREM NothingLeaks == ASSUME Roomy, Remembers PROVE Spec => []NoLeak
<1>1. TypeOK /\ Flow /\ Guarded => NoLeak
  <2> SUFFICES ASSUME TypeOK, Flow, Guarded, ShouldBlock, errs = 0,
                      NEW s \in spans, NEW i \in 1..Len(client), client[i] = s[2]
               PROVE  FALSE
    BY DEF NoLeak
  <2>1. s[2] = i /\ i <= Front(window)
    BY DEF Flow, TypeOK
  <2>2. QED
    BY <2>1 DEF Guarded
<1>2. QED
  BY <1>1, TypeCorrect, FlowInvariant, GuardedInvariant, PTL

\* In the same windows, a banned text that an audit policy lets pass is on
\* record when its last character is sent.
THEOREM AuditRecords == ASSUME Roomy, Remembers PROVE Spec => []AuditSees
<1>1. TypeOK /\ Flow /\ Guarded => AuditSees
  <2> SUFFICES ASSUME TypeOK, Flow, Guarded, errs = 0,
                      NEW s \in spans, NEW i \in 1..Len(client), client[i] = s[2]
               PROVE  hit
    BY DEF AuditSees
  <2>1. s[2] = i /\ i <= Front(window)
    BY DEF Flow, TypeOK
  <2>2. QED
    BY <2>1 DEF Guarded
<1>2. QED
  BY <1>1, TypeCorrect, FlowInvariant, GuardedInvariant, PTL

-----------------------------------------------------------------------------
(* A stream that is not cut is delivered to its end.                       *)

Ending ==
  /\ pc \notin {"finish", "end"} => status = "open"
  /\ pc = "finish" => status \in {"open", "cut"}
  /\ pc = "tail" => UnflushedSize(window) <= Threshold
  /\ pc = "finish" /\ status = "open" => UnflushedSize(window) = 0
  /\ status = "done" => UnflushedSize(window) = 0

LEMMA EndingNext ==
  ASSUME SmallEvents, TypeOK, Flow, Ending, [Next]_vars
  PROVE  Ending'
<1> USE DEF Ending
<1>0. UnflushedSize(window) \in Nat
  BY DEF TypeOK, Window, UnflushedSize
<1>1. CASE ReadEvent
  BY <1>1 DEF ReadEvent
<1>2. CASE ReadEnd
  <2>1. UnflushedSize(window) <= Threshold
    BY <1>2, <1>0, Sizes DEF ReadEnd, Flow
  <2>2. QED
    BY <1>2, <2>1 DEF ReadEnd, UnflushedSize
<1>3. CASE FlushNothing
  <2>1. UnflushedSize(window) <= Threshold
    BY <1>3, <1>0, Sizes DEF FlushNothing
  <2>2. pc = "tail" => UnflushedSize(window) = 0
    BY <1>3 DEF FlushNothing, Final
  <2>3. pc' # "end" /\ (pc' = "finish" => pc = "tail")
    BY <1>3 DEF FlushNothing, FlushReturnsFalse
  <2>4. QED
    BY <1>3, <2>1, <2>2, <2>3 DEF FlushNothing, UnflushedSize
<1>4. CASE FlushBlocks
  BY <1>4 DEF FlushBlocks, FlushReturnsTrue
<1>5. CASE FlushReleases
  <2>1. /\ UnflushedSize(window') = UnflushedSize(window) - FlushSize(window)
        /\ status' = status /\ status = "open" /\ pc \in {"flush", "tail"}
    <3>1. window' = WindowFlush(window) /\ status' = status /\ pc \in {"flush", "tail"}
      BY <1>5 DEF FlushReleases
    <3>2. window'.size = window.size /\ window'.off = window.off + FlushSize(window)
            /\ FlushSize(window) \in Nat
      BY <3>1, FlushEffect, FlushSizeBounds DEF TypeOK
    <3>3. UnflushedSize(window') = UnflushedSize(window) - FlushSize(window)
      BY <3>2 DEF UnflushedSize, TypeOK, Window
    <3>4. QED
      BY <3>1, <3>3
  <2>2. CASE pc = "tail"
    <3>1. UnflushedSize(window') = 0
      BY <2>1, <2>2, <1>0, Sizes DEF FlushSize
    <3>2. pc' = "finish"
      BY <1>5, <2>2 DEF FlushReleases, FlushReturnsFalse, Final
    <3>3. QED
      BY <2>1, <3>1, <3>2
  <2>3. CASE pc = "flush" /\ last
    <3>1. UnflushedSize(window) < MaxEvent + Threshold
      BY <2>3 DEF Flow
    <3>2. UnflushedSize(window') <= Threshold
      BY <2>1, <3>1, <1>0, Sizes DEF FlushSize, SmallEvents
    <3>3. pc' = "tail"
      BY <1>5, <2>3 DEF FlushReleases, FlushReturnsFalse, Final
    <3>4. QED
      BY <2>1, <3>2, <3>3
  <2>4. CASE pc = "flush" /\ ~last
    BY <1>5, <2>1, <2>4 DEF FlushReleases, Final
  <2>5. QED
    BY <2>1, <2>2, <2>3, <2>4
<1>6. CASE Finish
  BY <1>6 DEF Finish, UnflushedSize
<1>7. CASE UNCHANGED vars
  BY <1>7 DEF vars, UnflushedSize
<1>8. QED
  BY <1>1, <1>2, <1>3, <1>4, <1>5, <1>6, <1>7 DEF Next, Flush

LEMMA EndingInvariant == ASSUME Roomy, SmallEvents PROVE Spec => []Ending
<1>1. Init => Ending
  BY DEF Init, Ending
<1>2. TypeOK /\ Flow /\ Ending /\ [Next]_vars => Ending'
  BY EndingNext
<1>3. QED
  BY <1>1, <1>2, TypeCorrect, FlowInvariant, PTL DEF Spec

\* A response that ends with [DONE] and not with the termination frame was
\* delivered completely, if no event is larger than Threshold + 1 characters.
THEOREM DeliveryIsComplete ==
  ASSUME Roomy, SmallEvents PROVE Spec => []CompleteDelivery
<1>1. TypeOK /\ Flow /\ Ending => CompleteDelivery
  <2> SUFFICES ASSUME TypeOK, Flow, Ending, status = "done" PROVE Len(client) = window.hi
    BY DEF CompleteDelivery
  <2>1. Len(client) = Front(window) /\ UnflushedSize(window) = 0
    BY DEF Flow, Ending
  <2>2. QED
    BY <2>1 DEF Front, Base, UnflushedSize, TypeOK, Window
<1>2. QED
  BY <1>1, TypeCorrect, FlowInvariant, EndingInvariant, PTL

-----------------------------------------------------------------------------
(* The handler implements StreamPromise.                                   *)

LEMMA PromiseInit == Init => Promise!Init
<1> SUFFICES ASSUME Init PROVE Promise!Init
  OBVIOUS
<1>1. window.hi = 0 /\ Len(client) = 0 /\ errs = 0 /\ status = "open"
  BY DEF Init, EmptyWindow
<1>2. Barred \subseteq Nat
  BY SpanShape DEF Init, Barred, Span
<1>3. QED
  BY <1>1, <1>2 DEF Promise!Init

LEMMA PromiseNext ==
  ASSUME Roomy, Remembers, SmallEvents, TypeOK, Flow, Guarded, Ending,
         [Next]_vars, Flow', Guarded', TypeOK'
  PROVE  [Promise!Next]_(Promise!vars)
<1>0. /\ Len(client) = Front(window) /\ Len(client') = Front(window')
      /\ window.hi \in Nat /\ window'.hi \in Nat
      /\ Front(window) \in Nat /\ Front(window') \in Nat
      /\ Front(window) <= window.hi /\ Front(window') <= window'.hi
  BY DEF Flow, TypeOK, Window, Front, Base
<1>1. UNCHANGED <<policy, auditOnly, spans>> /\ Barred' = Barred
  <2>1. UNCHANGED <<policy, auditOnly, spans>>
    BY DEF Next, Flush, ReadEvent, ReadEnd, FlushNothing, FlushBlocks, FlushReleases, Finish,
           vars, request
  <2>2. QED
    BY <2>1 DEF Barred, ShouldBlock
<1>2. CASE ReadEvent
  <2>1. PICK n \in 0..MaxEvent : window' = WindowAppend(window, n)
    BY <1>2 DEF ReadEvent
  <2>2. window'.hi = window.hi + n /\ n \in Nat
    BY <2>1, Sizes DEF WindowAppend
  <2>3. status = "open" /\ UNCHANGED <<client, errs, status>>
    BY <1>2 DEF ReadEvent, Ending
  <2>4. Promise!Arrive
    BY <1>0, <1>1, <2>2, <2>3 DEF Promise!Arrive
  <2>5. QED
    BY <2>4 DEF Promise!Next
<1>3. CASE ReadEnd \/ FlushNothing \/ UNCHANGED vars
  <2>1. UNCHANGED <<window, client, errs, status>>
    BY <1>3 DEF ReadEnd, FlushNothing, vars
  <2>2. QED
    BY <1>1, <2>1 DEF Promise!vars
<1>4. CASE FlushBlocks
  <2>1. status = "open" /\ status' = "cut" /\ UNCHANGED <<window, client, errs>>
    BY <1>4 DEF FlushBlocks, Ending
  <2>2. \E p \in Barred : p <= window.hi
    BY <1>4 DEF FlushBlocks, Hit, Barred
  <2>3. Promise!Cut
    BY <1>1, <2>1, <2>2 DEF Promise!Cut
  <2>4. QED
    BY <2>3 DEF Promise!Next
<1>5. CASE FlushReleases
  <2>1. status = "open" /\ status' = status /\ Scanned /\ window' = WindowFlush(window)
    BY <1>5 DEF FlushReleases, Ending
  <2>2. window'.hi = window.hi /\ Front(window) <= Front(window')
    <3>1. window'.hi = window.hi /\ window'.size = window.size
            /\ window'.off = window.off + FlushSize(window) /\ FlushSize(window) \in Nat
      BY <2>1, FlushEffect, FlushSizeBounds DEF TypeOK
    <3>2. QED
      BY <3>1 DEF Front, Base, TypeOK, Window
  <2>3. errs' = 0 => errs = 0
    BY <2>1 DEF Scanned, TypeOK
  <2>4. (errs' = 0) \in {(errs = 0), FALSE}
    BY <2>3
  <2>5. errs' = 0 => \A p \in Barred : ~(Len(client) < p /\ p <= Len(client'))
    <3> SUFFICES ASSUME errs' = 0, NEW p \in Barred, p <= Len(client') PROVE FALSE
      OBVIOUS
    <3>1. PICK s \in spans : p = s[2]
      BY DEF Barred
    <3>2. ShouldBlock /\ ShouldBlock' = ShouldBlock
      BY <1>1 DEF Barred, ShouldBlock
    <3>3. s \in spans' /\ s[2] <= Front(window')
      BY <3>1, <1>0, <1>1
    <3>4. QED
      BY <3>2, <3>3 DEF Guarded
  <2>6. Promise!Deliver
    BY <1>0, <1>1, <2>1, <2>2, <2>4, <2>5 DEF Promise!Deliver
  <2>7. QED
    BY <2>6 DEF Promise!Next
<1>6. CASE Finish
  <2>1. UNCHANGED <<window, client, errs>> /\ status \in {"open", "cut"}
    BY <1>6 DEF Finish, Ending
  <2>2. CASE status = "open"
    <3>1. Len(client) = window.hi
      <4>1. UnflushedSize(window) = 0
        BY <1>6, <2>2 DEF Finish, Ending
      <4>2. QED
        BY <4>1, <1>0 DEF Front, Base, UnflushedSize, TypeOK, Window
    <3>2. Promise!Finish
      BY <1>1, <1>6, <2>1, <2>2, <3>1 DEF Finish, Promise!Finish
    <3>3. QED
      BY <3>2 DEF Promise!Next
  <2>3. CASE status = "cut"
    BY <1>1, <1>6, <2>1, <2>3 DEF Finish, Promise!vars
  <2>4. QED
    BY <2>1, <2>2, <2>3
<1>7. QED
  BY <1>2, <1>3, <1>4, <1>5, <1>6 DEF Next, Flush

\* Every behaviour of the handler is one the promise allows.
THEOREM PromiseKept ==
  ASSUME Roomy, Remembers, SmallEvents PROVE Spec => PromiseSpec
<1>1. ASSUME TypeOK, Flow, Guarded, Ending, [Next]_vars, TypeOK', Flow', Guarded'
      PROVE  [Promise!Next]_(Promise!vars)
  BY <1>1, PromiseNext
<1>2. QED
  BY <1>1, PromiseInit, TypeCorrect, FlowInvariant, GuardedInvariant, EndingInvariant, PTL
     DEF Spec, PromiseSpec, Promise!Spec

-----------------------------------------------------------------------------
(* The loop of flushBuffered.                                              *)

Advances == pc' # pc \/ UnflushedSize(window') < UnflushedSize(window)

\* What stands behind FlushEnds: every turn of flushBuffered's loop leaves the
\* loop or leaves less in the window to be released, for every positive
\* threshold and whatever the scans answer.
THEOREM FlushAdvances ==
  Spec => [](UnflushedSize(window) \in Nat) /\ [][Flush => Advances]_vars
<1>1. ASSUME TypeOK PROVE UnflushedSize(window) \in Nat
  BY <1>1 DEF TypeOK, Window, UnflushedSize
<1>2. ASSUME TypeOK, Flush PROVE Advances
  <2>1. CASE FlushNothing
    BY <2>1 DEF FlushNothing, FlushReturnsFalse, Advances
  <2>2. CASE FlushBlocks
    BY <2>2 DEF FlushBlocks, FlushReturnsTrue, Advances
  <2>3. CASE FlushReleases
    <3>1. FlushSize(window) \in Nat \ {0}
      BY <1>1, <1>2, <2>3, Sizes DEF FlushReleases, FlushSize
    <3>2. window'.size = window.size /\ window'.off = window.off + FlushSize(window)
      BY <1>2, <2>3, <3>1 DEF FlushReleases, WindowFlush, TypeOK, Window
    <3>3. QED
      BY <1>2, <3>1, <3>2 DEF Advances, UnflushedSize, TypeOK, Window
  <2>4. QED
    BY <1>2, <2>1, <2>2, <2>3 DEF Flush
<1>3. QED
  BY <1>1, <1>2, TypeCorrect, PTL DEF Spec

-----------------------------------------------------------------------------
(* The three numbers of a window stand for the buffer of SlidingWindow.    *)

SW == INSTANCE SlidingWindow WITH maxSize <- MaxSize, flushThreshold <- Threshold

\* The buffer of sw shows what w says: the last w.size runes of the text.
Shows(w, text, sw, Runes) ==
  /\ w \in Window /\ w.off <= w.size /\ w.size <= MaxSize /\ w.size <= w.hi
  /\ text \in Seq(Runes) /\ Len(text) = w.hi
  /\ sw.buffer \in Seq(Runes) /\ Len(sw.buffer) = w.size
  /\ sw.flushOffset = w.off
  /\ \A i \in 1..w.size : sw.buffer[i] = text[Base(w) + i]

\* What sw flushes is the text at the positions that w names.
Handed(w, text, sw) ==
  /\ Len(SW!Flushed(sw)) = FlushSize(w)
  /\ \A i \in 1..FlushSize(w) : SW!Flushed(sw)[i] = text[Chunk(w)[i]]

\* A slice, as Go cuts it.
LEMMA SliceProperties ==
  ASSUME NEW S, NEW s \in Seq(S), NEW a \in Nat, NEW b \in Nat, a <= b, b <= Len(s)
  PROVE  /\ SubSeq(s, a + 1, b) \in Seq(S)
         /\ Len(SubSeq(s, a + 1, b)) = b - a
         /\ \A i \in 1..b - a : SubSeq(s, a + 1, b)[i] = s[a + i]
<1> DEFINE m == a + 1
<1>1. m \in Int /\ b \in Int /\ b - m + 1 = b - a /\ \A i \in Int : m + i - 1 = a + i
  OBVIOUS
<1>2. \A i \in m..b : s[i] \in S
  BY LenProperties, ElementOfSeq
<1>3. (IF m <= b THEN b - m + 1 ELSE 0) = b - a
  OBVIOUS
<1> HIDE DEF m
<1>4. /\ SubSeq(s, m, b) \in Seq(S)
      /\ Len(SubSeq(s, m, b)) = IF m <= b THEN b - m + 1 ELSE 0
      /\ \A i \in 1..b - m + 1 : SubSeq(s, m, b)[i] = s[m + i - 1]
  BY <1>1, <1>2, SubSeqProperties
<1>5. \A i \in 1..b - a : SubSeq(s, m, b)[i] = s[a + i]
  BY <1>1, <1>4
<1>6. QED
  BY <1>3, <1>4, <1>5 DEF m

\* Append, on the runes and on the numbers.
LEMMA AppendShows ==
  ASSUME NEW Runes, NEW text, NEW sw, NEW w, Shows(w, text, sw, Runes),
         NEW runes \in Seq(Runes)
  PROVE  Shows(WindowAppend(w, Len(runes)), text \o runes, SW!AppendRunes(sw, runes), Runes)
<1> DEFINE n == Len(runes)
           joined == sw.buffer \o runes
           whole == text \o runes
           overflow == Len(joined) - MaxSize
           v == WindowAppend(w, n)
           new == SW!AppendRunes(sw, runes)
<1>1. /\ w \in Window /\ w.off <= w.size /\ w.size <= MaxSize /\ w.size <= w.hi
      /\ text \in Seq(Runes) /\ Len(text) = w.hi /\ sw.buffer \in Seq(Runes)
      /\ Len(sw.buffer) = w.size /\ sw.flushOffset = w.off
      /\ \A i \in 1..w.size : sw.buffer[i] = text[w.hi - w.size + i]
  BY DEF Shows, Base
<1>2. /\ n \in Nat /\ MaxSize \in Nat
      /\ w.hi \in Nat /\ w.size \in Nat /\ w.off \in Nat
  BY <1>1, Sizes, LenProperties DEF Window
<1>3. /\ joined \in Seq(Runes) /\ Len(joined) = w.size + n
      /\ \A i \in 1..w.size + n :
           joined[i] = IF i <= w.size THEN sw.buffer[i] ELSE runes[i - w.size]
  BY <1>1, ConcatProperties
<1>4. /\ whole \in Seq(Runes) /\ Len(whole) = w.hi + n
      /\ \A i \in 1..w.hi + n : whole[i] = IF i <= w.hi THEN text[i] ELSE runes[i - w.hi]
  BY <1>1, ConcatProperties
<1>5. /\ v \in Window /\ v.off <= v.size /\ v.size <= MaxSize /\ v.size <= v.hi
      /\ v.hi = w.hi + n
  BY <1>1, <1>2, AppendEffect
<1>6. /\ overflow = w.size + n - MaxSize /\ overflow \in Int
      /\ overflow > 0 => /\ v.size = MaxSize
                         /\ v.off = IF w.off > overflow THEN w.off - overflow ELSE 0
      /\ ~(overflow > 0) => v.size = w.size + n /\ v.off = w.off
  BY <1>2, <1>3 DEF WindowAppend
<1>7. /\ overflow > 0 =>
           /\ new.buffer = SubSeq(joined, overflow + 1, Len(joined))
           /\ new.flushOffset = IF w.off > overflow THEN w.off - overflow ELSE 0
      /\ ~(overflow > 0) => new.buffer = joined /\ new.flushOffset = w.off
  BY <1>1 DEF SW!AppendRunes
<1> SUFFICES Shows(v, whole, new, Runes)
  OBVIOUS
<1> HIDE DEF n, joined, whole, overflow, v, new
<1>8. \A i \in 1..w.size + n : joined[i] = whole[w.hi - w.size + i]
  <2> SUFFICES ASSUME NEW i \in 1..w.size + n
               PROVE  joined[i] = whole[w.hi - w.size + i]
    OBVIOUS
  <2>1. w.hi - w.size + i \in 1..w.hi + n /\ i \in Int
    BY <1>1, <1>2
  <2>2. CASE i <= w.size
    <3>1. joined[i] = text[w.hi - w.size + i]
      BY <1>1, <1>2, <1>3, <2>1, <2>2
    <3>2. QED
      BY <1>2, <1>4, <2>1, <2>2, <3>1
  <2>3. CASE i > w.size
    <3>1. joined[i] = runes[i - w.size]
      BY <1>2, <1>3, <2>1, <2>3
    <3>2. whole[w.hi - w.size + i] = runes[(w.hi - w.size + i) - w.hi]
      <4> DEFINE j == w.hi - w.size + i
      <4>1. ~(j <= w.hi) /\ j \in 1..w.hi + n
        BY <1>2, <2>1, <2>3
      <4> HIDE DEF j
      <4>2. whole[j] = runes[j - w.hi]
        BY <1>4, <4>1
      <4>3. QED
        BY <4>2 DEF j
    <3>3. (w.hi - w.size + i) - w.hi = i - w.size
      BY <1>2, <2>1
    <3>4. QED
      BY <3>1, <3>2, <3>3
  <2>4. QED
    BY <1>2, <2>1, <2>2, <2>3
<1>9. CASE overflow > 0
  <2>1. /\ v.hi = w.hi + n /\ v.size = MaxSize /\ new.flushOffset = v.off
        /\ new.buffer = SubSeq(joined, overflow + 1, Len(joined))
    BY <1>5, <1>6, <1>7, <1>9
  <2>2. overflow \in Nat /\ overflow = w.size + n - MaxSize /\ Len(joined) = w.size + n
    BY <1>2, <1>3, <1>6, <1>9
  <2>3. /\ Len(joined) \in Nat /\ overflow <= Len(joined)
        /\ Len(joined) - overflow = MaxSize
    BY <1>2, <2>2
  <2>4. /\ new.buffer \in Seq(Runes) /\ Len(new.buffer) = Len(joined) - overflow
        /\ \A i \in 1..Len(joined) - overflow : new.buffer[i] = joined[overflow + i]
    BY <1>3, <2>1, <2>2, <2>3, SliceProperties
  <2>5. ASSUME NEW i \in 1..MaxSize
        PROVE  new.buffer[i] = whole[v.hi - v.size + i]
    <3>1. overflow + i \in 1..w.size + n
      BY <1>2, <2>2
    <3>2. w.hi - w.size + (overflow + i) = v.hi - v.size + i
      <4>1. i \in Int /\ v.hi = w.hi + n /\ v.size = MaxSize /\ overflow = w.size + n - MaxSize
        BY <2>1, <2>2
      <4>2. w.hi - w.size + ((w.size + n - MaxSize) + i) = (w.hi + n) - MaxSize + i
        BY <1>2, <4>1
      <4>3. QED
        BY <4>1, <4>2
    <3>3. new.buffer[i] = joined[overflow + i]
      BY <2>3, <2>4
    <3>4. joined[overflow + i] = whole[w.hi - w.size + (overflow + i)]
      BY <1>8, <3>1
    <3>5. QED
      BY <3>2, <3>3, <3>4
  <2>6. QED
    BY <1>4, <1>5, <2>1, <2>3, <2>4, <2>5 DEF Shows, Base
<1>10. CASE ~(overflow > 0)
  <2>1. v.size = w.size + n /\ v.off = w.off /\ new.buffer = joined /\ new.flushOffset = w.off
    BY <1>6, <1>7, <1>10
  <2>2. w.hi - w.size = v.hi - v.size
    BY <1>2, <1>5, <2>1
  <2>3. QED
    BY <1>3, <1>4, <1>5, <1>8, <2>1, <2>2 DEF Shows, Base
<1>11. QED
  BY <1>9, <1>10

\* Flush or FlushAll, on the runes and on the numbers: the slice handed to the
\* client is the text at the positions of Chunk.
LEMMA FlushShows ==
  ASSUME NEW Runes, NEW text, NEW sw, NEW w, Shows(w, text, sw, Runes)
  PROVE  /\ Shows(WindowFlush(w), text, SW!Flush(sw), Runes)
         /\ Handed(w, text, sw)
<1>1. /\ w \in Window /\ w.off <= w.size /\ w.size <= w.hi
      /\ text \in Seq(Runes) /\ Len(text) = w.hi /\ sw.buffer \in Seq(Runes)
      /\ Len(sw.buffer) = w.size /\ sw.flushOffset = w.off
      /\ \A i \in 1..w.size : sw.buffer[i] = text[Base(w) + i]
  BY DEF Shows
<1>2. w.hi \in Nat /\ w.size \in Nat /\ w.off \in Nat /\ Threshold \in Nat
  BY <1>1, Sizes DEF Window
<1>3. FlushSize(w) \in Nat /\ FlushSize(w) <= w.size - w.off
  BY <1>1, FlushSizeBounds DEF UnflushedSize
<1>4. SW!FlushEnd(sw) = w.off + FlushSize(w)
  BY <1>1, <1>2 DEF SW!FlushEnd, SW!UnflushedSize, FlushSize, UnflushedSize
<1>5. Shows(WindowFlush(w), text, SW!Flush(sw), Runes)
  <2>1. /\ WindowFlush(w) \in Window /\ WindowFlush(w).hi = w.hi /\ WindowFlush(w).size = w.size
        /\ WindowFlush(w).off = w.off + FlushSize(w) /\ WindowFlush(w).off <= w.size
    BY <1>1, FlushEffect
  <2>2. SW!Flush(sw).buffer = sw.buffer /\ SW!Flush(sw).flushOffset = w.off + FlushSize(w)
    BY <1>4 DEF SW!Flush
  <2>3. QED
    BY <2>1, <2>2 DEF Shows, Base
<1>6. /\ Len(SW!Flushed(sw)) = FlushSize(w)
      /\ \A i \in 1..FlushSize(w) : SW!Flushed(sw)[i] = sw.buffer[w.off + i]
  <2> DEFINE e == w.off + FlushSize(w)
  <2>1. e \in Nat /\ w.off <= e /\ e <= w.size /\ e - w.off = FlushSize(w)
    BY <1>2, <1>3
  <2>2. SW!Flushed(sw) = SubSeq(sw.buffer, w.off + 1, e)
    BY <1>1, <1>4 DEF SW!Flushed
  <2> HIDE DEF e
  <2>3. /\ Len(SubSeq(sw.buffer, w.off + 1, e)) = e - w.off
        /\ \A i \in 1..e - w.off : SubSeq(sw.buffer, w.off + 1, e)[i] = sw.buffer[w.off + i]
    <3>1. sw.buffer \in Seq(Runes) /\ w.off \in Nat /\ e <= Len(sw.buffer)
      BY <1>1, <1>2, <2>1
    <3>2. QED
      BY <2>1, <3>1, SliceProperties
  <2>4. QED
    BY <2>1, <2>2, <2>3
<1>7. ASSUME NEW i \in 1..FlushSize(w)
      PROVE  SW!Flushed(sw)[i] = text[Chunk(w)[i]]
  <2>1. Chunk(w)[i] = Base(w) + (w.off + i)
    BY <1>2, <1>3 DEF Chunk, Front, Base
  <2>2. w.off + i \in 1..w.size
    BY <1>2, <1>3
  <2>3. QED
    BY <1>1, <1>6, <2>1, <2>2
<1>8. QED
  BY <1>5, <1>6, <1>7 DEF Handed

\* A text of which Hit says that it is in the buffer is there, at the place its
\* positions say.
LEMMA BufferShows ==
  ASSUME NEW Runes, NEW text, NEW sw, NEW w, Shows(w, text, sw, Runes),
         NEW s \in Span, Base(w) < s[1], s[2] <= w.hi
  PROVE  \A p \in s[1]..s[2] :
           p - Base(w) \in 1..Len(sw.buffer) /\ sw.buffer[p - Base(w)] = text[p]
<1>1. /\ w \in Window /\ w.size <= w.hi /\ Len(sw.buffer) = w.size
      /\ \A i \in 1..w.size : sw.buffer[i] = text[Base(w) + i]
  BY DEF Shows
<1>2. w.hi \in Nat /\ w.size \in Nat /\ s[1] \in Nat /\ s[2] \in Nat
      /\ w.hi - w.size < s[1] /\ s[2] <= w.hi
  BY <1>1 DEF Span, Window, Base
<1>3. ASSUME NEW p \in s[1]..s[2]
      PROVE  p - Base(w) \in 1..Len(sw.buffer) /\ sw.buffer[p - Base(w)] = text[p]
  <2>1. p \in Int /\ w.hi - w.size < p /\ p <= w.hi
    BY <1>2, <1>3
  <2>2. p - Base(w) \in 1..w.size /\ Base(w) + (p - Base(w)) = p
    BY <1>2, <2>1 DEF Base
  <2>3. QED
    BY <1>1, <2>2
<1>4. QED
  BY <1>3

\* StreamGate's window, three numbers, is the buffer of SlidingWindow: it is so
\* at the beginning, Append and Flush or FlushAll keep it so, what is flushed is
\* the text at the positions of Chunk, and what Hit looks for lies in the buffer.
THEOREM WindowIsBuffer ==
  /\ \A Runes : Shows(EmptyWindow, <<>>, SW!NewSlidingWindow, Runes)
  /\ \A Runes, text, sw, w : Shows(w, text, sw, Runes) =>
       /\ \A runes \in Seq(Runes) :
            Shows(WindowAppend(w, Len(runes)), text \o runes, SW!AppendRunes(sw, runes), Runes)
       /\ SW!UnflushedSize(sw) = UnflushedSize(w)
       /\ Shows(WindowFlush(w), text, SW!Flush(sw), Runes)
       /\ Handed(w, text, sw)
       /\ \A s \in Span : Base(w) < s[1] /\ s[2] <= w.hi =>
            \A p \in s[1]..s[2] : sw.buffer[p - Base(w)] = text[p]
<1>1. ASSUME NEW Runes PROVE Shows(EmptyWindow, <<>>, SW!NewSlidingWindow, Runes)
  <2>1. <<>> \in Seq(Runes) /\ Len(<<>>) = 0
    BY EmptySeq
  <2>2. EmptyWindow \in Window
    BY DEF EmptyWindow, Window
  <2>3. QED
    BY <2>1, <2>2, Sizes DEF Shows, EmptyWindow, SW!NewSlidingWindow
<1>2. ASSUME NEW Runes, NEW text, NEW sw, NEW w, Shows(w, text, sw, Runes)
      PROVE  /\ \A runes \in Seq(Runes) :
                  Shows(WindowAppend(w, Len(runes)), text \o runes, SW!AppendRunes(sw, runes), Runes)
             /\ SW!UnflushedSize(sw) = UnflushedSize(w)
             /\ Shows(WindowFlush(w), text, SW!Flush(sw), Runes)
             /\ Handed(w, text, sw)
             /\ \A s \in Span : Base(w) < s[1] /\ s[2] <= w.hi =>
                  \A p \in s[1]..s[2] : sw.buffer[p - Base(w)] = text[p]
  <2>1. \A runes \in Seq(Runes) :
          Shows(WindowAppend(w, Len(runes)), text \o runes, SW!AppendRunes(sw, runes), Runes)
    BY <1>2, AppendShows
  <2>2. SW!UnflushedSize(sw) = UnflushedSize(w)
    BY <1>2 DEF Shows, SW!UnflushedSize, UnflushedSize
  <2>3. Shows(WindowFlush(w), text, SW!Flush(sw), Runes)
    BY <1>2, FlushShows
  <2>4. Handed(w, text, sw)
    BY <1>2, FlushShows
  <2>5. ASSUME NEW s \in Span, Base(w) < s[1] /\ s[2] <= w.hi
        PROVE  \A p \in s[1]..s[2] : sw.buffer[p - Base(w)] = text[p]
    BY <1>2, <2>5, BufferShows
  <2>6. QED
    BY <2>1, <2>2, <2>3, <2>4, <2>5
<1>3. QED
  BY <1>1, <1>2, Zenon

=============================================================================
