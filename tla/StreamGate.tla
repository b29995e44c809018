----------------------------- MODULE StreamGate -----------------------------
(***************************************************************************)
(* The scanned SSE path of handleStream (internal/proxy/handler.go) and    *)
(* the sliding window it works on (internal/stream/sliding_window.go).     *)
(*                                                                         *)
(* One goroutine reads the upstream's events, appends their content to the *)
(* window, has the whole window scanned, and releases what has not been    *)
(* released yet in chunks of at most Threshold characters.                 *)
(*                                                                         *)
(* A character is its position in the upstream's content.  The window's    *)
(* buffer always holds the last characters read, so its length and the     *)
(* number read give its contents.  The text matters through spans only:    *)
(* the intervals of positions for which the detectors answer BLOCK.        *)
(***************************************************************************)
EXTENDS Integers, Sequences

CONSTANTS
  MaxSize,    \* detection.stream.window_max_size (500)
  Threshold,  \* detection.stream.window_flush_threshold (50)
  MaxEvent,   \* the most characters one event carries
  TokenLen,   \* the longest span
  SpanSets,   \* the sets of spans a response may contain
  Policies,   \* execution policies a request may have
  StreamLen,  \* bound: characters of one response
  MaxErrs     \* bound: failing detections in one response

Span == {s \in Nat \X Nat : 1 <= s[1] /\ s[1] <= s[2] /\ s[2] - s[1] < TokenLen}

ASSUME Sizes ==
  /\ MaxSize \in Nat /\ Threshold \in Nat \ {0} /\ MaxEvent \in Nat /\ TokenLen \in Nat
  /\ StreamLen \in Nat /\ MaxErrs \in Nat

ASSUME SpanShape == \A S \in SpanSets : S \subseteq Span

ASSUME PolicyNames == Policies \subseteq {"", "force_block", "force_audit"}

VARIABLES
  spans,      \* where the response has banned text
  policy,     \* reqCtx.ExecutionPolicy
  auditOnly,  \* detection.audit_only_mode when the stream began
  window,     \* stream.SlidingWindow, see Window
  last,       \* isDone of the event being handled
  pc,         \* "read", "flush", "tail" (the flush after the loop), "finish", "end"
  client,     \* the positions written to the client, in order
  status,     \* "open", "done" (ended with [DONE]) or "cut" (content filter)
  hit,        \* a detection result has been added to reqCtx
  errs        \* detections that failed so far

request == <<spans, policy, auditOnly>>
vars == <<request, window, last, pc, client, status, hit, errs>>

-----------------------------------------------------------------------------
(* SlidingWindow: hi characters were appended in all, the buffer holds the *)
(* last size of them, and the first off of those have been flushed.        *)

Window == [hi : Nat, size : Nat, off : Nat]
EmptyWindow == [hi |-> 0, size |-> 0, off |-> 0]

Base(w) == w.hi - w.size
Front(w) == Base(w) + w.off
UnflushedSize(w) == w.size - w.off

\* Mutant: the offset is not moved when the buffer is cut.
WindowAppendOffsetKept(w, n) ==
  LET overflow == IF w.size + n > MaxSize THEN w.size + n - MaxSize ELSE 0
  IN  [hi |-> w.hi + n, size |-> w.size + n - overflow, off |-> w.off]

\* Append: the oldest characters beyond MaxSize go, flushed or not.
WindowAppend(w, n) ==
  LET overflow == IF w.size + n > MaxSize THEN w.size + n - MaxSize ELSE 0
  IN  [hi |-> w.hi + n, size |-> w.size + n - overflow,
       off |-> IF w.off > overflow THEN w.off - overflow ELSE 0]

\* Mutant: FlushAll takes as much as Flush.
FlushSizeFixed(w) == Threshold

\* Flush returns Threshold characters, FlushAll everything unflushed.
FlushSize(w) == IF UnflushedSize(w) >= Threshold THEN Threshold ELSE UnflushedSize(w)

WindowFlush(w) == [w EXCEPT !.off = @ + FlushSize(w)]

Chunk(w) == [i \in 1..FlushSize(w) |-> Front(w) + i]

-----------------------------------------------------------------------------
(* The event loop and flushBuffered.                                       *)

\* Mutant: a scan of the unreleased part instead of the whole window.
HitUnflushed == \E s \in spans : Front(window) < s[1] /\ s[2] <= window.hi

\* A text is recognised when all of it is in the buffer.
Hit == \E s \in spans : Base(window) < s[1] /\ s[2] <= window.hi

ShouldBlock ==
  CASE policy = "force_block" -> TRUE
    [] policy = "force_audit" -> FALSE
    [] OTHER -> ~auditOnly

\* parser.ReadEvent and ExtractContentFromSSEData: n characters of content and
\* whether the event is the last (a finish_reason, or [DONE] itself).
ReadEvent ==
  /\ pc = "read"
  /\ \E n \in 0..MaxEvent : \E done \in BOOLEAN :
       /\ window.hi + n <= StreamLen
       /\ window' = WindowAppend(window, n)
       /\ last' = done
  /\ pc' = "flush"
  /\ UNCHANGED <<request, client, status, hit, errs>>

\* End of input or a read error: out of the loop.
ReadEnd ==
  /\ pc = "read"
  /\ pc' = "tail"
  /\ UNCHANGED <<request, window, last, client, status, hit, errs>>

\* flushBuffered's parameter.
Final == pc = "tail" \/ last

\* Mutant: no second final flush after the last event.
FlushReturnsPastTail ==
  pc' \in CASE pc = "tail" -> {"finish"}
            [] pc = "flush" /\ last -> {"finish"}
            [] OTHER -> {"read", "tail"}

\* Where flushBuffered's "return false" leads: in the loop to the next event, or
\* to the tail after the last event or when the client has gone.
FlushReturnsFalse ==
  pc' \in CASE pc = "tail" -> {"finish"}
            [] pc = "flush" /\ last -> {"tail"}
            [] OTHER -> {"read", "tail"}

\* Nothing to flush, or not enough yet and max_delay_ms has not passed.
FlushNothing ==
  /\ pc \in {"flush", "tail"}
  /\ \/ UnflushedSize(window) = 0
     \/ ~Final /\ UnflushedSize(window) < Threshold
  /\ FlushReturnsFalse
  /\ UNCHANGED <<request, window, last, client, status, hit, errs>>

\* Where its "return true" leads: out of the loop to the end.  The tail ignores
\* the answer and goes on to write its [DONE].
FlushReturnsTrue == pc' = IF pc = "tail" THEN "finish" ELSE "end"

\* Mutant: the chunk is written before the termination frame.
FlushBlocksLate ==
  /\ pc \in {"flush", "tail"} /\ UnflushedSize(window) > 0
  /\ Hit /\ ShouldBlock
  /\ hit' = TRUE
  /\ client' = client \o Chunk(window)
  /\ status' = "cut" /\ FlushReturnsTrue
  /\ UNCHANGED <<request, window, last, errs>>

\* streamDetectFunc answers BLOCK and the policy enforces it: the client is
\* sent the termination frame, with a [DONE], and nothing of the window.
FlushBlocks ==
  /\ pc \in {"flush", "tail"} /\ UnflushedSize(window) > 0
  /\ Hit /\ ShouldBlock
  /\ hit' = TRUE
  /\ status' = "cut" /\ FlushReturnsTrue
  /\ UNCHANGED <<request, window, last, client, errs>>

\* The scan finds nothing, fails (and is treated as clean), or its answer is
\* only recorded.
Scanned ==
  \/ ~Hit /\ UNCHANGED <<hit, errs>>
  \/ Hit /\ ~ShouldBlock /\ hit' = TRUE /\ UNCHANGED errs
  \/ errs < MaxErrs /\ errs' = errs + 1 /\ UNCHANGED hit

\* Mutant: after an answer that is only recorded the loop starts over.
FlushReleasesUnlessHit ==
  /\ pc \in {"flush", "tail"} /\ UnflushedSize(window) > 0
  /\ Scanned
  /\ IF Hit
       THEN UNCHANGED <<client, window, pc>>
       ELSE /\ client' = client \o Chunk(window)
            /\ window' = WindowFlush(window)
            /\ IF Final THEN FlushReturnsFalse ELSE UNCHANGED pc
  /\ UNCHANGED <<request, last, status>>

\* The next chunk is released.  A final flush returns after one chunk, the
\* others go on until too little is left.
FlushReleases ==
  /\ pc \in {"flush", "tail"} /\ UnflushedSize(window) > 0
  /\ Scanned
  /\ client' = client \o Chunk(window)
  /\ window' = WindowFlush(window)
  /\ IF Final THEN FlushReturnsFalse ELSE UNCHANGED pc
  /\ UNCHANGED <<request, last, status>>

\* data: [DONE], and reqCtx.Complete().  A stream cut in the tail has ended before:
\* it is the second [DONE] there.
Finish ==
  /\ pc = "finish"
  /\ status' = (IF status = "cut" THEN "cut" ELSE "done") /\ pc' = "end"
  /\ UNCHANGED <<request, window, last, client, hit, errs>>

Init ==
  /\ spans \in SpanSets /\ policy \in Policies /\ auditOnly \in BOOLEAN
  /\ window = EmptyWindow /\ last = FALSE /\ pc = "read"
  /\ client = <<>> /\ status = "open" /\ hit = FALSE /\ errs = 0

Flush == FlushNothing \/ FlushBlocks \/ FlushReleases

Next == ReadEvent \/ ReadEnd \/ Flush \/ Finish

Spec == Init /\ [][Next]_vars

\* The goroutine runs: a flush that can go on does.  Nothing makes the upstream
\* send or end.
FairSpec == Spec /\ WF_vars(Flush \/ Finish)

-----------------------------------------------------------------------------
(* Properties.                                                             *)

\* The type invariant.  Its part that a bug could break: the flush offset stays
\* within the buffer and the buffer within MaxSize, or Go would panic slicing it.
TypeOK ==
  /\ spans \in SpanSets /\ policy \in Policies /\ auditOnly \in BOOLEAN
  /\ window \in Window
  /\ window.off <= window.size /\ window.size <= MaxSize /\ window.size <= window.hi
  /\ last \in BOOLEAN /\ pc \in {"read", "flush", "tail", "finish", "end"}
  /\ client \in Seq(Nat)
  /\ status \in {"open", "done", "cut"}
  /\ hit \in BOOLEAN /\ errs \in 0..MaxErrs

\* An event fits in the window beside what is not released yet.
Roomy == MaxEvent + Threshold - 1 <= MaxSize

\* It does so without pushing out the beginning of a span that is not complete.
Remembers == MaxEvent + Threshold + TokenLen - 2 <= MaxSize

\* The last event is released by two final flushes.
SmallEvents == MaxEvent <= Threshold + 1

\* The client receives the upstream's characters in order, none of them lost
\* between two others and none twice, whatever the sizes of events and chunks.
InOrder == \A i \in 1..Len(client) : client[i] = i

\* SECURITY.md, "interception before leaking": while blocking is enforced and
\* the detectors work, the character that completes a banned text is not sent,
\* however the text is split over events and flushes.
NoLeak ==
  ShouldBlock /\ errs = 0 =>
    \A s \in spans : \A i \in 1..Len(client) : client[i] # s[2]

\* A response that is not cut reaches the client completely before [DONE].
CompleteDelivery == status = "done" => Len(client) = window.hi

\* In audit mode nothing banned passes unrecorded: the audit record has a
\* detection result as soon as a banned text is complete at the client.
AuditSees ==
  errs = 0 =>
    \A s \in spans : (\E i \in 1..Len(client) : client[i] = s[2]) => hit

\* flushBuffered's loop ends, and the stream once it is past its last event.
FlushEnds == pc \in {"flush", "tail"} ~> pc \in {"read", "end"}

\* The handler implements the promise.
Barred == IF ShouldBlock THEN {s[2] : s \in spans} ELSE {}
Promise == INSTANCE StreamPromise WITH
  arrived <- window.hi, sent <- Len(client), barred <- Barred, working <- (errs = 0)
PromiseSpec == Promise!Spec

=============================================================================
