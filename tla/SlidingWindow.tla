--------------------------- MODULE SlidingWindow ---------------------------
(***************************************************************************)
(* stream.SlidingWindow (internal/stream/sliding_window.go), with the      *)
(* runes it holds.  StreamGate keeps three numbers instead of a buffer:    *)
(* StreamGate_proofs shows that they stand for this one.                   *)
(***************************************************************************)
EXTENDS Integers, Sequences

CONSTANTS maxSize, flushThreshold

NewSlidingWindow == [buffer |-> <<>>, flushOffset |-> 0]

\* Append: what exceeds maxSize is cut off in front, and the offset moves along.
AppendRunes(sw, runes) ==
  LET joined == sw.buffer \o runes
      overflow == Len(joined) - maxSize
  IN  IF overflow > 0
        THEN [buffer |-> SubSeq(joined, overflow + 1, Len(joined)),
              flushOffset |-> IF sw.flushOffset > overflow THEN sw.flushOffset - overflow ELSE 0]
        ELSE [buffer |-> joined, flushOffset |-> sw.flushOffset]

UnflushedSize(sw) == Len(sw.buffer) - sw.flushOffset

\* The end of the slice that flushBuffered asks for: by Flush when there is
\* enough for it, else by FlushAll.
FlushEnd(sw) ==
  IF UnflushedSize(sw) >= flushThreshold THEN sw.flushOffset + flushThreshold ELSE Len(sw.buffer)

Flushed(sw) == SubSeq(sw.buffer, sw.flushOffset + 1, FlushEnd(sw))
Flush(sw) == [buffer |-> sw.buffer, flushOffset |-> FlushEnd(sw)]
=============================================================================
