--------------------------- MODULE MCStreamGate ----------------------------
(* Values of StreamGate's constants for TLC.                               *)
EXTENDS StreamGate

\* Up to two banned texts anywhere in the response.
Short == {s \in (1..StreamLen) \X (1..StreamLen) : s \in Span}
TwoSpans == {{}} \cup {{s, t} : s, t \in Short}
AllPolicies == {"", "force_block", "force_audit"}
=============================================================================
