--------------------------- MODULE StreamPromise ---------------------------
(***************************************************************************)
(* What the gateway promises about one scanned SSE response, without       *)
(* windows, thresholds or delays: the client receives the upstream's       *)
(* characters in order and none twice; a character that completes a banned *)
(* text is never sent; the stream is cut only because of such a text; and  *)
(* a stream that ends normally has been delivered to its last character.   *)
(*                                                                         *)
(* Characters are identified by their position in the upstream's content.  *)
(***************************************************************************)
EXTENDS Integers

VARIABLES
  arrived,  \* characters the upstream has sent
  sent,     \* characters the client has been sent, always the first ones
  barred,   \* positions of the characters that complete a banned text
  working,  \* no detector has failed
  status    \* "open", "done" (ended with [DONE]) or "cut" (content filter)

vars == <<arrived, sent, barred, working, status>>

Init ==
  /\ arrived = 0 /\ sent = 0 /\ working = TRUE /\ status = "open"
  /\ barred \subseteq Nat

Arrive ==
  /\ status = "open"
  /\ arrived' \in Nat /\ arrived' >= arrived
  /\ UNCHANGED <<sent, barred, working, status>>

\* Fail-open: once a detector has failed nothing is held back for certain.
Deliver ==
  /\ status = "open"
  /\ sent' \in Nat /\ sent <= sent' /\ sent' <= arrived
  /\ working' \in {working, FALSE}
  /\ working' => \A p \in barred : ~(sent < p /\ p <= sent')
  /\ UNCHANGED <<arrived, barred, status>>

Cut ==
  /\ status = "open"
  /\ \E p \in barred : p <= arrived
  /\ status' = "cut"
  /\ UNCHANGED <<arrived, sent, barred, working>>

Finish ==
  /\ status = "open" /\ sent = arrived
  /\ status' = "done"
  /\ UNCHANGED <<arrived, sent, barred, working>>

Next == Arrive \/ Deliver \/ Cut \/ Finish

Spec == Init /\ [][Next]_vars
=============================================================================
