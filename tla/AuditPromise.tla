---------------------------- MODULE AuditPromise ----------------------------
(***************************************************************************)
(* What the audit logger promises about each record, without channel,      *)
(* worker, hands or files.  A record whose call passes the gate is in the  *)
(* logger's custody.  It leaves custody by being stored, for good; or it   *)
(* is gone: because nothing obliges the logger to keep it, because of an   *)
(* I/O error, which costs one record at most, or because the process died. *)
(* Once Close has returned no finished call is owed anything.              *)
(***************************************************************************)
EXTENDS Integers

CONSTANTS
  Records,
  Durable,  \* those the logger is obliged to keep
  Early     \* those that may be stored before their call is made

VARIABLES
  custody,  \* "new", "refused", "taken" (its call runs), "owed" (its call has
            \* returned, it is not stored yet), "stored" or "gone"
  closed,   \* Close has returned
  faults    \* I/O errors so far

vars == <<custody, closed, faults>>

Settle(r, s) == custody' = [custody EXCEPT ![r] = s]
Pending(r) == custody[r] \in {"taken", "owed"}

Init ==
  /\ custody = [r \in Records |-> "new"]
  /\ closed = FALSE /\ faults = 0

Refuse(r) == custody[r] = "new" /\ Settle(r, "refused") /\ UNCHANGED <<closed, faults>>
Accept(r) == custody[r] = "new" /\ Settle(r, "taken") /\ UNCHANGED <<closed, faults>>

\* The call returns and leaves its record to the worker or to Close.
Owe(r) ==
  /\ custody[r] = "taken" /\ ~closed
  /\ Settle(r, "owed")
  /\ UNCHANGED <<closed, faults>>

Store(r) ==
  /\ Pending(r) \/ (r \in Early /\ custody[r] \in {"new", "refused", "gone"})
  /\ Settle(r, "stored")
  /\ UNCHANGED <<closed, faults>>

Omit(r) ==
  /\ r \notin Durable /\ Pending(r)
  /\ Settle(r, "gone")
  /\ UNCHANGED <<closed, faults>>

Fault ==
  /\ faults' = faults + 1
  /\ UNCHANGED custody \/ \E r \in Records : Pending(r) /\ Settle(r, "gone")
  /\ UNCHANGED closed

Close ==
  /\ \A r \in Records : custody[r] # "owed"
  /\ closed' = TRUE
  /\ UNCHANGED <<custody, faults>>

Die ==
  /\ custody' = [r \in Records |-> IF Pending(r) THEN "gone" ELSE custody[r]]
  /\ closed' = FALSE
  /\ UNCHANGED faults

Next ==
  \/ \E r \in Records : Refuse(r) \/ Accept(r) \/ Owe(r) \/ Store(r) \/ Omit(r)
  \/ Fault \/ Close \/ Die

Spec == Init /\ [][Next]_vars
=============================================================================
