-------------------------- MODULE MCExemptionStore --------------------------
(* Values of ExemptionStore's constants for TLC.                           *)
EXTENDS ExemptionStore

CONSTANTS i1, i2, a1, a2

OneItem == {i1}
TwoItems == {i1, i2}
AnyItems == {c : c \in SUBSET Items}
OneAdmin == {a1}
TwoAdmins == {a1, a2}
=============================================================================
