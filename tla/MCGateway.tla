----------------------------- MODULE MCGateway ------------------------------
(* Values of Gateway's constants for TLC.                                  *)
EXTENDS Gateway

CONSTANTS r1, r2

None == {}
OneRecord == {r1}
TwoRecords == {r1, r2}
OnlyFile == {[enabled |-> TRUE, sampled |-> FALSE, storage |-> "file"]}
=============================================================================
