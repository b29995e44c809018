--------------------------- MODULE MCAuditLogger ---------------------------
(* Values of AuditLogger's constants for TLC.                              *)
EXTENDS AuditLogger

CONSTANTS r1, r2

None == {}
OneRecord == {r1}
TwoRecords == {r1, r2}

Conf(e, s, k) == [enabled |-> e, sampled |-> s, storage |-> k]
OnlyFile == {Conf(TRUE, FALSE, "file")}
FileOrKafka == {Conf(TRUE, FALSE, "file"), Conf(TRUE, TRUE, "kafka")}
=============================================================================
