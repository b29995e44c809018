--------------------------- MODULE MCConfigReload ---------------------------
(* Values of ConfigReload's constants for TLC.                             *)
EXTENDS ConfigReload

CONSTANTS v1, v2, v3, broken

\* Two configurations, one whose upstream the proxy rejects, and a file that is
\* no configuration.
FourFiles == {v1, v2, v3, broken}
Broken == {broken}
BadUrl == {v3}
=============================================================================
