------------------------ MODULE MCDetectionPipeline ------------------------
(* Values of DetectionPipeline's constants for TLC.                        *)
EXTENDS DetectionPipeline

CONSTANTS d1, d2, d3, c1

ThreeDetectors == {d1, d2, d3}
OneCall == {c1}
AnyFinding == [Detectors -> Found]
=============================================================================
