--------------------------- MODULE MCPipelineRun ---------------------------
(* The document for TLC: first feeds a forEach of three items and a gate;    *)
(* last needs both.                                                          *)
EXTENDS PipelineRun

FannedNeeds == [s \in Steps |->
    CASE s = "first" -> {} [] s \in {"fan", "gate"} -> {"first"}
      [] s = "last" -> {"fan", "gate"}]
FannedItems    == [s \in Steps |-> IF s = "fan" THEN 3 ELSE 1]
FannedParallel == [s \in Steps |-> IF s = "fan" THEN 2 ELSE 1]
FannedRetries  == [s \in Steps |-> IF s = "last" THEN 1 ELSE 0]
=============================================================================
