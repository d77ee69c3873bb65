------------------------------ MODULE MCPreset ------------------------------
(* A preset with two callers, the diagnostic frame and one signal frame.   *)
EXTENDS Preset

MCIds == {"diag", "signal"}
=============================================================================
