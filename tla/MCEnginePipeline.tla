--------------------------- MODULE MCEnginePipeline ---------------------------
(* Small instances of EnginePipeline. *)
EXTENDS EnginePipeline
=============================================================================
