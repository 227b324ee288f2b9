-------------------------- MODULE MCEventPipeline --------------------------
(* TLC instances of EventPipeline.                                         *)
EXTENDS EventPipeline
=============================================================================
