--------------------------- MODULE MCDebugFanout ---------------------------
(* TLC instance of DebugFanout.                                            *)
EXTENDS DebugFanout
=============================================================================
