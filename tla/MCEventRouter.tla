--------------------------- MODULE MCEventRouter ---------------------------
(* TLC instances of EventRouter.                                           *)
EXTENDS EventRouter
=============================================================================
