-------------------------- MODULE MCSessionTimer ---------------------------
(* TLC instances of SessionTimer.                                          *)
EXTENDS SessionTimer
=============================================================================
