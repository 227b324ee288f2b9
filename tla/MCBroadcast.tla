---------------------------- MODULE MCBroadcast ----------------------------
(* TLC instance of Broadcast: connections are interchangeable in its        *)
(* safety properties.                                                      *)
EXTENDS Broadcast, TLC

ConnSymmetry == Permutations(Conn)
=============================================================================
