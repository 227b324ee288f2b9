--------------------------- MODULE MCTokenBucket ---------------------------
(* TLC instances of TokenBucket.                                           *)
EXTENDS TokenBucket, TLC

ConnSymmetry == Permutations(Conn)
=============================================================================
