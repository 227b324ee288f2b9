----------------------- MODULE MCConnectionLifecycle -----------------------
(* TLC instances of ConnectionLifecycle.  No symmetry: one of its runs     *)
(* checks liveness.                                                        *)
EXTENDS ConnectionLifecycle
=============================================================================
