---------------------------- MODULE MCTestClient ----------------------------
EXTENDS TestClient, TLC

ReceiverSymmetry == Permutations(Receiver)
=============================================================================
