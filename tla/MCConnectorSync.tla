-------------------------- MODULE MCConnectorSync --------------------------
(* Small instances of ConnectorSync for TLC.                               *)
EXTENDS ConnectorSync, TLC

CONSTANTS t1, t2, s1, s2, k1, k2, k3, k4

SyncSymmetry == Permutations(Threads) \cup Permutations(Shapes) \cup Permutations(Keys)
=============================================================================
