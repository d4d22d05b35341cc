----------------------------- MODULE MCJobQueue -----------------------------
(* Small instances of JobQueue for TLC: how often each process may die.    *)
EXTENDS JobQueue, TLC

CONSTANTS w1, w2, api, c1, c2, u1, u2, k1, refresh, export

CrashNone  == [p \in Processes |-> 0]
CrashTwice == [p \in Processes |-> 2]
CrashApi   == [p \in Processes |-> IF p = api THEN 1 ELSE 0]

WorkerSymmetry == Permutations({w1, w2})

CrashWorkersTwice == [p \in Processes |-> IF p = api THEN 0 ELSE 2]
=============================================================================
