-------------------------- MODULE MCPriorityQueue --------------------------
(* Model values for PriorityQueue. *)
EXTENDS PriorityQueue, TLC

CONSTANTS t1, t2, r1, r2, r3, n1, n2, l1

TwoThreads == {t1, t2}
ThreeReceivers == {r1, r2, r3}
TwoNormalOneLow == {n1, n2, l1}
OneLow == {l1}

\* Threads, and receivers, differ in nothing.
Alike == Permutations(TwoThreads) \cup Permutations(ThreeReceivers)
=============================================================================
