------------------------------- MODULE MCTsQueue -------------------------------
(* A finite instance of TsQueue for TLC. *)
EXTENDS TsQueue, TLC

CONSTANTS t1, t2, t3, v1, v2, n1, n2, n3

ThreeThreads == {t1, t2, t3}
TwoVals      == {v1, v2}
ThreeNodes   == {n1, n2, n3}

Symmetry == Permutations(Threads) \cup Permutations(Vals) \cup Permutations(Nodes)

=============================================================================
