------------------------------ MODULE MCConnMgr ------------------------------
(* A finite instance of ConnMgr for TLC. *)
EXTENDS ConnMgr, TLC

CONSTANTS s1, s2, u1, u2, w1, w2

TwoSids    == {s1, s2}
TwoUids    == {u1, u2}
TwoWorkers == {w1, w2}

Symmetry == Permutations(Sids) \cup Permutations(Uids) \cup Permutations(Workers)

=============================================================================
