-------------------------- MODULE MCRequestPipeline --------------------------
(* Finite instances of RequestPipeline for TLC. *)
EXTENDS RequestPipeline, TLC

CONSTANTS c1, c2, w1, w2

OneConn    == {c1}
TwoConns   == {c1, c2}
OneSocket  == {1}
TwoSockets == {1, 2}
OneWorker  == {w1}
TwoWorkers == {w1, w2}
OnlyRoot   == {1}

Admin   == {"login", "bad", "kick", "logout"}
Mixed   == {"regular", "logout", "neg"}
Listing == {"list"}
Logouts == {"logout"}

TwoEach   == [c \in Conns |-> 2]
TwoAndOne == [c \in Conns |-> IF c = c1 THEN 2 ELSE 1]

\* The workers are interchangeable; sockets are ordered.
Symmetry == Permutations(Workers)

=============================================================================
