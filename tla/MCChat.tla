--------------------------------- MODULE MCChat ---------------------------------
(* A finite instance of Chat for TLC. *)
EXTENDS Chat, TLC

CONSTANTS c1, c2, w1, w2

MCClients == {c1, c2}
MCWorkers == {w1, w2}

\* Nobody of the name of Ann has an account yet; who comes second gives another password
\* for hers.  Both may be root, whose account is always there.
Ann(p) == [login |-> "ann", password |-> p]
Root   == [login |-> "root", password |-> "root"]
MCCredentials == c1 :> {Ann("p"), Root} @@ c2 :> {Ann("q"), Root}

MCOldMessages == {[of |-> Nobody, n |-> 0, stamp |-> 0]}

MCTexts == c1 :> 1 @@ c2 :> 0

\* The workers are alike.
Alike == Permutations(MCWorkers)

=============================================================================
