------------------------------ MODULE MCFraming ------------------------------
(* A finite instance of Framing for TLC. *)
EXTENDS Framing, TLC

CONSTANTS c1, c2

MCConns  == {c1, c2}
MCBound  == c1 :> 8 @@ c2 :> 3

\* No token; one empty token.
MCMessages == {[type |-> 10, tokens |-> << >>],
               [type |-> 11, tokens |-> << << >> >>]}

\* A status, a body whose only token says that it is longer than the body, a body that ends
\* in the middle of a length, and a size that is negative.
MCPackages ==
    {[cells |-> PackStatus(12, 3), msg |-> [type |-> 12, tokens |-> << Number(3) >>]],
     [cells |-> Package(13, Number(5)), msg |-> Corrupt],
     [cells |-> Package(14, <<0>>), msg |-> Corrupt],
     [cells |-> <<15>> \o Number(-1), msg |-> NoMessage]}

=============================================================================
