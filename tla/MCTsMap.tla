-------------------------------- MODULE MCTsMap --------------------------------
(* A finite instance of TsMap for TLC. *)
EXTENDS TsMap, TLC

CONSTANTS v1, v2, n1, n2, n3, n4

FourKeys  == 1..4
FourNodes == {n1, n2, n3, n4}

\* Neighbours have different values.  A value may be NULL: conn_mgr inserts 0.
ThreeVals   == {v1, v2, Nothing}
FourEntries == {<<1, v1>>, <<2, Nothing>>, <<3, v2>>, <<4, v1>>}

=============================================================================
