----------------------- MODULE MCDerivedMatrixSystem -----------------------
(* Keys: a and b of monomial matrices, p of the polynomial one that is     *)
(* made of both, l of one the map does not support.                        *)
EXTENDS DerivedMatrixSystem, TLC

CONSTANTS t1, t2, t3, a, b, p, l

MCParts == (a :> <<>>) @@ (b :> <<>>) @@ (p :> <<a, b>>) @@ (l :> <<>>)

In(i, keys) == {[index |-> i, key |-> k] : k \in keys}

(* Two threads of the derived system that want the same matrices, by key   *)
(* and by offset, and one of the base system.                              *)
MCCalls == (t1 :> In("derived", {a, l}) \cup In("source", {0}))
        @@ (t2 :> In("derived", {a, p}))
        @@ (t3 :> In("base", {p}) \cup In("none", {Unindexed}))

=============================================================================
