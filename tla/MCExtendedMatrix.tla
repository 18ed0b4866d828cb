-------------------------- MODULE MCExtendedMatrix --------------------------
(* Symbols 0 (zero), 1 (identity), 2 and 3 (fundamental), 4 (the product   *)
(* of 2 and 2).                                                            *)
EXTENDS ExtendedMatrix, TLC

MCKnown == (<<0>> :> 0) @@ (<<1>> :> 1) @@ (<<2>> :> 2) @@ (<<3>> :> 3) @@ (<<2, 2>> :> 4)

(* A source of four columns, the identity and operators of which two have  *)
(* the same canonical moment, extended by two fundamental scalars.         *)
MCLists == <<<<1>>, <<2>>, <<2>>, <<3>>, <<2>>, <<3>>>>

(* Three columns extended by the product of two fundamental symbols.       *)
PrefixLists == <<<<1>>, <<2>>, <<2>>, <<2, 2>>>>
=============================================================================
