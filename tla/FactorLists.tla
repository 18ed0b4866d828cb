---------------------------- MODULE FactorLists ----------------------------
(***************************************************************************)
(* Lists, and the products of inflation symbols as lists of the ids of     *)
(* their fundamental factors.  Symbol 0 is zero and symbol 1 is the        *)
(* identity.                                                               *)
(***************************************************************************)
EXTENDS Integers, Sequences, FiniteSets, SequencesExt

Zero == 0
One  == 1

\* The function itself: comparing it has its values computed once, for a table.
Table(f) == CHOOSE g \in {f} : g = f

(* The loop over a sequence that updates base by Op at each of its members. *)
LeftFold(Op(_, _), base, seq) ==
  LET at[k \in 0..Len(seq)] == IF k = 0 THEN base ELSE Op(at[k - 1], seq[k]) IN at[Len(seq)]

(* The place of each position when positions are put in the order of their *)
(* keys, those of one key as they are: how many come no later.             *)
Place(keys) ==
  Table([i \in DOMAIN keys |->
           Cardinality({j \in DOMAIN keys : keys[j] < keys[i] \/ (keys[j] = keys[i] /\ j <= i)})])

\* The members of a list, put in the places of their positions; some have none.
Placed(list, place) ==
  Table([k \in 1..Cardinality(DOMAIN place) |-> list[CHOOSE i \in DOMAIN place : place[i] = k]])

SortedBy(keys, list)    == Placed(list, Place(keys))
Sorted(list)            == SortedBy(list, list)
Subsequence(list, kept) == Placed(list, Place([i \in kept |-> i]))

WithoutOnes(list) == Subsequence(list, {i \in DOMAIN list : list[i] # One})

(* The factors of a product: the two lists merged, without redundant       *)
(* identities.  A zero leads the merged list, and the code then appends a  *)
(* further zero to it.                                                     *)
CombineFactors(left, right) ==
  LET merged == Sorted(left \o right)
      pruned == WithoutOnes(merged)
  IN  CASE merged = <<>>       -> <<One>>
        [] merged # <<>> /\ merged[1] = Zero -> Append(merged, Zero)
        [] merged # <<>> /\ merged[1] # Zero /\ Len(merged) = 1 -> merged
        [] OTHER               -> IF pruned = <<>> THEN <<One>> ELSE pruned
=============================================================================
