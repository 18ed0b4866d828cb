------------------------- MODULE RepresentationBuild ------------------------
(***************************************************************************)
(* What one call of identify_and_build_representations has to build        *)
(* (scenarios/symmetrized/group.cpp), shared by the single-threaded and the *)
(* multi-threaded builder.                                                 *)
(*                                                                         *)
(* A matrix is abstracted to the number of fundamental factors multiplied  *)
(* into it: mapper(l, r) has as many as l and r together, a blank matrix   *)
(* has none, and the representation for words of length n is right when    *)
(* each of its elements has n.                                             *)
(***************************************************************************)
EXTENDS Integers, Sequences

-----------------------------------------------------------------------------
(* The arithmetic of word lengths: how the representation for words of     *)
(* length n is obtained from those of two shorter lengths, and which       *)
(* lengths must be built, in which order, before length n can be.          *)

\* std::bit_floor: the largest power of two not above n.
BitFloor(n) == CHOOSE p \in {2^k : k \in 0..n} : p <= n /\ n < 2 * p

\* std::popcount(n) == 1.
IsPowerOfTwo(n) == n > 0 /\ n = BitFloor(n)

\* determine_parents: a power of two is the square of its half; any other
\* length is its leading power of two followed by the remainder.
LeftParent(n)  == IF IsPowerOfTwo(n) THEN n \div 2 ELSE BitFloor(n)
RightParent(n) == IF IsPowerOfTwo(n) THEN n \div 2 ELSE n - BitFloor(n)

\* The powers of two in (low, high], ascending, where high is one of them.
PowersUpTo[high \in Nat] ==
    [low \in Nat |-> IF high <= low THEN <<>>
                     ELSE Append(PowersUpTo[high \div 2][low], high)]

\* decompose_build_list, already in the ascending order its final reversal
\* gives. Lengths 0 and 1 need nothing: the loop stops at remainder 1.
DecomposeBuildList[n \in Nat] ==
    IF n <= 1 THEN <<>>
    ELSE IF IsPowerOfTwo(n) THEN Append(DecomposeBuildList[n \div 2], n)
    ELSE LET remainder == n - BitFloor(n)
         IN  Append(DecomposeBuildList[remainder] \o PowersUpTo[BitFloor(n)][remainder], n)

\* The loop at the end of identify_and_build_representations: lengths whose
\* representation already exists are dropped from the list.
Pruned(list, built) == SelectSeq(list, LAMBDA wl : wl \notin built)

-----------------------------------------------------------------------------
(* What is to be built, and what it is built from.                         *)

CONSTANTS GroupSize,   \* elements of the group
          BuildList,   \* lengths still to be built, in order
          Built,       \* lengths whose representation exists beforehand
          Null         \* an empty unique_ptr<Representation>

Elements == 0 .. GroupSize - 1
Levels   == 1 .. Len(BuildList)
Lengths  == Built \cup {BuildList[i] : i \in Levels}
Data     == [Elements -> Nat]

ASSUME GroupSizeAssumption == GroupSize \in Nat \ {0}

\* What decompose_build_list and the pruning guarantee: each length is new,
\* and both its parents are built before it.
ASSUME BuildListAssumption ==
    /\ Built \subseteq Nat
    /\ BuildList \in Seq(Nat)
    /\ \A i, j \in Levels : BuildList[i] = BuildList[j] => i = j
    /\ \A i \in Levels :
         LET prior == Built \cup {BuildList[j] : j \in 1 .. i - 1}
             n     == BuildList[i]
         IN  /\ n \notin Built
             /\ LeftParent(n) \in prior
             /\ RightParent(n) \in prior
             /\ LeftParent(n) + RightParent(n) = n

ASSUME NullAssumption == Null \notin Data

\* mapper(left_parent[e], right_parent[e]), for representations reps. Reading
\* through a null pointer is undefined; here it yields a wrong matrix.
Combined(reps, n, e) ==
    LET left  == reps[LeftParent(n)]
        right == reps[RightParent(n)]
    IN  IF left = Null \/ right = Null THEN 0 ELSE left[e] + right[e]

\* Every element of length n's representation.
Correct(n) == [e \in Elements |-> n]

InitialRepresentations == [n \in Lengths |-> IF n \in Built THEN Correct(n) ELSE Null]
=============================================================================
