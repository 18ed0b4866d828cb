----------------------- MODULE ProbabilityTensors_proofs -----------------------
(***************************************************************************)
(* Proofs about moments and their factors, the factor table and the        *)
(* tensors of probabilities, for any scenario and any words.               *)
(*                                                                         *)
(* The first part is about data alone: natural numbers, sequences that are *)
(* in order, bags of factors and their products, recursion that ends, and  *)
(* what simplify_as_moment and factorize make of a word. The second is     *)
(* about the states: every symbol has its list of factors, and the index   *)
(* finds exactly the lists there are (ListedInv); what a stored tensor     *)
(* holds is what the symbols say, or still missing (TensorInv).            *)
(***************************************************************************)
EXTENDS ProbabilityTensors, TLAPS, FunctionTheorems, FiniteSetTheorems, SequenceTheorems

-----------------------------------------------------------------------------
(* Natural numbers.                                                        *)

(* A set of natural numbers that has members has a least one: the interval *)
(* up to it is minimal among the intervals up to the members.              *)
LEMMA LeastOf ==
  ASSUME NEW S \in SUBSET Nat, S # {}
  PROVE  \E n \in S : \A m \in S : n <= m
<1> DEFINE Intervals == {0..n : n \in S}
<1>1. \A n \in Nat : IsFiniteSet(0..n)
  BY FS_Interval
<1>2. Intervals \subseteq FiniteSubsetsOf(Nat) /\ Intervals # {}
  <2>1. ASSUME NEW n \in S PROVE 0..n \in FiniteSubsetsOf(Nat)
    BY <1>1 DEF FiniteSubsetsOf
  <2> QED BY <2>1
<1>3. PICK least \in Intervals : \A other \in Intervals : <<other, least>> \notin StrictSubsetOrdering(Nat)
  <2> HIDE DEF Intervals
  <2>1. IsWellFoundedOn(StrictSubsetOrdering(Nat), FiniteSubsetsOf(Nat))
    BY FS_StrictSubsetOrderingWellFounded
  <2> QED BY <1>2, <2>1, WFMin
<1>4. PICK n \in S : least = 0..n
  OBVIOUS
<1>5. ASSUME NEW m \in S, m < n PROVE FALSE
  <2>1. 0..m \subseteq 0..n /\ 0..m # 0..n
    <3>1. n \in 0..n /\ n \notin 0..m
      BY <1>5
    <3> QED BY <3>1, <1>5
  <2>2. 0..m \in SUBSET Nat /\ 0..n \in SUBSET Nat /\ 0..m \in Intervals
    OBVIOUS
  <2>3. <<0..m, 0..n>> \in StrictSubsetOrdering(Nat)
    <3> HIDE DEF Intervals
    <3> QED BY <2>1, <2>2 DEF StrictSubsetOrdering
  <2> HIDE DEF Intervals
  <2> QED BY <1>3, <1>4, <2>2, <2>3
<1> QED BY <1>5

LEMMA Induction ==
  ASSUME NEW S \in SUBSET Nat, 0 \in S, \A n \in S : n + 1 \in S
  PROVE  S = Nat
<1> SUFFICES ASSUME Nat \ S # {} PROVE FALSE
  OBVIOUS
<1>1. PICK n \in Nat \ S : \A m \in Nat \ S : n <= m
  BY LeastOf
<1>2. n - 1 \in S
  BY <1>1
<1> QED BY <1>1, <1>2

\* What holds of the first and, with any, of the next holds of all.
LEMMA InductionUpTo ==
  ASSUME NEW n \in Nat, NEW at, NEW D, at[0] \in D[0],
         \A k \in 1..n : at[k - 1] \in D[k - 1] => at[k] \in D[k]
  PROVE  \A k \in 0..n : at[k] \in D[k]
<1> DEFINE S == {k \in Nat : k <= n => at[k] \in D[k]}
<1>1. 0 \in S
  OBVIOUS
<1>2. ASSUME NEW k \in S PROVE k + 1 \in S
  <2>1. CASE k + 1 <= n
    BY <2>1, k + 1 \in 1..n, (k + 1) - 1 = k
  <2> QED BY <2>1
<1> HIDE DEF S
<1>3. S = Nat
  BY <1>1, <1>2, Induction DEF S
<1> QED BY <1>3 DEF S

\* at is a run of a loop of n steps.
Runs(n, base, F, at) == at = [k \in 0..n |-> IF k = 0 THEN base ELSE F[k][at[k - 1]]]

LEMMA Iterates ==
  ASSUME NEW n \in Nat, NEW D, NEW base \in D[0], NEW F,
         \A k \in 1..n : F[k] \in [D[k - 1] -> D[k]]
  PROVE  \E at : Runs(n, base, F, at) /\ \A k \in 0..n : at[k] \in D[k]
<1> DEFINE Run(m, at) == /\ at = [k \in 0..m |-> IF k = 0 THEN base ELSE F[k][at[k - 1]]]
                         /\ \A k \in 0..m : at[k] \in D[k]
           S == {m \in Nat : m <= n => \E at : Run(m, at)}
<1>1. 0 \in S
  <2> DEFINE at == [k \in 0..0 |-> base]
  <2>1. at = [k \in 0..0 |-> IF k = 0 THEN base ELSE F[k][at[k - 1]]]
    OBVIOUS
  <2>2. Run(0, at)
    BY <2>1
  <2> QED BY <2>2
<1>2. ASSUME NEW m \in S PROVE m + 1 \in S
  <2> SUFFICES ASSUME m + 1 <= n PROVE \E at : Run(m + 1, at)
    OBVIOUS
  <2>1. PICK at : Run(m, at)
    OBVIOUS
  <2> DEFINE next == [k \in 0..(m + 1) |-> IF k <= m THEN at[k] ELSE F[k][at[m]]]
  <2>2. \A k \in 0..m : next[k] = at[k]
    OBVIOUS
  <2>3. next[m + 1] = F[m + 1][at[m]] /\ at[m] \in D[m]
    BY <2>1
  <2>4. F[m + 1] \in [D[m] -> D[m + 1]]
    BY (m + 1) - 1 = m, m + 1 \in 1..n
  <2>5. \A k \in 0..(m + 1) : next[k] \in D[k]
    <3> TAKE k \in 0..(m + 1)
    <3>1. CASE k = m + 1
      BY <3>1, <2>3, <2>4
    <3>2. CASE k \in 0..m
      BY <3>2, <2>1, <2>2
    <3> QED BY <3>1, <3>2
  <2>6. ASSUME NEW k \in 0..(m + 1)
        PROVE  next[k] = IF k = 0 THEN base ELSE F[k][next[k - 1]]
    <3>1. CASE k = m + 1
      BY <3>1, <2>2, <2>3
    <3>2. CASE k = 0
      <4>1. next[0] = at[0] /\ at[0] = base
        BY <2>1, <2>2
      <4> QED BY <3>2, <4>1
    <3>3. CASE k \in 1..m
      <4>1. k \in 0..m /\ k - 1 \in 0..m /\ k # 0
        BY <3>3
      <4>2. next[k] = at[k] /\ next[k - 1] = at[k - 1]
        BY <2>2, <4>1
      <4>3. at[k] = F[k][at[k - 1]]
        BY <2>1, <4>1
      <4> QED BY <4>1, <4>2, <4>3
    <3> QED BY <3>1, <3>2, <3>3
  <2>7. next = [k \in 0..(m + 1) |-> IF k = 0 THEN base ELSE F[k][next[k - 1]]]
    <3> HIDE DEF next
    <3>1. DOMAIN next = 0..(m + 1) /\ next = [k \in 0..(m + 1) |-> next[k]]
      BY DEF next
    <3> QED BY <3>1, <2>6
  <2> HIDE DEF next
  <2> QED BY <2>5, <2>7
<1> HIDE DEF S
<1>3. S = Nat
  BY <1>1, <1>2, Induction DEF S
<1>4. \E at : Run(n, at)
  <2> HIDE DEF Run
  <2> QED BY <1>3 DEF S
<1> QED BY <1>4 DEF Runs

-----------------------------------------------------------------------------
(* Loops that go on until they reach a state in Stop.                      *)

Closed(S, Stop, next, C) == C \in SUBSET S /\ \A w \in C \ Stop : next[w] \in C

\* f is the function that such a loop computes.
Recurs(S, Stop, next, out, f) == f = [w \in S |-> IF w \in Stop THEN out[w] ELSE f[next[w]]]

(* There is one, whether the loop ends or not: it is the same for all      *)
(* states from which the same one is reached.                              *)
LEMMA TailRecursion ==
  ASSUME NEW S, NEW Stop \in SUBSET S, NEW next \in [S \ Stop -> S], NEW out
  PROVE  \E f : Recurs(S, Stop, next, out, f)
<1> DEFINE Reach(w) == {v \in S : \A C \in SUBSET S : Closed(S, Stop, next, C) /\ w \in C => v \in C}
           End(w)   == Reach(w) \cap Stop
           f        == [w \in S |-> out[CHOOSE v \in End(w) : TRUE]]
<1>1. ASSUME NEW w \in Stop PROVE End(w) = {w}
  <2>1. Closed(S, Stop, next, {w})
    BY DEF Closed
  <2> QED BY <2>1
<1>2. ASSUME NEW w \in S \ Stop PROVE End(w) = End(next[w])
  <2>1. next[w] \in S
    OBVIOUS
  <2>2. ASSUME NEW v \in Reach(next[w]) PROVE v \in Reach(w)
    BY <2>2 DEF Closed
  <2>3. ASSUME NEW v \in Reach(w), v # w PROVE v \in Reach(next[w])
    <3> SUFFICES ASSUME NEW C \in SUBSET S, Closed(S, Stop, next, C), next[w] \in C PROVE v \in C
      BY <2>3
    <3>1. Closed(S, Stop, next, C \cup {w})
      BY DEF Closed
    <3> QED BY <3>1, <2>3
  <2> QED BY <2>2, <2>3
<1> HIDE DEF End
<1>3. ASSUME NEW w \in S PROVE f[w] = IF w \in Stop THEN out[w] ELSE f[next[w]]
  <2>1. CASE w \in Stop
    <3>1. End(w) = {w}
      BY <1>1, <2>1
    <3>2. (CHOOSE v \in End(w) : TRUE) = w
      BY <3>1
    <3>3. f[w] = out[CHOOSE v \in End(w) : TRUE]
      OBVIOUS
    <3> HIDE DEF f
    <3> QED BY <3>2, <3>3, <2>1
  <2>2. CASE w \notin Stop
    <3>1. End(w) = End(next[w]) /\ next[w] \in S
      BY <1>2, <2>2
    <3> QED BY <3>1, <2>2
  <2> QED BY <2>1, <2>2
<1>4. f = [w \in S |-> f[w]]
  OBVIOUS
<1> HIDE DEF f
<1>5. f = [w \in S |-> IF w \in Stop THEN out[w] ELSE f[next[w]]]
  BY <1>3, <1>4
<1> QED BY <1>5 DEF Recurs

-----------------------------------------------------------------------------
(* Lists put in order.                                                     *)

LEMMA TableIsFunction == ASSUME NEW f PROVE Table(f) = f
BY DEF Table

Before(keys, j, i)  == keys[j] < keys[i] \/ (keys[j] = keys[i] /\ j <= i)
NoLater(keys, i)    == {j \in DOMAIN keys : Before(keys, j, i)}

(* at has the positions in the order of their keys.                        *)
Orders(keys, at) ==
  /\ at \in Bijection(1..Cardinality(DOMAIN keys), DOMAIN keys)
  /\ \A k \in 1..Cardinality(DOMAIN keys) : Place(keys)[at[k]] = k
  /\ \A k, m \in 1..Cardinality(DOMAIN keys) :
       k < m => keys[at[k]] < keys[at[m]] \/ (keys[at[k]] = keys[at[m]] /\ at[k] < at[m])

\* Every position has a place of its own, after those with smaller keys.
LEMMA PlacesAreOrdered ==
  ASSUME NEW S \in SUBSET Int, IsFiniteSet(S), NEW keys \in [S -> Int]
  PROVE  \E at : Orders(keys, at)
<1> DEFINE n     == Cardinality(S)
           place == Place(keys)
<1>1. n \in Nat /\ DOMAIN keys = S
  BY FS_CardinalityType
<1>2. place = [i \in S |-> Cardinality(NoLater(keys, i))]
  BY TableIsFunction DEF Place, NoLater, Before
<1>3. ASSUME NEW i \in S
      PROVE  NoLater(keys, i) \in SUBSET S /\ i \in NoLater(keys, i) /\ IsFiniteSet(NoLater(keys, i))
  <2>1. NoLater(keys, i) \in SUBSET S /\ i \in NoLater(keys, i)
    BY DEF NoLater, Before
  <2> QED BY <2>1, FS_Subset
<1>4. place \in [S -> 1..n]
  <2> SUFFICES ASSUME NEW i \in S PROVE Cardinality(NoLater(keys, i)) \in 1..n
    BY <1>2
  <2>1. Cardinality(NoLater(keys, i)) <= n /\ Cardinality(NoLater(keys, i)) \in Nat
    BY <1>3, FS_Subset, FS_CardinalityType
  <2>2. Cardinality(NoLater(keys, i)) # 0
    BY <1>3, FS_EmptySet
  <2> QED BY <2>1, <2>2
<1>5. ASSUME NEW i \in S, NEW j \in S, Before(keys, j, i), j # i
      PROVE  place[j] < place[i]
  <2>1. NoLater(keys, j) \in SUBSET NoLater(keys, i) /\ i \notin NoLater(keys, j)
    <3>1. ASSUME NEW l \in S, Before(keys, l, j) PROVE Before(keys, l, i)
      <4>1. keys[l] \in Int /\ keys[j] \in Int /\ keys[i] \in Int /\ l \in Int /\ j \in Int /\ i \in Int
        OBVIOUS
      <4> QED BY <4>1, <3>1, <1>5 DEF Before
    <3>2. ~Before(keys, i, j)
      <4>1. keys[j] \in Int /\ keys[i] \in Int /\ j \in Int /\ i \in Int
        OBVIOUS
      <4> QED BY <4>1, <1>5 DEF Before
    <3> QED BY <3>1, <3>2, <1>1 DEF NoLater
  <2>2. NoLater(keys, j) # NoLater(keys, i) /\ IsFiniteSet(NoLater(keys, i)) /\ IsFiniteSet(NoLater(keys, j))
    BY <2>1, <1>3
  <2>3. Cardinality(NoLater(keys, j)) <= Cardinality(NoLater(keys, i))
        /\ Cardinality(NoLater(keys, i)) # Cardinality(NoLater(keys, j))
    BY <2>1, <2>2, FS_Subset
  <2>4. Cardinality(NoLater(keys, j)) \in Nat /\ Cardinality(NoLater(keys, i)) \in Nat
    BY <2>2, FS_CardinalityType
  <2>5. Cardinality(NoLater(keys, j)) < Cardinality(NoLater(keys, i))
    BY <2>3, <2>4
  <2> QED BY <2>5, <1>2
<1> HIDE DEF place
<1>6. ASSUME NEW i \in S, NEW j \in S, i # j
      PROVE  place[i] # place[j]
  <2>1. Before(keys, i, j) \/ Before(keys, j, i)
    BY DEF Before
  <2>2. place[i] \in Int /\ place[j] \in Int
    BY <1>4
  <2> QED BY <1>5, <1>6, <2>1, <2>2
<1>7. place \in Bijection(S, 1..n)
  <2>1. place \in Injection(S, 1..n)
    BY <1>4, <1>6 DEF Injection, IsInjective
  <2>2. IsFiniteSet(1..n) /\ Cardinality(1..n) = n
    BY FS_Interval, <1>1
  <2>3. place \in Surjection(S, 1..n)
    BY <2>1, <2>2, FS_Injection
  <2> QED BY <2>1, <2>3 DEF Bijection
<1> DEFINE at == [k \in 1..n |-> CHOOSE i \in S : place[i] = k]
<1>8. ASSUME NEW k \in 1..n PROVE at[k] \in S /\ place[at[k]] = k
  <2>1. \E i \in S : place[i] = k
    BY <1>7 DEF Bijection, Surjection
  <2> QED BY <2>1
<1> HIDE DEF at
<1>9. at \in Bijection(1..n, S)
  <2>1. at \in [1..n -> S]
    BY <1>8 DEF at
  <2>2. \A k, m \in 1..n : at[k] = at[m] => k = m
    BY <1>8
  <2>3. \A i \in S : \E k \in 1..n : at[k] = i
    BY <1>4, <1>6, <1>8
  <2> QED BY <2>1, <2>2, <2>3 DEF Bijection, Injection, Surjection, IsInjective
<1>10. ASSUME NEW k \in 1..n, NEW m \in 1..n, k < m
       PROVE  keys[at[k]] < keys[at[m]] \/ (keys[at[k]] = keys[at[m]] /\ at[k] < at[m])
  <2> DEFINE i == at[k]
             j == at[m]
  <2>1. i \in S /\ j \in S /\ place[i] = k /\ place[j] = m
    BY <1>8
  <2>2. keys[i] \in Int /\ keys[j] \in Int /\ i \in Int /\ j \in Int
    BY <2>1
  <2> HIDE DEF i, j
  <2>3. ~Before(keys, j, i)
    BY <1>5, <1>10, <2>1
  <2>4. keys[i] < keys[j] \/ (keys[i] = keys[j] /\ i < j)
    BY <2>2, <2>3 DEF Before
  <2> QED BY <2>4 DEF i, j
<1>11. Orders(keys, at)
  BY <1>1, <1>8, <1>9, <1>10 DEF Orders, place
<1> QED BY <1>11

\* A list in the places of its positions.
LEMMA PlacedInOrder ==
  ASSUME NEW S \in SUBSET Int, IsFiniteSet(S), NEW keys \in [S -> Int], NEW list, NEW at, Orders(keys, at)
  PROVE  Placed(list, Place(keys)) = [k \in 1..Cardinality(S) |-> list[at[k]]]
<1> DEFINE place == Place(keys)
<1>1. DOMAIN place = S /\ DOMAIN keys = S
  BY TableIsFunction DEF Place
<1>2. at \in Bijection(1..Cardinality(S), S) /\ \A k \in 1..Cardinality(S) : place[at[k]] = k
  BY <1>1 DEF Orders
<1> HIDE DEF place
<1>3. ASSUME NEW k \in 1..Cardinality(S) PROVE (CHOOSE i \in S : place[i] = k) = at[k]
  <2>1. at[k] \in S /\ place[at[k]] = k
    BY <1>2 DEF Bijection, Injection
  <2>2. ASSUME NEW i \in S, place[i] = k PROVE i = at[k]
    <3>1. PICK m \in 1..Cardinality(S) : at[m] = i
      BY <1>2 DEF Bijection, Surjection
    <3> QED BY <3>1, <2>2, <1>2
  <2> QED BY <2>1, <2>2
<1>4. Placed(list, place) = [k \in 1..Cardinality(S) |-> list[CHOOSE i \in S : place[i] = k]]
  BY <1>1, TableIsFunction DEF Placed
<1> QED BY <1>3, <1>4 DEF place

InOrder(list) == \A i, j \in DOMAIN list : i < j => list[i] <= list[j]

\* at has the positions of a list of length n in the order in which it is sorted.
Sorts(n, list, at) == at \in Bijection(1..n, 1..n) /\ Sorted(list) = [k \in 1..n |-> list[at[k]]]

\* What sorting a list of numbers gives.
LEMMA SortedList ==
  ASSUME NEW n \in Nat, NEW list \in [1..n -> Int]
  PROVE  /\ InOrder(Sorted(list))
         /\ \E at : Sorts(n, list, at)
<1>1. IsFiniteSet(1..n) /\ Cardinality(1..n) = n
  BY FS_Interval
<1>2. DOMAIN list = 1..n
  OBVIOUS
<1>3. PICK at : Orders(list, at)
  BY <1>1, PlacesAreOrdered, 1..n \in SUBSET Int
<1>4. Sorted(list) = [k \in 1..n |-> list[at[k]]]
  BY <1>1, <1>3, PlacedInOrder, 1..n \in SUBSET Int DEF Sorted, SortedBy
<1>5. at \in Bijection(1..n, 1..n)
  BY <1>1, <1>2, <1>3 DEF Orders
<1>6. InOrder(Sorted(list))
  <2> SUFFICES ASSUME NEW k \in 1..n, NEW m \in 1..n, k < m PROVE list[at[k]] <= list[at[m]]
    BY <1>4 DEF InOrder
  <2>1. list[at[k]] < list[at[m]] \/ list[at[k]] = list[at[m]]
    BY <1>1, <1>2, <1>3 DEF Orders
  <2>2. list[at[k]] \in Int /\ list[at[m]] \in Int
    BY <1>5 DEF Bijection, Injection
  <2> QED BY <2>1, <2>2
<1> QED BY <1>4, <1>5, <1>6 DEF Sorts

\* A list that is in order is left as it is.
LEMMA SortedStays ==
  ASSUME NEW n \in Nat, NEW list \in [1..n -> Int], InOrder(list)
  PROVE  Sorted(list) = list
<1>1. IsFiniteSet(1..n) /\ Cardinality(1..n) = n /\ DOMAIN list = 1..n
  BY FS_Interval
<1>2. PICK at : Orders(list, at)
  BY <1>1, PlacesAreOrdered, 1..n \in SUBSET Int
<1>3. Sorted(list) = [k \in 1..n |-> list[at[k]]]
  BY <1>1, <1>2, PlacedInOrder, 1..n \in SUBSET Int DEF Sorted, SortedBy
<1>4. ASSUME NEW i \in 1..n PROVE Place(list)[i] = i
  <2>1. {j \in DOMAIN list : list[j] < list[i] \/ (list[j] = list[i] /\ j <= i)} = 1..i
    <3>1. ASSUME NEW j \in 1..n PROVE list[j] \in Int /\ (j < i => list[j] <= list[i]) /\ (i < j => list[i] <= list[j])
      BY <1>1 DEF InOrder
    <3> QED BY <3>1, <1>1
  <2>2. Place(list)[i] = Cardinality(1..i)
    BY <2>1, <1>1, TableIsFunction DEF Place
  <2> QED BY <2>2, FS_Interval
<1>5. \A k \in 1..n : at[k] = k
  <2>1. \A k \in 1..n : at[k] \in 1..n /\ Place(list)[at[k]] = k
    BY <1>1, <1>2 DEF Orders, Bijection, Injection
  <2> QED BY <2>1, <1>4
<1> QED BY <1>3, <1>5

\* at has the positions kept of a list, in their order.
Keeps(list, kept, at) ==
  /\ at \in Bijection(1..Cardinality(kept), kept)
  /\ Subsequence(list, kept) = [k \in 1..Cardinality(kept) |-> list[at[k]]]
  /\ \A k, m \in 1..Cardinality(kept) : k < m => at[k] < at[m]

\* The members kept are those of the list, in its order.
LEMMA SubsequenceOf ==
  ASSUME NEW n \in Nat, NEW list, NEW kept \in SUBSET (1..n)
  PROVE  \E at : Keeps(list, kept, at)
<1> DEFINE keys == [i \in kept |-> i]
<1>1. IsFiniteSet(kept) /\ kept \in SUBSET Int /\ keys \in [kept -> Int] /\ DOMAIN keys = kept
  <2>1. IsFiniteSet(1..n)
    BY FS_Interval
  <2>2. IsFiniteSet(kept)
    BY <2>1, FS_Subset
  <2>3. kept \in SUBSET Int
    OBVIOUS
  <2> QED BY <2>2, <2>3
<1>2. PICK at : Orders(keys, at)
  <2> HIDE DEF keys
  <2> QED BY <1>1, PlacesAreOrdered
<1>3. Subsequence(list, kept) = [k \in 1..Cardinality(kept) |-> list[at[k]]]
  <2>1. Subsequence(list, kept) = Placed(list, Place(keys))
    BY DEF Subsequence
  <2> HIDE DEF keys
  <2>2. Placed(list, Place(keys)) = [k \in 1..Cardinality(kept) |-> list[at[k]]]
    BY <1>1, <1>2, PlacedInOrder
  <2> QED BY <2>1, <2>2
<1>4. at \in Bijection(1..Cardinality(kept), kept)
  BY <1>1, <1>2 DEF Orders
<1>5. ASSUME NEW k \in 1..Cardinality(kept), NEW m \in 1..Cardinality(kept), k < m PROVE at[k] < at[m]
  <2>1. at[k] \in kept /\ at[m] \in kept
    BY <1>4 DEF Bijection, Injection
  <2>2. keys[at[k]] < keys[at[m]] \/ (keys[at[k]] = keys[at[m]] /\ at[k] < at[m])
    <3> HIDE DEF keys
    <3> QED BY <1>1, <1>2, <1>5 DEF Orders
  <2> QED BY <2>1, <2>2
<1> QED BY <1>3, <1>4, <1>5 DEF Keeps

\* Nothing is left out.
LEMMA SubsequenceOfAll ==
  ASSUME NEW n \in Nat, NEW list, list = [i \in 1..n |-> list[i]]
  PROVE  Subsequence(list, 1..n) = list
<1>1. Cardinality(1..n) = n /\ 1..n \in SUBSET (1..n)
  BY FS_Interval
<1>2. PICK at : Keeps(list, 1..n, at)
  BY <1>1, SubsequenceOf
<1>3. /\ at \in Bijection(1..n, 1..n)
      /\ Subsequence(list, 1..n) = [k \in 1..n |-> list[at[k]]]
      /\ \A k, m \in 1..n : k < m => at[k] < at[m]
  BY <1>1, <1>2 DEF Keeps
<1>4. \A k \in 1..n : at[k] \in 1..n
  BY <1>3 DEF Bijection, Injection
<1>5. \A k \in 1..n : at[k] = k
  <2> DEFINE Up == {m \in Nat : \A k \in 1..n : k <= m => at[k] >= k}
             Down == {m \in Nat : \A k \in 1..n : n - k <= m => at[k] <= k}
  <2>1. ASSUME NEW m \in Up PROVE m + 1 \in Up
    <3> SUFFICES ASSUME NEW k \in 1..n, k = m + 1 PROVE at[k] >= k
      BY <2>1
    <3>1. CASE m = 0
      BY <3>1, <1>4
    <3>2. CASE m # 0
      <4>1. m \in 1..n /\ m < k
        BY <3>2
      <4>2. at[m] >= m /\ at[m] < at[k] /\ at[m] \in Int /\ at[k] \in Int
        BY <2>1, <4>1, <1>3, <1>4
      <4> QED BY <4>2
    <3> QED BY <3>1, <3>2
  <2>2. ASSUME NEW m \in Down PROVE m + 1 \in Down
    <3> SUFFICES ASSUME NEW k \in 1..n, n - k = m + 1 PROVE at[k] <= k
      BY <2>2
    <3>1. k + 1 \in 1..n /\ n - (k + 1) = m /\ k < k + 1
      OBVIOUS
    <3>2. at[k + 1] <= k + 1 /\ at[k] < at[k + 1] /\ at[k] \in Int /\ at[k + 1] \in Int
      BY <2>2, <3>1, <1>3, <1>4
    <3> QED BY <3>2
  <2>3. 0 \in Up /\ 0 \in Down
    BY <1>4
  <2> HIDE DEF Up, Down
  <2>4. Up = Nat /\ Down = Nat
    <3>1. Up \in SUBSET Nat /\ Down \in SUBSET Nat
      BY DEF Up, Down
    <3> QED BY <2>1, <2>2, <2>3, <3>1, Induction
  <2>5. ASSUME NEW k \in 1..n PROVE at[k] = k
    <3>1. at[k] >= k /\ at[k] <= k
      BY <2>4, k \in Nat, n - k \in Nat DEF Up, Down
    <3> QED BY <3>1, <1>4
  <2> QED BY <2>5
<1> QED BY <1>3, <1>5
-----------------------------------------------------------------------------
(* Operators and the copies they hear.                                     *)

OperatorsOf(ctx) == DOMAIN ctx.operators
WordsOf(ctx, n)  == [1..n -> OperatorsOf(ctx)]
CopiesHeard(ctx, op) == ctx.operators[op].copies

\* The assumption on contexts, in parts.
LEMMA ContextFacts ==
  ASSUME NEW ctx, IsContext(ctx)
  PROVE  /\ ctx.level \in Nat \ {0} /\ OperatorsOf(ctx) \in SUBSET Nat /\ IsFiniteSet(OperatorsOf(ctx))
         /\ OperatorsOf(ctx) = 1..Cardinality(OperatorsOf(ctx)) /\ Cardinality(OperatorsOf(ctx)) \in Nat
         /\ \A m \in OperatorsOf(ctx) :
              CopiesHeard(ctx, m) \in [DOMAIN CopiesHeard(ctx, m) -> 0..(ctx.level - 1)]
<1>1. /\ ctx.level \in Nat \ {0} /\ IsFiniteSet(OperatorsOf(ctx))
      /\ OperatorsOf(ctx) = 1..Cardinality(OperatorsOf(ctx))
  BY DEF IsContext, OperatorsOf
<1>2. Cardinality(OperatorsOf(ctx)) \in Nat
  BY <1>1, FS_CardinalityType
<1>3. \A m \in OperatorsOf(ctx) :
        CopiesHeard(ctx, m) \in [DOMAIN CopiesHeard(ctx, m) -> 0..(ctx.level - 1)]
  BY DEF IsContext, OperatorsOf, CopiesHeard
<1>4. OperatorsOf(ctx) \in SUBSET Nat
  BY <1>1, <1>2
<1> QED BY <1>1, <1>2, <1>3, <1>4

\* Every operator has a counterpart that hears other copies of the sources.
LEMMA VariantsExist ==
  ASSUME NEW ctx, IsContext(ctx), NEW op \in OperatorsOf(ctx),
         NEW new \in [DOMAIN CopiesHeard(ctx, op) -> 0..(ctx.level - 1)],
         \A s \in DOMAIN new \ Explicit(ctx) : new[s] = CopiesHeard(ctx, op)[s]
  PROVE  \E n \in OperatorsOf(ctx) :
           IsOperator(ctx, n, ctx.operators[op].observable, new, ctx.operators[op].outcome)
BY DEF IsContext, OperatorsOf, CopiesHeard

LEMMA OperatorsAreDistinct ==
  ASSUME NEW ctx, IsContext(ctx), NEW l \in OperatorsOf(ctx), NEW r \in OperatorsOf(ctx),
         ctx.operators[l].observable = ctx.operators[r].observable,
         ctx.operators[l].outcome = ctx.operators[r].outcome,
         CopiesHeard(ctx, l) = CopiesHeard(ctx, r)
  PROVE  l = r
BY DEF IsContext, OperatorsOf, CopiesHeard, IsOperator

\* An operator that hears earlier copies comes earlier.
LEMMA OperatorsAreMonotone ==
  ASSUME NEW ctx, IsContext(ctx), NEW l \in OperatorsOf(ctx), NEW r \in OperatorsOf(ctx),
         ctx.operators[l].observable = ctx.operators[r].observable,
         ctx.operators[l].outcome = ctx.operators[r].outcome,
         \A s \in DOMAIN CopiesHeard(ctx, l) : CopiesHeard(ctx, l)[s] <= CopiesHeard(ctx, r)[s]
  PROVE  l <= r
BY DEF IsContext, OperatorsOf, CopiesHeard

LEMMA VariantsAreIntervals ==
  ASSUME NEW ctx, IsContext(ctx), NEW l \in OperatorsOf(ctx), NEW r \in OperatorsOf(ctx), NEW k \in l..r,
         SameVariant(ctx, l, r)
  PROVE  SameVariant(ctx, l, k)
BY DEF IsContext, OperatorsOf, SameVariant

LEMMA CopiesAreFinite ==
  ASSUME NEW ctx, IsContext(ctx)
  PROVE  IsFiniteSet(0..(ctx.level - 1)) /\ Cardinality(0..(ctx.level - 1)) = ctx.level
<1>1. PICK level \in Nat \ {0} : level = ctx.level
  BY ContextFacts
<1>2. IsFiniteSet(0..(level - 1)) /\ Cardinality(0..(level - 1)) = level
  BY FS_Interval, 0 \in Int, level - 1 \in Int, ~(0 > level - 1), (level - 1) - 0 + 1 = level
<1> QED BY <1>1, <1>2

Heard(ctx, word, s, c) == \E i \in DOMAIN word : Hears(ctx, word, i, s, c)

LEMMA CopiesAreNumbers ==
  ASSUME NEW ctx, IsContext(ctx), NEW n \in Nat, NEW word \in WordsOf(ctx, n),
         NEW i \in 1..n, NEW s, NEW c, Hears(ctx, word, i, s, c)
  PROVE  c \in 0..(ctx.level - 1)
<1>1. word[i] \in OperatorsOf(ctx)
  BY DEF WordsOf
<1>2. CopiesHeard(ctx, word[i]) \in [DOMAIN CopiesHeard(ctx, word[i]) -> 0..(ctx.level - 1)]
  BY <1>1, ContextFacts
<1>3. s \in DOMAIN CopiesHeard(ctx, word[i]) /\ CopiesHeard(ctx, word[i])[s] = c
  BY DEF Hears, CopiesHeard
<1> QED BY <1>2, <1>3

LEMMA HearsOneCopy ==
  ASSUME NEW ctx, NEW word, NEW i, NEW s, NEW c, NEW d, Hears(ctx, word, i, s, c), Hears(ctx, word, i, s, d)
  PROVE  c = d
BY DEF Hears

LEMMA HeardBeforeFacts ==
  ASSUME NEW ctx, IsContext(ctx), NEW n \in Nat, NEW word \in WordsOf(ctx, n), NEW s, NEW c
  PROVE  /\ IsFiniteSet(HeardBefore(ctx, word, s, c))
         /\ HeardBefore(ctx, word, s, c) \in SUBSET (0..(ctx.level - 1))
         /\ c \notin HeardBefore(ctx, word, s, c)
         /\ NewName(ctx, word, s, c) \in Nat
         /\ \A d : d \in HeardBefore(ctx, word, s, c) => Heard(ctx, word, s, d)
<1>1. DOMAIN word = 1..n
  BY DEF WordsOf
<1>2. HeardBefore(ctx, word, s, c) \in SUBSET (0..(ctx.level - 1))
  BY DEF HeardBefore
<1>3. IsFiniteSet(0..(ctx.level - 1))
  BY CopiesAreFinite
<1>4. IsFiniteSet(HeardBefore(ctx, word, s, c))
  BY <1>2, <1>3, FS_Subset
<1>5. NewName(ctx, word, s, c) \in Nat
  BY <1>4, FS_CardinalityType DEF NewName
<1>6. c \notin HeardBefore(ctx, word, s, c)
  <2> SUFFICES ASSUME NEW i \in 1..n, Hears(ctx, word, i, s, c), \A j \in 1..i : ~Hears(ctx, word, j, s, c)
               PROVE  FALSE
    BY <1>1 DEF HeardBefore
  <2> QED BY i \in 1..i
<1>7. ASSUME NEW d \in HeardBefore(ctx, word, s, c) PROVE Heard(ctx, word, s, d)
  BY DEF HeardBefore, Heard
<1> QED BY <1>2, <1>4, <1>5, <1>6, <1>7

\* Names are within bounds.
LEMMA NamesAreCopies ==
  ASSUME NEW ctx, IsContext(ctx), NEW n \in Nat, NEW word \in WordsOf(ctx, n), NEW s,
         NEW c \in 0..(ctx.level - 1)
  PROVE  NewName(ctx, word, s, c) \in 0..(ctx.level - 1)
<1> DEFINE all  == 0..(ctx.level - 1)
           rest == all \ {c}
<1>1. IsFiniteSet(all) /\ Cardinality(all) = ctx.level
  BY CopiesAreFinite
<1>2. IsFiniteSet(rest) /\ Cardinality(rest) = ctx.level - 1
  <2>1. c \in all
    OBVIOUS
  <2> HIDE DEF all
  <2> QED BY <1>1, <2>1, FS_RemoveElement
<1>3. HeardBefore(ctx, word, s, c) \in SUBSET rest
  BY HeardBeforeFacts
<1>4. NewName(ctx, word, s, c) <= Cardinality(rest)
  <2> HIDE DEF rest
  <2> QED BY <1>2, <1>3, FS_Subset DEF NewName
<1>5. NewName(ctx, word, s, c) \in Nat
  BY HeardBeforeFacts
<1> QED BY <1>2, <1>4, <1>5, ContextFacts

\* Of two copies, one is heard first.
LEMMA HearingIsTotal ==
  ASSUME NEW ctx, IsContext(ctx), NEW n \in Nat, NEW word \in WordsOf(ctx, n), NEW s, NEW c, NEW d,
         Heard(ctx, word, s, c), Heard(ctx, word, s, d), c # d
  PROVE  c \in HeardBefore(ctx, word, s, d) \/ d \in HeardBefore(ctx, word, s, c)
<1>1. DOMAIN word = 1..n
  BY DEF WordsOf
<1> DEFINE S == {i \in 1..n : Hears(ctx, word, i, s, c) \/ Hears(ctx, word, i, s, d)}
<1>2. S # {} /\ S \in SUBSET Nat
  BY <1>1 DEF Heard
<1>3. PICK i \in S : \A j \in S : i <= j
  <2> HIDE DEF S
  <2> QED BY <1>2, LeastOf
<1>4. \A j \in 1..i : j < i => ~Hears(ctx, word, j, s, c) /\ ~Hears(ctx, word, j, s, d)
  BY <1>3
<1>5. c \in 0..(ctx.level - 1) /\ d \in 0..(ctx.level - 1)
  BY <1>1, CopiesAreNumbers DEF Heard
<1>6. CASE Hears(ctx, word, i, s, c)
  <2>1. \A j \in 1..i : ~Hears(ctx, word, j, s, d)
    BY <1>4, <1>6, HearsOneCopy
  <2> QED BY <2>1, <1>1, <1>5, <1>6 DEF HeardBefore
<1>7. CASE Hears(ctx, word, i, s, d)
  <2>1. \A j \in 1..i : ~Hears(ctx, word, j, s, c)
    BY <1>4, <1>7, HearsOneCopy
  <2> QED BY <2>1, <1>1, <1>5, <1>7 DEF HeardBefore
<1> QED BY <1>3, <1>6, <1>7

\* What is heard before gets the smaller name.
LEMMA NamesFollowHearing ==
  ASSUME NEW ctx, IsContext(ctx), NEW n \in Nat, NEW word \in WordsOf(ctx, n), NEW s, NEW c, NEW d,
         c \in HeardBefore(ctx, word, s, d)
  PROVE  NewName(ctx, word, s, c) < NewName(ctx, word, s, d)
<1> DEFINE C == HeardBefore(ctx, word, s, c)
           D == HeardBefore(ctx, word, s, d)
<1>1. DOMAIN word = 1..n
  BY DEF WordsOf
<1>2. PICK i \in 1..n : Hears(ctx, word, i, s, c) /\ \A j \in 1..i : ~Hears(ctx, word, j, s, d)
  BY <1>1 DEF HeardBefore
<1>3. ASSUME NEW e \in C PROVE e \in D
  <2>1. PICK k \in 1..n : Hears(ctx, word, k, s, e) /\ \A j \in 1..k : ~Hears(ctx, word, j, s, c)
    BY <1>1 DEF HeardBefore
  <2>2. k < i
    BY <1>2, <2>1, i \in 1..k \/ k < i
  <2>3. \A j \in 1..k : ~Hears(ctx, word, j, s, d)
    BY <1>2, <2>2
  <2> QED BY <1>1, <2>1, <2>3 DEF HeardBefore
<1>4. c \notin C /\ c \in D /\ IsFiniteSet(C) /\ IsFiniteSet(D)
  BY HeardBeforeFacts
<1>5. Cardinality(C) <= Cardinality(D) /\ Cardinality(D) # Cardinality(C)
  <2> HIDE DEF C, D
  <2> QED BY <1>3, <1>4, FS_Subset
<1>6. Cardinality(C) \in Nat /\ Cardinality(D) \in Nat
  <2> HIDE DEF C, D
  <2> QED BY <1>4, FS_CardinalityType
<1> QED BY <1>5, <1>6 DEF NewName

LEMMA NamesAreDistinct ==
  ASSUME NEW ctx, IsContext(ctx), NEW n \in Nat, NEW word \in WordsOf(ctx, n), NEW s, NEW c, NEW d,
         Heard(ctx, word, s, c), Heard(ctx, word, s, d), c # d
  PROVE  NewName(ctx, word, s, c) # NewName(ctx, word, s, d)
<1>1. NewName(ctx, word, s, c) \in Nat /\ NewName(ctx, word, s, d) \in Nat
  BY HeardBeforeFacts
<1>2. CASE c \in HeardBefore(ctx, word, s, d)
  BY <1>1, <1>2, NamesFollowHearing
<1>3. CASE d \in HeardBefore(ctx, word, s, c)
  BY <1>1, <1>3, NamesFollowHearing
<1> QED BY <1>2, <1>3, HearingIsTotal

-----------------------------------------------------------------------------
(* Copies renamed.                                                         *)

\* new is operator op with the names of the copies that it hears.
Renames(ctx, word, op, new) ==
  /\ new \in OperatorsOf(ctx)
  /\ ctx.operators[new].observable = ctx.operators[op].observable
  /\ ctx.operators[new].outcome = ctx.operators[op].outcome
  /\ DOMAIN CopiesHeard(ctx, new) = DOMAIN CopiesHeard(ctx, op)
  /\ \A s \in DOMAIN CopiesHeard(ctx, op) :
       CopiesHeard(ctx, new)[s] = IF s \in Explicit(ctx) THEN NewName(ctx, word, s, CopiesHeard(ctx, op)[s])
                                  ELSE CopiesHeard(ctx, op)[s]

LEMMA RelabelledRenames ==
  ASSUME NEW ctx, IsContext(ctx), NEW n \in Nat, NEW word \in WordsOf(ctx, n), NEW op \in OperatorsOf(ctx)
  PROVE  Renames(ctx, word, op, Relabelled(ctx, word, op))
<1> DEFINE old == CopiesHeard(ctx, op)
           new == [s \in DOMAIN old |-> IF s \in Explicit(ctx) THEN NewName(ctx, word, s, old[s]) ELSE old[s]]
           Is(m) == IsOperator(ctx, m, ctx.operators[op].observable, new, ctx.operators[op].outcome)
<1>1. old \in [DOMAIN old -> 0..(ctx.level - 1)]
  BY ContextFacts
<1>2. new \in [DOMAIN old -> 0..(ctx.level - 1)]
  <2> SUFFICES ASSUME NEW s \in DOMAIN old PROVE new[s] \in 0..(ctx.level - 1)
    OBVIOUS
  <2>1. old[s] \in 0..(ctx.level - 1)
    BY <1>1
  <2>2. NewName(ctx, word, s, old[s]) \in 0..(ctx.level - 1)
    <3> HIDE DEF old
    <3> QED BY <2>1, NamesAreCopies
  <2> HIDE DEF old
  <2> QED BY <2>1, <2>2
<1>3. \A s \in DOMAIN new \ Explicit(ctx) : new[s] = old[s]
  OBVIOUS
<1>4. DOMAIN new = DOMAIN old
  OBVIOUS
<1>5. \E m \in OperatorsOf(ctx) : Is(m)
  <2> HIDE DEF new
  <2> QED BY <1>2, <1>3, <1>4, VariantsExist
<1>6. Relabelled(ctx, word, op) = CHOOSE m \in OperatorsOf(ctx) : Is(m)
  BY DEF Relabelled, OperatorsOf, CopiesHeard
<1> DEFINE r == CHOOSE m \in OperatorsOf(ctx) : Is(m)
<1>7. r \in OperatorsOf(ctx) /\ Is(r)
  <2> HIDE DEF Is
  <2> QED BY <1>5
<1> HIDE DEF r
<1>8. Renames(ctx, word, op, r)
  <2>1. CopiesHeard(ctx, r) = new
    BY <1>7 DEF IsOperator, CopiesHeard
  <2>2. ctx.operators[r].observable = ctx.operators[op].observable
        /\ ctx.operators[r].outcome = ctx.operators[op].outcome
    BY <1>7 DEF IsOperator
  <2> QED BY <1>7, <2>1, <2>2 DEF Renames
<1> QED BY <1>6, <1>8 DEF r

LEMMA PermutedWords ==
  ASSUME NEW ctx, IsContext(ctx), NEW n \in Nat, NEW word \in WordsOf(ctx, n)
  PROVE  /\ Permuted(ctx, word) \in WordsOf(ctx, n)
         /\ \A i \in 1..n : Renames(ctx, word, word[i], Permuted(ctx, word)[i])
<1>1. DOMAIN word = 1..n /\ \A i \in 1..n : word[i] \in OperatorsOf(ctx)
  BY DEF WordsOf
<1>2. Permuted(ctx, word) = [i \in 1..n |-> Relabelled(ctx, word, word[i])]
  BY <1>1, TableIsFunction DEF Permuted
<1>3. ASSUME NEW i \in 1..n PROVE Renames(ctx, word, word[i], Relabelled(ctx, word, word[i]))
  BY <1>1, RelabelledRenames
<1>4. ASSUME NEW i \in 1..n PROVE Relabelled(ctx, word, word[i]) \in OperatorsOf(ctx)
  BY <1>3 DEF Renames
<1> QED BY <1>2, <1>3, <1>4 DEF WordsOf

\* What operators of the renamed word hear.
LEMMA PermutedHears ==
  ASSUME NEW ctx, IsContext(ctx), NEW n \in Nat, NEW word \in WordsOf(ctx, n), NEW i \in 1..n, NEW s, NEW x
  PROVE  Hears(ctx, Permuted(ctx, word), i, s, x) <=>
           \E c : Hears(ctx, word, i, s, c) /\ x = IF s \in Explicit(ctx) THEN NewName(ctx, word, s, c) ELSE c
<1> DEFINE p == Permuted(ctx, word)
<1>1. Renames(ctx, word, word[i], p[i])
  BY PermutedWords
<1>2. ASSUME NEW c
      PROVE  /\ Hears(ctx, word, i, s, c) <=> s \in DOMAIN CopiesHeard(ctx, word[i]) /\ CopiesHeard(ctx, word[i])[s] = c
             /\ Hears(ctx, p, i, s, c) <=> s \in DOMAIN CopiesHeard(ctx, p[i]) /\ CopiesHeard(ctx, p[i])[s] = c
  BY DEF Hears, CopiesHeard
<1> HIDE DEF p
<1> QED BY <1>1, <1>2 DEF Renames, p

LEMMA SourcesHeardStay ==
  ASSUME NEW ctx, IsContext(ctx), NEW n \in Nat, NEW word \in WordsOf(ctx, n), NEW i \in 1..n, NEW j \in 1..n
  PROVE  Linked(ctx, Permuted(ctx, word)[i], Permuted(ctx, word)[j]) <=> Linked(ctx, word[i], word[j])
<1> DEFINE p == Permuted(ctx, word)
<1>1. ASSUME NEW w \in WordsOf(ctx, n)
      PROVE  Linked(ctx, w[i], w[j]) <=> \E s, c : Hears(ctx, w, i, s, c) /\ Hears(ctx, w, j, s, c)
  <2> DEFINE L == ctx.operators[w[i]].copies
             R == ctx.operators[w[j]].copies
  <2>1. Linked(ctx, w[i], w[j]) <=> \E s \in DOMAIN L, t \in DOMAIN R : <<s, L[s]>> = <<t, R[t]>>
    <3>1. Connected(ctx, w[i]) = {<<s, L[s]>> : s \in DOMAIN L} /\ Connected(ctx, w[j]) = {<<s, R[s]>> : s \in DOMAIN R}
      BY DEF Connected
    <3> HIDE DEF L, R
    <3> QED BY <3>1 DEF Linked
  <2>2. \A s, c : /\ Hears(ctx, w, i, s, c) <=> s \in DOMAIN L /\ L[s] = c
                  /\ Hears(ctx, w, j, s, c) <=> s \in DOMAIN R /\ R[s] = c
    BY DEF Hears
  <2> HIDE DEF L, R
  <2> QED BY <2>1, <2>2
<1>2. p \in WordsOf(ctx, n) /\ DOMAIN word = 1..n
  BY PermutedWords DEF WordsOf
<1>3. ASSUME NEW s, NEW c, Hears(ctx, word, i, s, c), Hears(ctx, word, j, s, c)
      PROVE  \E x : Hears(ctx, p, i, s, x) /\ Hears(ctx, p, j, s, x)
  <2> DEFINE x == IF s \in Explicit(ctx) THEN NewName(ctx, word, s, c) ELSE c
  <2>1. Hears(ctx, p, i, s, x) /\ Hears(ctx, p, j, s, x)
    BY <1>3, PermutedHears
  <2> QED BY <2>1
<1>4. ASSUME NEW s, NEW x, Hears(ctx, p, i, s, x), Hears(ctx, p, j, s, x)
      PROVE  \E c : Hears(ctx, word, i, s, c) /\ Hears(ctx, word, j, s, c)
  <2>1. PICK c : Hears(ctx, word, i, s, c) /\ x = IF s \in Explicit(ctx) THEN NewName(ctx, word, s, c) ELSE c
    BY <1>4, PermutedHears
  <2>2. PICK d : Hears(ctx, word, j, s, d) /\ x = IF s \in Explicit(ctx) THEN NewName(ctx, word, s, d) ELSE d
    BY <1>4, PermutedHears
  <2>3. c = d
    <3>1. Heard(ctx, word, s, c) /\ Heard(ctx, word, s, d)
      BY <1>2, <2>1, <2>2 DEF Heard
    <3> QED BY <2>1, <2>2, <3>1, NamesAreDistinct
  <2> QED BY <2>1, <2>2, <2>3
<1> HIDE DEF p
<1> QED BY <1>1, <1>2, <1>3, <1>4 DEF p

\* Operators stay the same, or different, and so do the variants they belong to.
LEMMA VariantsStay ==
  ASSUME NEW ctx, IsContext(ctx), NEW n \in Nat, NEW word \in WordsOf(ctx, n), NEW i \in 1..n, NEW j \in 1..n
  PROVE  /\ SameVariant(ctx, Permuted(ctx, word)[i], Permuted(ctx, word)[j]) => SameVariant(ctx, word[i], word[j])
         /\ Permuted(ctx, word)[i] = Permuted(ctx, word)[j] => word[i] = word[j]
         /\ word[i] = word[j] => Permuted(ctx, word)[i] = Permuted(ctx, word)[j]
<1> DEFINE p == Permuted(ctx, word)
<1>1. Renames(ctx, word, word[i], p[i]) /\ Renames(ctx, word, word[j], p[j])
  BY PermutedWords
<1>2. /\ word[i] \in OperatorsOf(ctx) /\ word[j] \in OperatorsOf(ctx) /\ DOMAIN word = 1..n
      /\ \A k \in 1..n : CopiesHeard(ctx, word[k]) \in [DOMAIN CopiesHeard(ctx, word[k]) -> 0..(ctx.level - 1)]
  BY ContextFacts DEF WordsOf
<1> HIDE DEF p
<1>3. ASSUME ctx.operators[p[i]].observable = ctx.operators[p[j]].observable,
             CopiesHeard(ctx, p[i]) = CopiesHeard(ctx, p[j])
      PROVE  /\ ctx.operators[word[i]].observable = ctx.operators[word[j]].observable
             /\ CopiesHeard(ctx, word[i]) = CopiesHeard(ctx, word[j])
  <2>1. ctx.operators[word[i]].observable = ctx.operators[word[j]].observable
    BY <1>1, <1>3 DEF Renames
  <2>2. DOMAIN CopiesHeard(ctx, word[i]) = DOMAIN CopiesHeard(ctx, word[j])
    BY <1>1, <1>3 DEF Renames
  <2>3. ASSUME NEW s \in DOMAIN CopiesHeard(ctx, word[i])
        PROVE  CopiesHeard(ctx, word[i])[s] = CopiesHeard(ctx, word[j])[s]
    <3> DEFINE c == CopiesHeard(ctx, word[i])[s]
               d == CopiesHeard(ctx, word[j])[s]
    <3>1. Heard(ctx, word, s, c) /\ Heard(ctx, word, s, d)
      BY <1>2, <2>2 DEF Heard, Hears, CopiesHeard
    <3>2. CASE s \in Explicit(ctx)
      <4>1. NewName(ctx, word, s, c) = NewName(ctx, word, s, d)
        BY <1>1, <1>3, <2>2, <3>2 DEF Renames
      <4> HIDE DEF c, d
      <4> QED BY <3>1, <4>1, NamesAreDistinct DEF c, d
    <3>3. CASE s \notin Explicit(ctx)
      BY <1>1, <1>3, <2>2, <3>3 DEF Renames
    <3> QED BY <3>2, <3>3
  <2>4. CopiesHeard(ctx, word[i]) = CopiesHeard(ctx, word[j])
    BY <1>2, <2>2, <2>3
  <2> QED BY <2>1, <2>4
<1>4. SameVariant(ctx, p[i], p[j]) => SameVariant(ctx, word[i], word[j])
  BY <1>3 DEF SameVariant, CopiesHeard
<1>5. ASSUME p[i] = p[j] PROVE word[i] = word[j]
  <2>1. ctx.operators[word[i]].outcome = ctx.operators[word[j]].outcome
    BY <1>1, <1>5 DEF Renames
  <2> QED BY <1>2, <1>3, <1>5, <2>1, OperatorsAreDistinct
<1>6. ASSUME word[i] = word[j] PROVE p[i] = p[j]
  BY <1>2, <1>6, TableIsFunction DEF p, Permuted
<1> QED BY <1>4, <1>5, <1>6 DEF p

\* Renaming in the order of hearing is done once: the names are then in order.
LEMMA NamesStay ==
  ASSUME NEW ctx, IsContext(ctx), NEW n \in Nat, NEW word \in WordsOf(ctx, n)
  PROVE  ~CanBeSimplified(ctx, Permuted(ctx, word))
<1> DEFINE p == Permuted(ctx, word)
<1>1. DOMAIN p = 1..n /\ DOMAIN word = 1..n /\ p \in WordsOf(ctx, n)
  BY PermutedWords DEF WordsOf
<1> HIDE DEF p
<1> SUFFICES ASSUME NEW i \in 1..n, NEW s \in Explicit(ctx), NEW x \in 0..(ctx.level - 1), Hears(ctx, p, i, s, x)
             PROVE  NewName(ctx, p, s, x) = x
  BY <1>1 DEF CanBeSimplified, p
<1>2. PICK c : Hears(ctx, word, i, s, c) /\ x = NewName(ctx, word, s, c)
  BY PermutedHears DEF p
<1>3. Heard(ctx, word, s, c) /\ c \in 0..(ctx.level - 1)
  BY <1>1, <1>2, CopiesAreNumbers DEF Heard
<1> DEFINE old  == HeardBefore(ctx, word, s, c)
           new  == HeardBefore(ctx, p, s, x)
           name == [d \in old |-> NewName(ctx, word, s, d)]
<1>4. ASSUME NEW d \in old PROVE name[d] \in new
  <2>1. PICK k \in 1..n : Hears(ctx, word, k, s, d) /\ \A j \in 1..k : ~Hears(ctx, word, j, s, c)
    BY <1>1 DEF HeardBefore
  <2>2. Hears(ctx, p, k, s, name[d])
    BY <2>1, PermutedHears DEF p
  <2>3. ASSUME NEW j \in 1..k, Hears(ctx, p, j, s, x) PROVE FALSE
    <3>1. j \in 1..n
      OBVIOUS
    <3>2. PICK e : Hears(ctx, word, j, s, e) /\ x = NewName(ctx, word, s, e)
      BY <2>3, <3>1, PermutedHears DEF p
    <3>3. e = c
      <4>1. Heard(ctx, word, s, e)
        BY <3>1, <3>2, <1>1 DEF Heard
      <4> QED BY <4>1, <3>2, <1>2, <1>3, NamesAreDistinct
    <3> QED BY <2>1, <3>2, <3>3
  <2>4. name[d] \in 0..(ctx.level - 1)
    BY NamesAreCopies, HeardBeforeFacts
  <2> HIDE DEF name
  <2> QED BY <1>1, <2>2, <2>3, <2>4 DEF HeardBefore
<1>5. ASSUME NEW y \in new PROVE \E d \in old : name[d] = y
  <2>1. PICK k \in 1..n : Hears(ctx, p, k, s, y) /\ \A j \in 1..k : ~Hears(ctx, p, j, s, x)
    BY <1>1 DEF HeardBefore
  <2>2. PICK d : Hears(ctx, word, k, s, d) /\ y = NewName(ctx, word, s, d)
    BY <2>1, PermutedHears DEF p
  <2>3. ASSUME NEW j \in 1..k, Hears(ctx, word, j, s, c) PROVE FALSE
    <3>1. j \in 1..n /\ Hears(ctx, p, j, s, x)
      BY <2>3, <1>2, PermutedHears DEF p
    <3> QED BY <2>1, <3>1
  <2>4. d \in old
    <3>1. d \in 0..(ctx.level - 1)
      BY <2>2, CopiesAreNumbers
    <3> QED BY <1>1, <2>2, <2>3, <3>1 DEF HeardBefore
  <2> QED BY <2>2, <2>4
<1>6. IsFiniteSet(old) /\ \A d \in old : Heard(ctx, word, s, d)
  BY HeardBeforeFacts
<1>7. \A d, e \in old : name[d] = name[e] => d = e
  BY <1>6, NamesAreDistinct
<1>8. name \in Bijection(old, new)
  <2> HIDE DEF old, new
  <2>1. name \in [old -> new]
    BY <1>4
  <2> HIDE DEF name
  <2> QED BY <2>1, <1>5, <1>7 DEF Bijection, Injection, Surjection, IsInjective
<1>9. Cardinality(new) = Cardinality(old)
  <2> HIDE DEF old, new, name
  <2>1. ExistsBijection(old, new)
    BY <1>8 DEF ExistsBijection
  <2> QED BY <1>6, <2>1, FS_Bijection
<1> QED BY <1>2, <1>9 DEF NewName

-----------------------------------------------------------------------------
(* Words simplified.                                                       *)

Clash(ctx, l, r) == Orthogonal(ctx, l, r) \/ Redundant(ctx, l, r)
Apart(ctx, word) == \A i, j \in DOMAIN word : i # j => ~Clash(ctx, word[i], word[j])
Reduced(ctx, n, word) == word \in WordsOf(ctx, n) /\ InOrder(word) /\ Apart(ctx, word)

\* No part of the word can be divided from the rest.
Whole(ctx, word) ==
  \A C \in SUBSET DOMAIN word :
    C # {} /\ (\A i \in C, j \in DOMAIN word : Linked(ctx, word[i], word[j]) => j \in C) => C = DOMAIN word

LEMMA WordsAreLists ==
  ASSUME NEW ctx, IsContext(ctx), NEW n \in Nat, NEW word \in WordsOf(ctx, n)
  PROVE  /\ DOMAIN word = 1..n /\ Len(word) = n /\ word \in [1..n -> Int] /\ word \in Seq(OperatorsOf(ctx))
         /\ \A i \in 1..n : word[i] \in OperatorsOf(ctx) /\ word[i] \in Nat
         /\ word = [i \in 1..n |-> word[i]]
<1>1. DOMAIN word = 1..n /\ \A i \in 1..n : word[i] \in OperatorsOf(ctx)
  BY DEF WordsOf
<1>2. \A i \in 1..n : word[i] \in Nat
  BY <1>1, ContextFacts
<1>3. word \in Seq(OperatorsOf(ctx))
  BY DEF WordsOf
<1>4. Len(word) = n
  BY <1>1, <1>3
<1> QED BY <1>1, <1>2, <1>3, <1>4 DEF WordsOf

LEMMA SortedWord ==
  ASSUME NEW ctx, IsContext(ctx), NEW n \in Nat, NEW word \in WordsOf(ctx, n)
  PROVE  /\ Sorted(word) \in WordsOf(ctx, n) /\ InOrder(Sorted(word))
         /\ Apart(ctx, word) => Apart(ctx, Sorted(word))
         /\ Whole(ctx, word) => Whole(ctx, Sorted(word))
         /\ \E at : Sorts(n, word, at)
<1>1. PICK at : Sorts(n, word, at)
  BY SortedList, WordsAreLists
<1>2. InOrder(Sorted(word))
  BY SortedList, WordsAreLists
<1>3. /\ \A k \in 1..n : at[k] \in 1..n
      /\ \A k, m \in 1..n : at[k] = at[m] => k = m
      /\ \A i \in 1..n : \E k \in 1..n : at[k] = i
  BY <1>1 DEF Sorts, Bijection, Injection, Surjection, IsInjective
<1>4. DOMAIN word = 1..n /\ DOMAIN Sorted(word) = 1..n /\ \A k \in 1..n : Sorted(word)[k] = word[at[k]]
  BY <1>1 DEF WordsOf, Sorts
<1>5. Sorted(word) \in WordsOf(ctx, n)
  BY <1>1, <1>3 DEF WordsOf, Sorts
<1>6. ASSUME Apart(ctx, word) PROVE Apart(ctx, Sorted(word))
  <2>1. \A i, j \in 1..n : i # j => ~Clash(ctx, word[i], word[j])
    BY <1>4, <1>6 DEF Apart
  <2>2. \A k, m \in 1..n : k # m => at[k] # at[m]
    BY <1>3
  <2>3. \A k, m \in 1..n : k # m => ~Clash(ctx, Sorted(word)[k], Sorted(word)[m])
    <3> SUFFICES ASSUME NEW k \in 1..n, NEW m \in 1..n, k # m
                 PROVE  ~Clash(ctx, Sorted(word)[k], Sorted(word)[m])
      OBVIOUS
    <3>1. at[k] \in 1..n /\ at[m] \in 1..n /\ at[k] # at[m]
      BY <1>3, <2>2
    <3>2. Sorted(word)[k] = word[at[k]] /\ Sorted(word)[m] = word[at[m]]
      BY <1>4
    <3>3. ~Clash(ctx, word[at[k]], word[at[m]])
      BY <2>1, <3>1
    <3> QED BY <3>2, <3>3
  <2> QED BY <1>4, <2>3 DEF Apart
<1>7. ASSUME Whole(ctx, word) PROVE Whole(ctx, Sorted(word))
  <2> SUFFICES ASSUME NEW C \in SUBSET (1..n), C # {},
                      \A i \in C, j \in 1..n : Linked(ctx, Sorted(word)[i], Sorted(word)[j]) => j \in C
               PROVE  C = 1..n
    BY <1>4 DEF Whole
  <2> DEFINE D == {at[k] : k \in C}
  <2>1. D \in SUBSET (1..n) /\ D # {}
    <3>1. \A k \in C : at[k] \in 1..n
      BY <1>3
    <3> QED BY <3>1
  <2>2. ASSUME NEW i \in D, NEW j \in 1..n, Linked(ctx, word[i], word[j]) PROVE j \in D
    <3>1. PICK k \in C : at[k] = i
      OBVIOUS
    <3>2. PICK m \in 1..n : at[m] = j
      BY <1>3
    <3>3. m \in C
      BY <2>2, <3>1, <3>2, <1>4
    <3> QED BY <3>2, <3>3
  <2>3. D = 1..n
    <3> HIDE DEF D
    <3> QED BY <1>4, <1>7, <2>1, <2>2 DEF Whole
  <2>4. ASSUME NEW k \in 1..n PROVE k \in C
    <3>1. at[k] \in D
      BY <1>3, <2>3
    <3>2. PICK m \in C : at[m] = at[k]
      BY <3>1
    <3> QED BY <1>3, <3>2
  <2> QED BY <2>4
<1> QED BY <1>1, <1>2, <1>5, <1>6, <1>7

\* A word without operators that clash is only put in order.
LEMMA ApartSimplifies ==
  ASSUME NEW ctx, IsContext(ctx), NEW n \in Nat, NEW word \in WordsOf(ctx, n), Apart(ctx, word)
  PROVE  SimplifyWord(ctx, word) = Moment(Sorted(word)) /\ Reduced(ctx, n, Sorted(word))
<1> DEFINE sorted == Sorted(word)
<1>1. sorted \in WordsOf(ctx, n) /\ Reduced(ctx, n, sorted)
  BY SortedWord DEF Reduced
<1>2. DOMAIN sorted = 1..n /\ Len(sorted) = n /\ sorted = [i \in 1..n |-> sorted[i]]
  BY <1>1, WordsAreLists
<1>3. \A i \in 2..n : ~Clash(ctx, sorted[i - 1], sorted[i])
  BY <1>1, <1>2 DEF Reduced, Apart
<1>4. {i \in DOMAIN sorted : i = 1 \/ ~Redundant(ctx, sorted[i - 1], sorted[i])} = 1..n
  <2>1. ASSUME NEW i \in 1..n PROVE i = 1 \/ ~Redundant(ctx, sorted[i - 1], sorted[i])
    <3>1. CASE i = 1
      BY <3>1
    <3>2. CASE i \in 2..n
      BY <1>3, <3>2 DEF Clash
    <3> QED BY <3>1, <3>2
  <2> HIDE DEF sorted
  <2> QED BY <1>2, <2>1
<1>5. SimplifyWord(ctx, word) = Moment(Subsequence(sorted, 1..n))
  BY <1>2, <1>3, <1>4 DEF SimplifyWord, Clash
<1>6. Subsequence(sorted, 1..n) = sorted
  <2> HIDE DEF sorted
  <2> QED BY <1>2, SubsequenceOfAll
<1> QED BY <1>1, <1>5, <1>6

LEMMA ReducedSimplifies ==
  ASSUME NEW ctx, IsContext(ctx), NEW n \in Nat, NEW word, Reduced(ctx, n, word)
  PROVE  SimplifyWord(ctx, word) = Moment(word)
BY ApartSimplifies, SortedStays, WordsAreLists DEF Reduced

\* A word that is not zero becomes one without operators that clash.
LEMMA SimplifiedIsReduced ==
  ASSUME NEW ctx, IsContext(ctx), NEW n \in Nat, NEW word \in WordsOf(ctx, n)
  PROVE  \/ SimplifyWord(ctx, word) = ZeroMoment
         \/ \E m \in Nat : \E v : SimplifyWord(ctx, word) = Moment(v) /\ Reduced(ctx, m, v)
<1> DEFINE sorted == Sorted(word)
           kept   == {i \in DOMAIN sorted : i = 1 \/ ~Redundant(ctx, sorted[i - 1], sorted[i])}
<1> SUFFICES ASSUME ~\E i \in 2..Len(sorted) : Orthogonal(ctx, sorted[i - 1], sorted[i])
             PROVE  \E m \in Nat : \E v : SimplifyWord(ctx, word) = Moment(v) /\ Reduced(ctx, m, v)
  BY DEF SimplifyWord
<1>1. sorted \in WordsOf(ctx, n) /\ InOrder(sorted)
  BY SortedWord
<1>2. DOMAIN sorted = 1..n /\ Len(sorted) = n /\ \A i \in 1..n : sorted[i] \in OperatorsOf(ctx) /\ sorted[i] \in Nat
  BY <1>1, WordsAreLists
<1>m. ASSUME NEW a \in 1..n, NEW b \in 1..n, a <= b PROVE sorted[a] <= sorted[b]
  <2> HIDE DEF sorted
  <2>1. CASE a = b
    BY <2>1, <1>2
  <2>2. CASE a < b
    BY <2>2, <1>1, <1>2 DEF InOrder
  <2> QED BY <2>1, <2>2, <1>m
<1>3. SimplifyWord(ctx, word) = Moment(Subsequence(sorted, kept))
  BY DEF SimplifyWord
<1>4. kept \in SUBSET (1..n)
  BY <1>2
<1>5. Cardinality(kept) \in Nat
  <2>1. IsFiniteSet(1..n)
    BY FS_Interval
  <2> HIDE DEF kept
  <2>2. IsFiniteSet(kept)
    BY <1>4, <2>1, FS_Subset
  <2> QED BY <2>2, FS_CardinalityType
<1>6. ASSUME NEW i \in 1..n, NEW j \in kept, i < j PROVE ~Clash(ctx, sorted[i], sorted[j])
  <2>1. CASE sorted[i] = sorted[j]
    <3>1. j - 1 \in 1..n /\ j \in 1..n /\ j - 1 < j /\ i <= j - 1
      BY <1>4, <1>6
    <3>4. sorted[i] <= sorted[j - 1] /\ sorted[j - 1] <= sorted[j]
      BY <1>m, <3>1
    <3>2. sorted[j - 1] = sorted[j]
      BY <2>1, <3>1, <3>4, <1>2
    <3>3. ~Redundant(ctx, sorted[j - 1], sorted[j])
      BY <1>6
    <3> QED BY <2>1, <3>2, <3>3 DEF Clash, Orthogonal
  <2>2. CASE sorted[i] # sorted[j]
    <3> SUFFICES ASSUME SameVariant(ctx, sorted[i], sorted[j]) PROVE FALSE
      BY <2>2 DEF Clash, Orthogonal, Redundant
    <3> DEFINE S == {k \in i..j : sorted[k] # sorted[i]}
    <3>1. j \in S /\ S \in SUBSET Nat
      BY <2>2, <1>6, <1>4
    <3>2. PICK k \in S : \A m \in S : k <= m
      <4> HIDE DEF S
      <4> QED BY <3>1, LeastOf
    <3>3. k \in 2..n /\ k - 1 \in 1..n /\ i < k /\ k <= j
      BY <3>2, <1>4, <1>6
    <3>4. sorted[k - 1] = sorted[i]
      <4>1. k - 1 \in i..j /\ k - 1 \notin S
        BY <3>2, <3>3
      <4> QED BY <4>1
    <3>5. sorted[i] <= sorted[k] /\ sorted[k] <= sorted[j]
      BY <1>m, <1>4, <3>3
    <3>6. SameVariant(ctx, sorted[i], sorted[k])
      BY <3>3, <3>5, <1>2, <1>4, VariantsAreIntervals
    <3>7. Orthogonal(ctx, sorted[k - 1], sorted[k])
      BY <3>2, <3>4, <3>6 DEF Orthogonal
    <3> QED BY <1>2, <3>3, <3>7
  <2> QED BY <2>1, <2>2
<1>7. PICK at : Keeps(sorted, kept, at)
  <2> HIDE DEF kept, sorted
  <2> QED BY <1>4, SubsequenceOf
<1> DEFINE m == Cardinality(kept)
           v == Subsequence(sorted, kept)
<1> HIDE DEF kept, sorted
<1>8. /\ v = [k \in 1..m |-> sorted[at[k]]] /\ \A k \in 1..m : at[k] \in kept
      /\ \A k, l \in 1..m : k < l => at[k] < at[l]
  BY <1>7 DEF Keeps, Bijection, Injection
<1> HIDE DEF m, v
<1>9. v \in WordsOf(ctx, m)
  BY <1>2, <1>4, <1>8 DEF WordsOf
<1>10. InOrder(v)
  BY <1>1, <1>2, <1>4, <1>8 DEF InOrder
<1>11. Apart(ctx, v)
  <2>1. ASSUME NEW k \in 1..m, NEW l \in 1..m, k < l PROVE ~Clash(ctx, v[k], v[l])
    BY <1>4, <1>6, <1>8, <2>1
  <2>2. \A x, y : Clash(ctx, x, y) => Clash(ctx, y, x)
    BY DEF Clash, Orthogonal, Redundant, SameVariant
  <2>3. m \in Nat /\ DOMAIN v = 1..m
    BY <1>5, <1>8 DEF m
  <2> QED BY <2>1, <2>2, <2>3 DEF Apart
<1>12. SimplifyWord(ctx, word) = Moment(v) /\ m \in Nat
  BY <1>3, <1>5 DEF v, m
<1> QED BY <1>9, <1>10, <1>11, <1>12 DEF Reduced

\* One step of simplify_as_moment renames the copies and puts the operators in order.
LEMMA StepSorts ==
  ASSUME NEW ctx, IsContext(ctx), NEW n \in Nat, NEW word, Reduced(ctx, n, word)
  PROVE  LET next == Sorted(Permuted(ctx, word))
         IN  /\ SimplifyWord(ctx, Permuted(ctx, word)) = Moment(next)
             /\ Reduced(ctx, n, next)
             /\ Whole(ctx, word) => Whole(ctx, next)
             /\ IsSorted(Permuted(ctx, word), =<) => next = Permuted(ctx, word)
<1> DEFINE p == Permuted(ctx, word)
<1>1. word \in WordsOf(ctx, n) /\ p \in WordsOf(ctx, n)
  BY PermutedWords DEF Reduced
<1>2. DOMAIN word = 1..n /\ DOMAIN p = 1..n /\ p \in [1..n -> Int] /\ Len(p) = n
  BY <1>1, WordsAreLists
<1>3. Apart(ctx, p)
  <2> SUFFICES ASSUME NEW i \in 1..n, NEW j \in 1..n, i # j, Clash(ctx, p[i], p[j]) PROVE FALSE
    BY <1>2 DEF Apart
  <2>1. ~Clash(ctx, word[i], word[j])
    BY <1>2 DEF Reduced, Apart
  <2>2. Orthogonal(ctx, p[i], p[j]) => Orthogonal(ctx, word[i], word[j])
    BY <1>1, VariantsStay DEF Orthogonal
  <2>3. Redundant(ctx, p[i], p[j]) => Redundant(ctx, word[i], word[j])
    <3>1. ctx.operators[p[i]].observable = ctx.operators[word[i]].observable
      BY <1>1, PermutedWords DEF Renames
    <3> QED BY <1>1, <3>1, VariantsStay DEF Redundant
  <2> QED BY <2>1, <2>2, <2>3 DEF Clash
<1>4. SimplifyWord(ctx, p) = Moment(Sorted(p)) /\ Reduced(ctx, n, Sorted(p))
  BY <1>1, <1>3, ApartSimplifies
<1>5. Whole(ctx, word) => Whole(ctx, p)
  <2>1. \A i, j \in 1..n : Linked(ctx, p[i], p[j]) <=> Linked(ctx, word[i], word[j])
    BY <1>1, SourcesHeardStay
  <2> HIDE DEF p
  <2> QED BY <1>2, <2>1 DEF Whole
<1>6. Whole(ctx, p) => Whole(ctx, Sorted(p))
  BY <1>1, SortedWord
<1>7. ASSUME IsSorted(p, =<) PROVE Sorted(p) = p
  <2>1. InOrder(p)
    BY <1>2, <1>7 DEF InOrder, IsSorted
  <2> QED BY <1>2, <2>1, SortedStays
<1> QED BY <1>4, <1>5, <1>6, <1>7

-----------------------------------------------------------------------------
(* simplify_as_moment ends.                                                *)

\* The positions of operators up to x, and how many there are.
UpTo(word, x)  == {i \in DOMAIN word : word[i] <= x}
Count(word, x) == Cardinality(UpTo(word, x))

LEMMA CountsAreBounded ==
  ASSUME NEW ctx, IsContext(ctx), NEW n \in Nat, NEW word \in WordsOf(ctx, n), NEW x
  PROVE  IsFiniteSet(UpTo(word, x)) /\ Count(word, x) \in 0..n
<1>1. UpTo(word, x) \in SUBSET (1..n)
  BY WordsAreLists DEF UpTo
<1>2. IsFiniteSet(1..n) /\ Cardinality(1..n) = n
  BY FS_Interval
<1>3. IsFiniteSet(UpTo(word, x)) /\ Cardinality(UpTo(word, x)) <= n
  BY <1>1, <1>2, FS_Subset
<1>4. Cardinality(UpTo(word, x)) \in Nat
  BY <1>3, FS_CardinalityType
<1> QED BY <1>3, <1>4 DEF Count

LEMMA CountsAreMonotone ==
  ASSUME NEW ctx, IsContext(ctx), NEW n \in Nat, NEW v \in WordsOf(ctx, n), NEW w \in WordsOf(ctx, n), NEW x,
         UpTo(v, x) \subseteq UpTo(w, x)
  PROVE  /\ Count(v, x) <= Count(w, x)
         /\ UpTo(v, x) # UpTo(w, x) => Count(v, x) < Count(w, x)
<1>1. IsFiniteSet(UpTo(w, x)) /\ Count(v, x) \in Nat /\ Count(w, x) \in Nat
  BY CountsAreBounded
<1>2. Count(v, x) <= Count(w, x) /\ (Count(w, x) = Count(v, x) => UpTo(w, x) = UpTo(v, x))
  BY <1>1, FS_Subset DEF Count
<1> QED BY <1>1, <1>2

LEMMA SortingKeepsCounts ==
  ASSUME NEW ctx, IsContext(ctx), NEW n \in Nat, NEW word \in WordsOf(ctx, n), NEW x
  PROVE  Count(Sorted(word), x) = Count(word, x)
<1>1. PICK at : Sorts(n, word, at)
  BY SortedWord
<1>2. /\ \A k \in 1..n : at[k] \in 1..n
      /\ \A k, m \in 1..n : at[k] = at[m] => k = m
      /\ \A i \in 1..n : \E k \in 1..n : at[k] = i
  BY <1>1 DEF Sorts, Bijection, Injection, Surjection, IsInjective
<1>3. DOMAIN word = 1..n /\ DOMAIN Sorted(word) = 1..n /\ \A k \in 1..n : Sorted(word)[k] = word[at[k]]
  BY <1>1 DEF WordsOf, Sorts
<1> DEFINE S == UpTo(Sorted(word), x)
           T == UpTo(word, x)
           f == [k \in S |-> at[k]]
<1>4. \A k \in 1..n : k \in S <=> at[k] \in T
  BY <1>2, <1>3 DEF UpTo
<1>5. S \in SUBSET (1..n) /\ T \in SUBSET (1..n)
  BY <1>3 DEF UpTo
<1> HIDE DEF S, T
<1>6. f \in [S -> T] /\ \A k \in S : f[k] = at[k]
  BY <1>4, <1>5
<1> HIDE DEF f
<1>7. \A k, m \in S : f[k] = f[m] => k = m
  BY <1>2, <1>5, <1>6
<1>8. \A i \in T : \E k \in S : f[k] = i
  BY <1>2, <1>4, <1>5, <1>6
<1>9. ExistsBijection(S, T)
  BY <1>6, <1>7, <1>8 DEF ExistsBijection, Bijection, Injection, Surjection, IsInjective
<1>10. IsFiniteSet(S)
  BY SortedWord, CountsAreBounded DEF S
<1> QED BY <1>9, <1>10, FS_Bijection DEF Count, S, T

\* Names up to the first that changes are those of the copies; that one becomes smaller.
LEMMA FirstChange ==
  ASSUME NEW ctx, IsContext(ctx), NEW n \in Nat, NEW word \in WordsOf(ctx, n), CanBeSimplified(ctx, word)
  PROVE  \E p \in 1..n : /\ Permuted(ctx, word)[p] < word[p]
                         /\ \A i \in 1..n : i < p => Permuted(ctx, word)[i] = word[i]
<1> DEFINE Changes(i) == \E s \in Explicit(ctx), c \in 0..(ctx.level - 1) :
                           Hears(ctx, word, i, s, c) /\ NewName(ctx, word, s, c) # c
           S == {i \in 1..n : Changes(i)}
           new == Permuted(ctx, word)
<1>1. DOMAIN word = 1..n /\ (\A i \in 1..n : word[i] \in OperatorsOf(ctx) /\ word[i] \in Nat)
  BY WordsAreLists
<1>2. S # {} /\ S \in SUBSET Nat
  BY <1>1 DEF CanBeSimplified
<1>3. PICK p \in S : \A j \in S : p <= j
  <2> HIDE DEF S
  <2> QED BY <1>2, LeastOf
<1>4. p \in 1..n /\ \A i \in 1..n : i < p => ~Changes(i)
  BY <1>3
<1>5. \A i \in 1..n : Renames(ctx, word, word[i], new[i])
  BY PermutedWords
<1>6. ASSUME NEW i \in 1..n
      PROVE  /\ CopiesHeard(ctx, word[i]) \in [DOMAIN CopiesHeard(ctx, word[i]) -> 0..(ctx.level - 1)]
             /\ CopiesHeard(ctx, new[i]) \in [DOMAIN CopiesHeard(ctx, word[i]) -> 0..(ctx.level - 1)]
             /\ \A s, c : Hears(ctx, word, i, s, c) <=>
                            s \in DOMAIN CopiesHeard(ctx, word[i]) /\ CopiesHeard(ctx, word[i])[s] = c
  <2>1. \A m \in OperatorsOf(ctx) : CopiesHeard(ctx, m) \in [DOMAIN CopiesHeard(ctx, m) -> 0..(ctx.level - 1)]
    BY ContextFacts
  <2>2. new[i] \in OperatorsOf(ctx) /\ DOMAIN CopiesHeard(ctx, new[i]) = DOMAIN CopiesHeard(ctx, word[i])
    BY <1>5 DEF Renames
  <2>3. CopiesHeard(ctx, new[i]) \in [DOMAIN CopiesHeard(ctx, word[i]) -> 0..(ctx.level - 1)]
    BY <2>1, <2>2
  <2>4. CopiesHeard(ctx, word[i]) \in [DOMAIN CopiesHeard(ctx, word[i]) -> 0..(ctx.level - 1)]
    BY <1>1, <2>1
  <2>5. \A s, c : Hears(ctx, word, i, s, c) <=>
                    s \in DOMAIN CopiesHeard(ctx, word[i]) /\ CopiesHeard(ctx, word[i])[s] = c
    BY DEF Hears, CopiesHeard
  <2> QED BY <2>3, <2>4, <2>5
<1> HIDE DEF new, S
<1>7. ASSUME NEW i \in 1..n, i < p PROVE new[i] = word[i]
  <2>1. ASSUME NEW s \in DOMAIN CopiesHeard(ctx, word[i])
        PROVE  CopiesHeard(ctx, new[i])[s] = CopiesHeard(ctx, word[i])[s]
    <3> DEFINE c == CopiesHeard(ctx, word[i])[s]
    <3>1. c \in 0..(ctx.level - 1) /\ Hears(ctx, word, i, s, c)
      BY <1>6
    <3>2. s \in Explicit(ctx) => NewName(ctx, word, s, c) = c
      <4> HIDE DEF c
      <4> QED BY <1>4, <1>7, <3>1
    <3>3. CopiesHeard(ctx, new[i])[s] = IF s \in Explicit(ctx) THEN NewName(ctx, word, s, c) ELSE c
      BY <1>5 DEF Renames
    <3> QED BY <3>2, <3>3
  <2>2. CopiesHeard(ctx, new[i]) = CopiesHeard(ctx, word[i])
    BY <1>6, <2>1
  <2> QED BY <1>1, <1>5, <2>2, OperatorsAreDistinct DEF Renames
<1>8. ASSUME NEW s \in Explicit(ctx), NEW c, Hears(ctx, word, p, s, c)
      PROVE  NewName(ctx, word, s, c) <= c
  <2> DEFINE H == HeardBefore(ctx, word, s, c)
             m == NewName(ctx, word, s, c)
  <2>1. c \in 0..(ctx.level - 1) /\ c \in Nat
    BY <1>4, <1>8, CopiesAreNumbers
  <2>2. m \in Nat /\ IsFiniteSet(H) /\ c \notin H /\ H \in SUBSET (0..(ctx.level - 1))
    BY HeardBeforeFacts
  <2>3. CASE \E i \in 1..n : i < p /\ Hears(ctx, word, i, s, c)
    BY <2>1, <2>3, <1>4
  <2>4. CASE ~\E i \in 1..n : i < p /\ Hears(ctx, word, i, s, c)
    <3>1. ASSUME NEW d \in H PROVE d \in 0..(m - 1)
      <4>1. PICK i \in 1..n : Hears(ctx, word, i, s, d) /\ \A j \in 1..i : ~Hears(ctx, word, j, s, c)
        BY <1>1 DEF HeardBefore
      <4>2. i < p
        BY <1>4, <1>8, <4>1, p \in 1..i \/ i < p
      <4>3. NewName(ctx, word, s, d) = d
        BY <1>4, <2>2, <4>1, <4>2
      <4>4. NewName(ctx, word, s, d) < m /\ d \in Nat
        BY <2>2, NamesFollowHearing
      <4> QED BY <2>2, <4>3, <4>4
    <3>2. IsFiniteSet(0..(m - 1)) /\ Cardinality(0..(m - 1)) = m
      <4> HIDE DEF m
      <4> QED BY <2>2, FS_Interval, m - 1 \in Int, 0 \in Int
    <3>3. Cardinality(H) = m
      BY DEF NewName
    <3>4. 0..(m - 1) = H
      <4> HIDE DEF H, m
      <4> QED BY <3>1, <3>2, <3>3, FS_Subset
    <3>5. c \notin 0..(m - 1)
      <4> HIDE DEF m
      <4> QED BY <2>2, <3>4
    <3> HIDE DEF m
    <3> QED BY <2>1, <2>2, <3>5 DEF m
  <2> QED BY <2>3, <2>4
<1>9. new[p] <= word[p]
  <2>1. ASSUME NEW s \in DOMAIN CopiesHeard(ctx, new[p])
        PROVE  CopiesHeard(ctx, new[p])[s] <= CopiesHeard(ctx, word[p])[s]
    <3>1. s \in DOMAIN CopiesHeard(ctx, word[p]) /\ CopiesHeard(ctx, word[p])[s] \in Nat
      BY <1>4, <1>6
    <3>2. CASE s \in Explicit(ctx)
      BY <1>4, <1>5, <1>6, <1>8, <3>1, <3>2 DEF Renames
    <3>3. CASE s \notin Explicit(ctx)
      BY <1>4, <1>5, <3>1, <3>3 DEF Renames
    <3> QED BY <3>2, <3>3
  <2> QED BY <1>1, <1>4, <1>5, <2>1, OperatorsAreMonotone DEF Renames
<1>10. new[p] # word[p]
  <2>1. PICK s \in Explicit(ctx), c \in 0..(ctx.level - 1) :
          Hears(ctx, word, p, s, c) /\ NewName(ctx, word, s, c) # c
    BY <1>3 DEF S
  <2>2. s \in DOMAIN CopiesHeard(ctx, word[p]) /\ CopiesHeard(ctx, word[p])[s] = c
    BY <1>4, <1>6, <2>1
  <2>3. CopiesHeard(ctx, new[p])[s] # CopiesHeard(ctx, word[p])[s]
    BY <1>4, <1>5, <2>1, <2>2 DEF Renames
  <2> QED BY <2>3
<1>11. new[p] \in Nat /\ word[p] \in Nat
  BY <1>1, <1>4, <1>5, ContextFacts DEF Renames
<1>12. new[p] < word[p]
  BY <1>9, <1>10, <1>11
<1> QED BY <1>4, <1>7, <1>12 DEF new

\* At the first operator of which there is another number, there are more.
LEMMA Descent ==
  ASSUME NEW ctx, IsContext(ctx), NEW n \in Nat, NEW word, Reduced(ctx, n, word), CanBeSimplified(ctx, word)
  PROVE  \E x \in OperatorsOf(ctx) :
           /\ Count(word, x) < Count(Sorted(Permuted(ctx, word)), x)
           /\ \A y \in OperatorsOf(ctx) : y < x => Count(Sorted(Permuted(ctx, word)), y) = Count(word, y)
<1> DEFINE new == Permuted(ctx, word)
<1>1. word \in WordsOf(ctx, n) /\ new \in WordsOf(ctx, n) /\ InOrder(word)
  BY PermutedWords DEF Reduced
<1>2. /\ DOMAIN word = 1..n /\ DOMAIN new = 1..n
      /\ \A i \in 1..n : word[i] \in Nat /\ new[i] \in Nat /\ new[i] \in OperatorsOf(ctx)
  BY <1>1, WordsAreLists
<1>3. PICK p \in 1..n : new[p] < word[p] /\ \A i \in 1..n : i < p => new[i] = word[i]
  BY <1>1, FirstChange
<1> HIDE DEF new
<1>4. OperatorsOf(ctx) \in SUBSET Nat
  BY ContextFacts
<1>5. ASSUME NEW x \in OperatorsOf(ctx), x < word[p] PROVE UpTo(word, x) \subseteq UpTo(new, x)
  <2> SUFFICES ASSUME NEW i \in 1..n, word[i] <= x PROVE new[i] <= x
    BY <1>2 DEF UpTo
  <2>1. CASE i < p
    BY <1>3, <2>1
  <2>2. CASE p <= i
    <3>1. word[p] <= word[i]
      <4>1. CASE p = i
        BY <4>1, <1>2
      <4>2. CASE p < i
        BY <4>2, <1>1, <1>2 DEF InOrder
      <4> QED BY <2>2, <4>1, <4>2
    <3> QED BY <3>1, <1>2, <1>4, <1>5
  <2> QED BY <2>1, <2>2
<1>6. ASSUME NEW x \in OperatorsOf(ctx), x < word[p] PROVE Count(word, x) <= Count(new, x)
  BY <1>1, <1>5, <1>6, CountsAreMonotone
<1>7. Count(word, new[p]) < Count(new, new[p])
  <2>1. p \in UpTo(new, new[p]) /\ p \notin UpTo(word, new[p])
    BY <1>2, <1>3 DEF UpTo
  <2>2. UpTo(word, new[p]) \subseteq UpTo(new, new[p])
    BY <1>2, <1>3, <1>5
  <2> QED BY <1>1, <2>1, <2>2, CountsAreMonotone
<1> DEFINE S == {x \in OperatorsOf(ctx) : Count(new, x) # Count(word, x)}
<1>8. \A x : Count(new, x) \in Nat /\ Count(word, x) \in Nat
  BY <1>1, CountsAreBounded
<1>9. new[p] \in S /\ S \in SUBSET Nat
  BY <1>2, <1>4, <1>7, <1>8
<1>10. PICK x \in S : \A y \in S : x <= y
  <2> HIDE DEF S
  <2> QED BY <1>9, LeastOf
<1>11. x < word[p] /\ x \in OperatorsOf(ctx)
  BY <1>2, <1>3, <1>4, <1>9, <1>10
<1>12. Count(word, x) < Count(new, x)
  BY <1>6, <1>8, <1>10, <1>11
<1>13. \A y \in OperatorsOf(ctx) : y < x => Count(new, y) = Count(word, y)
  BY <1>4, <1>10
<1>14. \A y : Count(Sorted(new), y) = Count(new, y)
  BY <1>1, SortingKeepsCounts
<1> QED BY <1>11, <1>12, <1>13, <1>14 DEF new

\* Among rows of bounded numbers there is one that, where another first differs, has the greater number.
IsLastRow(B, K, N, v) ==
  \A u \in B : \A x \in 1..K : (\A y \in 1..K : y < x => N[u][y] = N[v][y]) => N[u][x] <= N[v][x]

LEMMA LastRow ==
  ASSUME NEW B, B # {}, NEW K \in Nat, NEW n \in Nat, NEW N \in [B -> [1..K -> 0..n]]
  PROVE  \E v \in B : IsLastRow(B, K, N, v)
<1> DEFINE Same(u, v, x) == \A y \in 1..K : y <= x => N[u][y] = N[v][y]
           Latest(v, x) == \A u \in B : \A z \in 1..K :
                              z <= x /\ (\A y \in 1..K : y < z => N[u][y] = N[v][y]) => N[u][z] <= N[v][z]
           S == {x \in Nat : x <= K => \E v \in B : Latest(v, x)}
<1>1. 0 \in S
  OBVIOUS
<1>2. ASSUME NEW x \in S PROVE x + 1 \in S
  <2> SUFFICES ASSUME x + 1 <= K PROVE \E v \in B : Latest(v, x + 1)
    OBVIOUS
  <2>1. PICK v \in B : Latest(v, x)
    OBVIOUS
  <2> DEFINE C == {u \in B : Same(u, v, x)}
             D == {n - N[u][x + 1] : u \in C}
  <2>2. x + 1 \in 1..K /\ \A u \in B : \A y \in 1..K : N[u][y] \in 0..n
    OBVIOUS
  <2>3. v \in C /\ C \in SUBSET B
    OBVIOUS
  <2>4. D \in SUBSET Nat /\ D # {}
    <3>1. ASSUME NEW u \in C PROVE n - N[u][x + 1] \in Nat
      <4>1. u \in B
        OBVIOUS
      <4>2. N[u][x + 1] \in 0..n
        BY <2>2, <4>1
      <4>3. \A y \in 0..n : n - y \in Nat
        OBVIOUS
      <4> QED BY <4>2, <4>3, Zenon
    <3> QED BY <2>3, <3>1
  <2>5. PICK d \in D : \A e \in D : d <= e
    <3> HIDE DEF D
    <3> QED BY <2>4, LeastOf
  <2>6. PICK w \in C : d = n - N[w][x + 1]
    OBVIOUS
  <2>7. \A u \in C : N[u][x + 1] <= N[w][x + 1]
    <3> TAKE u \in C
    <3>1. n - N[w][x + 1] <= n - N[u][x + 1]
      BY <2>5, <2>6
    <3>2. u \in B /\ w \in B
      OBVIOUS
    <3>3. PICK a \in 0..n, b \in 0..n : a = N[u][x + 1] /\ b = N[w][x + 1]
      <4> HIDE DEF C, D
      <4> QED BY <2>2, <3>2
    <3> HIDE DEF C, D, S, Latest
    <3>5. n - b <= n - a
      BY <3>1, <3>3
    <3>4. a <= b
      <4>1. a \in Int /\ b \in Int /\ n \in Int
        BY <3>3
      <4> QED BY <3>5, <4>1
    <3> QED BY <3>3, <3>4
  <2>8. Latest(w, x + 1)
    <3> SUFFICES ASSUME NEW u \in B, NEW z \in 1..K, z <= x + 1, \A y \in 1..K : y < z => N[u][y] = N[w][y]
                 PROVE  N[u][z] <= N[w][z]
      OBVIOUS
    <3>1. \A y \in 1..K : y <= x => N[w][y] = N[v][y]
      OBVIOUS
    <3>2. CASE z <= x
      <4>1. \A y \in 1..K : y < z => N[u][y] = N[v][y]
        BY <3>1, <3>2
      <4>2. N[u][z] <= N[v][z]
        BY <2>1, <3>2, <4>1
      <4> QED BY <3>1, <3>2, <4>2
    <3>3. CASE z = x + 1
      <4>1. \A y \in 1..K : y <= x => N[u][y] = N[v][y]
        BY <3>1, <3>3
      <4>2. u \in C
        BY <4>1
      <4> QED BY <2>7, <3>3, <4>2
    <3> QED BY <3>2, <3>3
  <2> QED BY <2>8
<1> HIDE DEF S
<1>3. S = Nat
  BY <1>1, <1>2, Induction DEF S
<1>4. \E v \in B : Latest(v, K)
  <2> HIDE DEF Latest
  <2> QED BY <1>3, K <= K DEF S
<1> QED BY <1>4 DEF IsLastRow

-----------------------------------------------------------------------------
(* Words that are alike up to a relabelling of the copies.                 *)

CopiesOf(ctx) == 0..(ctx.level - 1)

\* Operator new is what op becomes when the copies of the sources are relabelled.
Sends(ctx, r, op, new) ==
  /\ new \in OperatorsOf(ctx)
  /\ ctx.operators[new].observable = ctx.operators[op].observable
  /\ ctx.operators[new].outcome = ctx.operators[op].outcome
  /\ DOMAIN CopiesHeard(ctx, new) = DOMAIN CopiesHeard(ctx, op)
  /\ \A s \in DOMAIN CopiesHeard(ctx, op) :
       CopiesHeard(ctx, new)[s] = IF s \in Explicit(ctx) THEN r[s][CopiesHeard(ctx, op)[s]]
                                  ELSE CopiesHeard(ctx, op)[s]

LEMMA RelabellingFacts ==
  ASSUME NEW ctx, NEW r
  PROVE  r \in Relabellings(ctx) <=>
           /\ r = [s \in Explicit(ctx) |-> r[s]]
           /\ \A s \in Explicit(ctx) :
                /\ r[s] \in [CopiesOf(ctx) -> CopiesOf(ctx)]
                /\ \A c, d \in CopiesOf(ctx) : r[s][c] = r[s][d] => c = d
<1> DEFINE F == {f \in [CopiesOf(ctx) -> CopiesOf(ctx)] : IsInjective(f)}
<1>1. ASSUME NEW f
      PROVE  f \in F <=> /\ f \in [CopiesOf(ctx) -> CopiesOf(ctx)]
                         /\ \A c, d \in CopiesOf(ctx) : f[c] = f[d] => c = d
  BY DEF IsInjective
<1>2. Relabellings(ctx) = [Explicit(ctx) -> F]
  BY DEF Relabellings, CopiesOf
<1> HIDE DEF F
<1>3. r \in [Explicit(ctx) -> F] <=> r = [s \in Explicit(ctx) |-> r[s]] /\ \A s \in Explicit(ctx) : r[s] \in F
  OBVIOUS
<1> QED BY <1>1, <1>2, <1>3

LEMMA ImageSends ==
  ASSUME NEW ctx, IsContext(ctx), NEW r \in Relabellings(ctx), NEW op \in OperatorsOf(ctx)
  PROVE  Sends(ctx, r, op, Image(ctx, op, r))
<1> DEFINE old == CopiesHeard(ctx, op)
           new == [s \in DOMAIN old |-> IF s \in Explicit(ctx) THEN r[s][old[s]] ELSE old[s]]
           Is(m) == IsOperator(ctx, m, ctx.operators[op].observable, new, ctx.operators[op].outcome)
<1>1. old \in [DOMAIN old -> CopiesOf(ctx)]
  BY ContextFacts DEF CopiesOf
<1>2. new \in [DOMAIN old -> CopiesOf(ctx)]
  <2> SUFFICES ASSUME NEW s \in DOMAIN old PROVE new[s] \in CopiesOf(ctx)
    OBVIOUS
  <2>1. old[s] \in CopiesOf(ctx)
    BY <1>1
  <2>2. s \in Explicit(ctx) => r[s] \in [CopiesOf(ctx) -> CopiesOf(ctx)]
    BY RelabellingFacts
  <2>3. s \in Explicit(ctx) => r[s][old[s]] \in CopiesOf(ctx)
    BY <2>1, <2>2
  <2> HIDE DEF old
  <2> QED BY <2>1, <2>3
<1>3. \A s \in DOMAIN new \ Explicit(ctx) : new[s] = old[s]
  OBVIOUS
<1>4. DOMAIN new = DOMAIN old
  OBVIOUS
<1>5. \E m \in OperatorsOf(ctx) : Is(m)
  <2> HIDE DEF new
  <2> QED BY <1>2, <1>3, <1>4, VariantsExist DEF CopiesOf
<1>6. Image(ctx, op, r) = CHOOSE m \in OperatorsOf(ctx) : Is(m)
  BY DEF Image, OperatorsOf, CopiesHeard
<1> DEFINE i == CHOOSE m \in OperatorsOf(ctx) : Is(m)
<1>7. i \in OperatorsOf(ctx) /\ Is(i)
  <2> HIDE DEF Is
  <2> QED BY <1>5
<1> HIDE DEF i
<1>8. Sends(ctx, r, op, i)
  <2>1. CopiesHeard(ctx, i) = new
    BY <1>7 DEF IsOperator, CopiesHeard
  <2>2. ctx.operators[i].observable = ctx.operators[op].observable
        /\ ctx.operators[i].outcome = ctx.operators[op].outcome
    BY <1>7 DEF IsOperator
  <2> QED BY <1>7, <2>1, <2>2 DEF Sends
<1> QED BY <1>6, <1>8 DEF i

LEMMA SentToOne ==
  ASSUME NEW ctx, IsContext(ctx), NEW r, NEW op \in OperatorsOf(ctx), NEW l, NEW m,
         Sends(ctx, r, op, l), Sends(ctx, r, op, m)
  PROVE  l = m
<1>1. l \in OperatorsOf(ctx) /\ m \in OperatorsOf(ctx)
  BY DEF Sends
<1>2. /\ CopiesHeard(ctx, l) = [s \in DOMAIN CopiesHeard(ctx, l) |-> CopiesHeard(ctx, l)[s]]
      /\ CopiesHeard(ctx, m) = [s \in DOMAIN CopiesHeard(ctx, m) |-> CopiesHeard(ctx, m)[s]]
  BY <1>1, ContextFacts
<1>3. CopiesHeard(ctx, l) = CopiesHeard(ctx, m)
  BY <1>2 DEF Sends
<1>4. /\ ctx.operators[l].observable = ctx.operators[m].observable
      /\ ctx.operators[l].outcome = ctx.operators[m].outcome
  BY DEF Sends
<1> QED BY <1>1, <1>3, <1>4, OperatorsAreDistinct

\* A relabelling can be undone, and one can follow another.
LEMMA RelabellingsInvert ==
  ASSUME NEW ctx, IsContext(ctx), NEW r \in Relabellings(ctx)
  PROVE  \E q \in Relabellings(ctx) : \A s \in Explicit(ctx), c \in CopiesOf(ctx) : q[s][r[s][c]] = c
<1> DEFINE back(s) == [d \in CopiesOf(ctx) |-> CHOOSE c \in CopiesOf(ctx) : r[s][c] = d]
           q == [s \in Explicit(ctx) |-> back(s)]
<1>1. IsFiniteSet(CopiesOf(ctx)) /\ Cardinality(CopiesOf(ctx)) = Cardinality(CopiesOf(ctx))
  BY CopiesAreFinite DEF CopiesOf
<1>2. ASSUME NEW s \in Explicit(ctx)
      PROVE  /\ \A c \in CopiesOf(ctx) : r[s][c] \in CopiesOf(ctx)
             /\ \A c, d \in CopiesOf(ctx) : r[s][c] = r[s][d] => c = d
             /\ \A d \in CopiesOf(ctx) : \E c \in CopiesOf(ctx) : r[s][c] = d
  <2>1. r[s] \in [CopiesOf(ctx) -> CopiesOf(ctx)] /\ \A c, d \in CopiesOf(ctx) : r[s][c] = r[s][d] => c = d
    BY RelabellingFacts
  <2>2. r[s] \in Injection(CopiesOf(ctx), CopiesOf(ctx))
    BY <2>1 DEF Injection, IsInjective
  <2>3. r[s] \in Surjection(CopiesOf(ctx), CopiesOf(ctx))
    BY <1>1, <2>2, FS_Injection
  <2> QED BY <2>1, <2>3 DEF Surjection
<1>3. ASSUME NEW s \in Explicit(ctx)
      PROVE  /\ back(s) \in [CopiesOf(ctx) -> CopiesOf(ctx)]
             /\ \A d \in CopiesOf(ctx) : r[s][back(s)[d]] = d
  BY <1>2
<1>4. ASSUME NEW s \in Explicit(ctx), NEW c \in CopiesOf(ctx) PROVE back(s)[r[s][c]] = c
  <2>1. r[s][c] \in CopiesOf(ctx)
    BY <1>2
  <2>2. r[s][back(s)[r[s][c]]] = r[s][c] /\ back(s)[r[s][c]] \in CopiesOf(ctx)
    <3> HIDE DEF back
    <3> QED BY <1>3, <2>1
  <2> HIDE DEF back
  <2> QED BY <1>2, <2>2
<1>5. q \in Relabellings(ctx)
  <2>1. ASSUME NEW s \in Explicit(ctx), NEW c \in CopiesOf(ctx), NEW d \in CopiesOf(ctx), q[s][c] = q[s][d]
        PROVE  c = d
    <3>1. back(s)[c] = back(s)[d]
      BY <2>1
    <3> HIDE DEF back, q
    <3> QED BY <1>3, <3>1
  <2>2. ASSUME NEW s \in Explicit(ctx) PROVE q[s] = back(s)
    OBVIOUS
  <2> HIDE DEF back
  <2>3. q = [s \in Explicit(ctx) |-> q[s]]
    OBVIOUS
  <2> HIDE DEF q
  <2>4. ASSUME NEW s \in Explicit(ctx)
        PROVE  q[s] \in [CopiesOf(ctx) -> CopiesOf(ctx)] /\ \A c, d \in CopiesOf(ctx) : q[s][c] = q[s][d] => c = d
    BY <1>3, <2>1, <2>2
  <2> QED BY <2>3, <2>4, RelabellingFacts
<1>6. \A s \in Explicit(ctx), c \in CopiesOf(ctx) : q[s][r[s][c]] = c
  BY <1>4
<1> HIDE DEF q
<1> QED BY <1>5, <1>6

LEMMA RelabellingsCompose ==
  ASSUME NEW ctx, NEW r \in Relabellings(ctx), NEW q \in Relabellings(ctx)
  PROVE  [s \in Explicit(ctx) |-> [c \in CopiesOf(ctx) |-> q[s][r[s][c]]]] \in Relabellings(ctx)
<1> DEFINE t == [s \in Explicit(ctx) |-> [c \in CopiesOf(ctx) |-> q[s][r[s][c]]]]
<1>1. \A s \in Explicit(ctx) : /\ r[s] \in [CopiesOf(ctx) -> CopiesOf(ctx)]
                               /\ q[s] \in [CopiesOf(ctx) -> CopiesOf(ctx)]
                               /\ \A c, d \in CopiesOf(ctx) : r[s][c] = r[s][d] => c = d
                               /\ \A c, d \in CopiesOf(ctx) : q[s][c] = q[s][d] => c = d
  BY RelabellingFacts
<1>2. ASSUME NEW s \in Explicit(ctx)
      PROVE  /\ t[s] \in [CopiesOf(ctx) -> CopiesOf(ctx)]
             /\ \A c \in CopiesOf(ctx) : t[s][c] = q[s][r[s][c]]
  BY <1>1
<1>3. ASSUME NEW s \in Explicit(ctx), NEW c \in CopiesOf(ctx), NEW d \in CopiesOf(ctx), t[s][c] = t[s][d]
      PROVE  c = d
  <2>1. q[s][r[s][c]] = q[s][r[s][d]]
    <3> HIDE DEF t
    <3> QED BY <1>2, <1>3
  <2>2. r[s][c] \in CopiesOf(ctx) /\ r[s][d] \in CopiesOf(ctx)
    BY <1>1
  <2> HIDE DEF t
  <2> QED BY <1>1, <2>1, <2>2
<1>4. t = [s \in Explicit(ctx) |-> t[s]]
  OBVIOUS
<1> HIDE DEF t
<1>5. t \in Relabellings(ctx)
  BY <1>2, <1>3, <1>4, RelabellingFacts
<1> QED BY <1>5 DEF t

LEMMA SentBack ==
  ASSUME NEW ctx, IsContext(ctx), NEW r, NEW q, NEW l \in OperatorsOf(ctx), NEW m, Sends(ctx, r, l, m),
         \A s \in Explicit(ctx), c \in CopiesOf(ctx) : q[s][r[s][c]] = c
  PROVE  Sends(ctx, q, m, l)
<1>1. \A s \in DOMAIN CopiesHeard(ctx, l) : CopiesHeard(ctx, l)[s] \in CopiesOf(ctx)
  BY ContextFacts DEF CopiesOf
<1>2. ASSUME NEW s \in DOMAIN CopiesHeard(ctx, m)
      PROVE  CopiesHeard(ctx, l)[s] = IF s \in Explicit(ctx) THEN q[s][CopiesHeard(ctx, m)[s]]
                                      ELSE CopiesHeard(ctx, m)[s]
  <2>1. s \in DOMAIN CopiesHeard(ctx, l)
    BY DEF Sends
  <2>2. CopiesHeard(ctx, m)[s] = IF s \in Explicit(ctx) THEN r[s][CopiesHeard(ctx, l)[s]]
                                 ELSE CopiesHeard(ctx, l)[s]
    BY <2>1 DEF Sends
  <2> QED BY <1>1, <2>1, <2>2
<1> QED BY <1>2 DEF Sends

LEMMA SentOn ==
  ASSUME NEW ctx, IsContext(ctx), NEW r, NEW q, NEW t, NEW k \in OperatorsOf(ctx), NEW l, NEW m,
         Sends(ctx, r, k, l), Sends(ctx, q, l, m),
         \A s \in Explicit(ctx), c \in CopiesOf(ctx) : t[s][c] = q[s][r[s][c]]
  PROVE  Sends(ctx, t, k, m)
<1>1. \A s \in DOMAIN CopiesHeard(ctx, k) : CopiesHeard(ctx, k)[s] \in CopiesOf(ctx)
  BY ContextFacts DEF CopiesOf
<1>2. ASSUME NEW s \in DOMAIN CopiesHeard(ctx, k)
      PROVE  CopiesHeard(ctx, m)[s] = IF s \in Explicit(ctx) THEN t[s][CopiesHeard(ctx, k)[s]]
                                      ELSE CopiesHeard(ctx, k)[s]
  <2>1. s \in DOMAIN CopiesHeard(ctx, l)
    BY DEF Sends
  <2>2. CopiesHeard(ctx, l)[s] = IF s \in Explicit(ctx) THEN r[s][CopiesHeard(ctx, k)[s]]
                                 ELSE CopiesHeard(ctx, k)[s]
    BY DEF Sends
  <2>3. CopiesHeard(ctx, m)[s] = IF s \in Explicit(ctx) THEN q[s][CopiesHeard(ctx, l)[s]]
                                 ELSE CopiesHeard(ctx, l)[s]
    BY <2>1 DEF Sends
  <2> QED BY <1>1, <2>2, <2>3
<1> QED BY <1>2 DEF Sends

\* Word v is word u with its copies relabelled by r and its operators put at other places.
Matches(ctx, n, u, v, r, at) ==
  /\ r \in Relabellings(ctx) /\ at \in Bijection(1..n, 1..n)
  /\ \A i \in 1..n : Sends(ctx, r, u[i], v[at[i]])
Alike(ctx, n, u, v) ==
  u \in WordsOf(ctx, n) /\ v \in WordsOf(ctx, n) /\ \E r, at : Matches(ctx, n, u, v, r, at)

LEMMA BijectionFacts ==
  ASSUME NEW S, NEW T, NEW f
  PROVE  f \in Bijection(S, T) <=>
           /\ f \in [S -> T]
           /\ \A x, y \in S : f[x] = f[y] => x = y
           /\ \A y \in T : \E x \in S : f[x] = y
BY DEF Bijection, Injection, Surjection, IsInjective

LEMMA InjectionFacts ==
  ASSUME NEW S, NEW T, NEW f
  PROVE  f \in Injection(S, T) <=> f \in [S -> T] /\ \A x, y \in S : f[x] = f[y] => x = y
BY DEF Injection, IsInjective

LEMMA BijectionInverse ==
  ASSUME NEW S, NEW T, NEW f \in Bijection(S, T)
  PROVE  \E g \in Bijection(T, S) : (\A x \in S : g[f[x]] = x) /\ \A y \in T : f[g[y]] = y
<1> DEFINE g == [y \in T |-> CHOOSE x \in S : f[x] = y]
<1>1. f \in [S -> T] /\ (\A x, y \in S : f[x] = f[y] => x = y) /\ \A y \in T : \E x \in S : f[x] = y
  BY BijectionFacts
<1>2. ASSUME NEW y \in T PROVE g[y] \in S /\ f[g[y]] = y
  BY <1>1
<1>3. ASSUME NEW x \in S PROVE g[f[x]] = x
  <2>1. f[x] \in T
    BY <1>1
  <2>2. g[f[x]] \in S /\ f[g[f[x]]] = f[x]
    <3> HIDE DEF g
    <3> QED BY <1>2, <2>1
  <2> HIDE DEF g
  <2> QED BY <1>1, <2>2
<1>4. g \in [T -> S]
  <2>1. g = [y \in T |-> g[y]]
    OBVIOUS
  <2> HIDE DEF g
  <2> QED BY <1>2, <2>1
<1> HIDE DEF g
<1>5. g \in Bijection(T, S)
  <2>1. \A x, y \in T : g[x] = g[y] => x = y
    BY <1>2
  <2>2. \A y \in S : \E x \in T : g[x] = y
    BY <1>1, <1>3
  <2> QED BY <1>4, <2>1, <2>2, BijectionFacts
<1> QED BY <1>2, <1>3, <1>5

LEMMA BijectionsCompose ==
  ASSUME NEW S, NEW T, NEW U, NEW f \in Bijection(S, T), NEW g \in Bijection(T, U)
  PROVE  [x \in S |-> g[f[x]]] \in Bijection(S, U)
<1>1. f \in [S -> T] /\ (\A x, y \in S : f[x] = f[y] => x = y) /\ \A y \in T : \E x \in S : f[x] = y
  BY BijectionFacts
<1>2. g \in [T -> U] /\ (\A x, y \in T : g[x] = g[y] => x = y) /\ \A y \in U : \E x \in T : g[x] = y
  BY BijectionFacts
<1> DEFINE h == [x \in S |-> g[f[x]]]
<1>3. h \in [S -> U] /\ \A x \in S : h[x] = g[f[x]]
  BY <1>1, <1>2
<1> HIDE DEF h
<1>4. \A x, y \in S : h[x] = h[y] => x = y
  BY <1>1, <1>2, <1>3
<1>5. \A z \in U : \E x \in S : h[x] = z
  <2> TAKE z \in U
  <2>1. PICK y \in T : g[y] = z
    BY <1>2
  <2>2. PICK x \in S : f[x] = y
    BY <1>1
  <2> QED BY <1>3, <2>1, <2>2
<1>6. h \in Bijection(S, U)
  BY <1>3, <1>4, <1>5, BijectionFacts
<1> QED BY <1>6 DEF h

LEMMA Identity ==
  ASSUME NEW S
  PROVE  [x \in S |-> x] \in Bijection(S, S)
BY BijectionFacts

LEMMA AlikeItself ==
  ASSUME NEW ctx, IsContext(ctx), NEW n \in Nat, NEW u \in WordsOf(ctx, n)
  PROVE  Alike(ctx, n, u, u)
<1> DEFINE r  == [s \in Explicit(ctx) |-> [c \in CopiesOf(ctx) |-> c]]
           at == [i \in 1..n |-> i]
<1>1. r \in Relabellings(ctx)
  <2>1. \A s \in Explicit(ctx) : /\ r[s] \in [CopiesOf(ctx) -> CopiesOf(ctx)]
                                 /\ \A c, d \in CopiesOf(ctx) : r[s][c] = r[s][d] => c = d
    OBVIOUS
  <2>2. r = [s \in Explicit(ctx) |-> r[s]]
    OBVIOUS
  <2> HIDE DEF r
  <2> QED BY <2>1, <2>2, RelabellingFacts
<1>2. at \in Bijection(1..n, 1..n)
  BY Identity
<1>3. ASSUME NEW i \in 1..n PROVE Sends(ctx, r, u[i], u[at[i]])
  <2>1. u[i] \in OperatorsOf(ctx) /\ at[i] = i
    BY DEF WordsOf
  <2>2. \A s \in DOMAIN CopiesHeard(ctx, u[i]) : CopiesHeard(ctx, u[i])[s] \in CopiesOf(ctx)
    BY <2>1, ContextFacts DEF CopiesOf
  <2> QED BY <2>1, <2>2 DEF Sends
<1> QED BY <1>1, <1>2, <1>3 DEF Alike, Matches

LEMMA AlikeBack ==
  ASSUME NEW ctx, IsContext(ctx), NEW n \in Nat, NEW u, NEW v, Alike(ctx, n, u, v)
  PROVE  Alike(ctx, n, v, u)
<1>1. PICK r, at : Matches(ctx, n, u, v, r, at)
  BY DEF Alike
<1>2. PICK q \in Relabellings(ctx) : \A s \in Explicit(ctx), c \in CopiesOf(ctx) : q[s][r[s][c]] = c
  BY <1>1, RelabellingsInvert DEF Matches
<1>3. PICK back \in Bijection(1..n, 1..n) : \A y \in 1..n : at[back[y]] = y
  BY <1>1, BijectionInverse DEF Matches
<1>4. ASSUME NEW i \in 1..n PROVE Sends(ctx, q, v[i], u[back[i]])
  <2>0. back \in [1..n -> 1..n]
    BY <1>3, BijectionFacts
  <2>1. back[i] \in 1..n /\ at[back[i]] = i
    BY <1>3, <2>0
  <2>2. Sends(ctx, r, u[back[i]], v[i])
    BY <1>1, <2>1 DEF Matches
  <2>3. u[back[i]] \in OperatorsOf(ctx)
    BY <2>1 DEF Alike, WordsOf
  <2> QED BY <1>2, <2>2, <2>3, SentBack
<1> QED BY <1>2, <1>3, <1>4 DEF Alike, Matches

LEMMA AlikeOn ==
  ASSUME NEW ctx, IsContext(ctx), NEW n \in Nat, NEW u, NEW v, NEW w, Alike(ctx, n, u, v), Alike(ctx, n, v, w)
  PROVE  Alike(ctx, n, u, w)
<1>1. PICK r, at : Matches(ctx, n, u, v, r, at)
  BY DEF Alike
<1>2. PICK q, to : Matches(ctx, n, v, w, q, to)
  BY DEF Alike
<1> DEFINE t    == [s \in Explicit(ctx) |-> [c \in CopiesOf(ctx) |-> q[s][r[s][c]]]]
           both == [i \in 1..n |-> to[at[i]]]
<1>3. t \in Relabellings(ctx)
  BY <1>1, <1>2, RelabellingsCompose DEF Matches
<1>4. both \in Bijection(1..n, 1..n)
  BY <1>1, <1>2, BijectionsCompose DEF Matches
<1>5. \A s \in Explicit(ctx), c \in CopiesOf(ctx) : t[s][c] = q[s][r[s][c]]
  OBVIOUS
<1>7. \A i \in 1..n : both[i] = to[at[i]]
  OBVIOUS
<1> HIDE DEF t, both
<1>6. ASSUME NEW i \in 1..n PROVE Sends(ctx, t, u[i], w[both[i]])
  <2>0. at \in [1..n -> 1..n]
    BY <1>1, BijectionFacts DEF Matches
  <2>1. at[i] \in 1..n /\ both[i] = to[at[i]]
    BY <1>7, <2>0
  <2>2. Sends(ctx, r, u[i], v[at[i]]) /\ Sends(ctx, q, v[at[i]], w[both[i]])
    BY <1>1, <1>2, <2>1 DEF Matches
  <2>3. u[i] \in OperatorsOf(ctx)
    BY DEF Alike, WordsOf
  <2> QED BY <1>5, <2>2, <2>3, SentOn
<1> QED BY <1>3, <1>4, <1>6 DEF Alike, Matches

-----------------------------------------------------------------------------
(* Orbits.                                                                 *)

LEMMA FirstNumbers ==
  ASSUME NEW n \in Nat
  PROVE  IsFiniteSet(1..n) /\ Cardinality(1..n) = n
BY FS_Interval

LEMMA PermutationFacts ==
  ASSUME NEW n, NEW at \in Bijection(1..n, 1..n)
  PROVE  /\ at \in [1..n -> 1..n] /\ \A i, j \in 1..n : at[i] = at[j] => i = j
         /\ \E back \in Bijection(1..n, 1..n) : \A i \in 1..n : at[back[i]] = i
<1> DEFINE P == 1..n
<1>1. at \in Bijection(P, P)
  OBVIOUS
<1> HIDE DEF P
<1>2. at \in [P -> P] /\ \A i, j \in P : at[i] = at[j] => i = j
  BY <1>1, BijectionFacts
<1>3. \E back \in Bijection(P, P) : \A i \in P : at[back[i]] = i
  BY <1>1, BijectionInverse
<1> QED BY <1>2, <1>3 DEF P

\* Of two lists of the same members in order, neither has a smaller one at any place.
LEMMA NoneSmaller ==
  ASSUME NEW n \in Nat, NEW u \in [1..n -> Int], NEW v \in [1..n -> Int], InOrder(u), InOrder(v),
         NEW at \in Bijection(1..n, 1..n), \A i \in 1..n : v[at[i]] = u[i], NEW k \in 1..n
  PROVE  v[k] <= u[k]
<1>1. at \in [1..n -> 1..n] /\ \A i, j \in 1..n : at[i] = at[j] => i = j
  BY PermutationFacts
<1> SUFFICES ASSUME ~(v[k] <= u[k]) PROVE FALSE
  OBVIOUS
<1>2. u[k] < v[k]
  OBVIOUS
<1>3. ASSUME NEW i \in 1..k PROVE at[i] \in 1..(k - 1)
  <2>1. i \in 1..n /\ at[i] \in 1..n /\ v[at[i]] = u[i]
    BY <1>1
  <2>2. u[i] \in Int /\ u[k] \in Int /\ v[k] \in Int /\ v[at[i]] \in Int
    BY <2>1
  <2>3. u[i] <= u[k]
    <3>1. DOMAIN u = 1..n
      OBVIOUS
    <3>2. CASE i = k
      BY <2>2, <3>2
    <3>3. CASE i < k
      BY <2>1, <3>1, <3>3 DEF InOrder
    <3> QED BY <3>2, <3>3
  <2>4. k < at[i] => v[k] <= v[at[i]]
    <3>1. DOMAIN v = 1..n
      OBVIOUS
    <3> QED BY <2>1, <3>1 DEF InOrder
  <2>5. at[i] # k
    BY <1>2, <2>1, <2>2, <2>3
  <2>6. ~(k < at[i])
    BY <1>2, <2>1, <2>2, <2>3, <2>4
  <2> QED BY <2>1, <2>5, <2>6
<1> DEFINE K    == 1..k
           J    == 1..(k - 1)
           some == [i \in K |-> at[i]]
<1>4. IsFiniteSet(J) /\ Cardinality(K) = k /\ Cardinality(J) = k - 1
  <2>1. k \in Nat /\ k - 1 \in Nat
    OBVIOUS
  <2> QED BY <2>1, FirstNumbers, Zenon
<1>5. some \in [K -> J] /\ \A i \in K : i \in 1..n /\ some[i] = at[i]
  BY <1>3
<1> HIDE DEF K, J, some
<1>6. some \in Injection(K, J)
  <2>1. \A x, y \in K : some[x] = some[y] => x = y
    BY <1>1, <1>5
  <2> QED BY <1>5, <2>1, InjectionFacts
<1>7. Cardinality(K) <= Cardinality(J)
  BY <1>4, <1>6, FS_Injection
<1> QED BY <1>4, <1>7

LEMMA OrderIsUnique ==
  ASSUME NEW n \in Nat, NEW u \in [1..n -> Int], NEW v \in [1..n -> Int], InOrder(u), InOrder(v),
         NEW at \in Bijection(1..n, 1..n), \A i \in 1..n : v[at[i]] = u[i]
  PROVE  u = v
<1>1. \A k \in 1..n : v[k] <= u[k]
  BY NoneSmaller
<1>2. PICK back \in Bijection(1..n, 1..n) : \A y \in 1..n : at[back[y]] = y
  BY PermutationFacts
<1>3. \A y \in 1..n : u[back[y]] = v[y]
  <2>1. back \in [1..n -> 1..n]
    BY BijectionFacts
  <2> QED BY <1>2, <2>1
<1>4. \A k \in 1..n : u[k] <= v[k]
  BY <1>3, NoneSmaller
<1>5. \A k \in 1..n : u[k] = v[k]
  BY <1>1, <1>4
<1> QED BY <1>5

LEMMA Rearranged ==
  ASSUME NEW ctx, IsContext(ctx), NEW n \in Nat, NEW u \in WordsOf(ctx, n), NEW v \in WordsOf(ctx, n),
         NEW at \in Bijection(1..n, 1..n), \A i \in 1..n : v[at[i]] = u[i]
  PROVE  Alike(ctx, n, u, v)
<1> DEFINE r == [s \in Explicit(ctx) |-> [c \in CopiesOf(ctx) |-> c]]
<1>1. r \in Relabellings(ctx)
  <2>1. \A s \in Explicit(ctx) : /\ r[s] \in [CopiesOf(ctx) -> CopiesOf(ctx)]
                                 /\ \A c, d \in CopiesOf(ctx) : r[s][c] = r[s][d] => c = d
    OBVIOUS
  <2>2. r = [s \in Explicit(ctx) |-> r[s]]
    OBVIOUS
  <2> HIDE DEF r
  <2> QED BY <2>1, <2>2, RelabellingFacts
<1>2. ASSUME NEW i \in 1..n PROVE Sends(ctx, r, u[i], v[at[i]])
  <2>1. u[i] \in OperatorsOf(ctx) /\ v[at[i]] = u[i]
    BY DEF WordsOf
  <2>2. \A s \in DOMAIN CopiesHeard(ctx, u[i]) : CopiesHeard(ctx, u[i])[s] \in CopiesOf(ctx)
    BY <2>1, ContextFacts DEF CopiesOf
  <2> QED BY <2>1, <2>2 DEF Sends
<1> HIDE DEF r
<1> QED BY <1>1, <1>2 DEF Alike, Matches

LEMMA SortedAlike ==
  ASSUME NEW ctx, IsContext(ctx), NEW n \in Nat, NEW u \in WordsOf(ctx, n)
  PROVE  Alike(ctx, n, u, Sorted(u))
<1>1. PICK at : Sorts(n, u, at)
  BY SortedWord
<1>2. at \in Bijection(1..n, 1..n) /\ \A k \in 1..n : Sorted(u)[k] = u[at[k]]
  BY <1>1 DEF Sorts
<1>3. PICK back \in Bijection(1..n, 1..n) : \A y \in 1..n : at[back[y]] = y
  BY <1>2, BijectionInverse
<1>4. \A i \in 1..n : Sorted(u)[back[i]] = u[i]
  <2>1. back \in [1..n -> 1..n]
    BY BijectionFacts
  <2> QED BY <1>2, <1>3, <2>1
<1>5. Sorted(u) \in WordsOf(ctx, n)
  BY SortedWord
<1> QED BY <1>4, <1>5, Rearranged

(* The orbit of a word has the words in order that a relabelling makes of it. *)
LEMMA OrbitMembers ==
  ASSUME NEW ctx, IsContext(ctx), NEW n \in Nat, NEW u \in WordsOf(ctx, n), NEW v
  PROVE  v \in Orbit(ctx, u) <=> InOrder(v) /\ Alike(ctx, n, u, v)
<1> DEFINE img(r) == [i \in 1..n |-> Image(ctx, u[i], r)]
<1>1. DOMAIN u = 1..n /\ \A i \in 1..n : u[i] \in OperatorsOf(ctx)
  BY WordsAreLists
<1>2. Orbit(ctx, u) = {Sorted(img(r)) : r \in Relabellings(ctx)}
  BY <1>1 DEF Orbit
<1>3. ASSUME NEW r \in Relabellings(ctx), NEW i \in 1..n PROVE Sends(ctx, r, u[i], img(r)[i])
  <2>1. img(r)[i] = Image(ctx, u[i], r)
    OBVIOUS
  <2> HIDE DEF img
  <2> QED BY <1>1, <2>1, ImageSends
<1>4. ASSUME NEW r \in Relabellings(ctx) PROVE img(r) \in WordsOf(ctx, n)
  <2>1. \A i \in 1..n : Image(ctx, u[i], r) \in OperatorsOf(ctx)
    BY <1>1, ImageSends DEF Sends
  <2> QED BY <2>1 DEF WordsOf
<1> HIDE DEF img
<1>5. ASSUME NEW r \in Relabellings(ctx) PROVE InOrder(Sorted(img(r))) /\ Alike(ctx, n, u, Sorted(img(r)))
  <2> DEFINE id == [i \in 1..n |-> i]
  <2>1. id \in Bijection(1..n, 1..n) /\ \A i \in 1..n : id[i] = i
    BY Identity
  <2> HIDE DEF id
  <2>2. Matches(ctx, n, u, img(r), r, id)
    BY <1>3, <2>1 DEF Matches
  <2>3. Alike(ctx, n, u, img(r))
    BY <1>4, <2>2 DEF Alike
  <2>4. Alike(ctx, n, img(r), Sorted(img(r)))
    BY <1>4, SortedAlike
  <2> QED BY <1>4, <2>3, <2>4, AlikeOn, SortedWord
<1>6. ASSUME InOrder(v), Alike(ctx, n, u, v) PROVE v \in Orbit(ctx, u)
  <2>1. PICK r, at : Matches(ctx, n, u, v, r, at)
    BY <1>6 DEF Alike
  <2>2. r \in Relabellings(ctx) /\ at \in Bijection(1..n, 1..n) /\ v \in WordsOf(ctx, n)
    BY <1>6, <2>1 DEF Alike, Matches
  <2>3. ASSUME NEW i \in 1..n PROVE v[at[i]] = img(r)[i]
    <3>1. Sends(ctx, r, u[i], v[at[i]]) /\ Sends(ctx, r, u[i], img(r)[i])
      BY <1>3, <2>1, <2>2 DEF Matches
    <3> QED BY <1>1, <3>1, SentToOne
  <2> DEFINE s == Sorted(img(r))
  <2>4. PICK to : Sorts(n, img(r), to)
    BY <1>4, <2>2, SortedWord
  <2>5. to \in Bijection(1..n, 1..n) /\ \A k \in 1..n : s[k] = img(r)[to[k]]
    BY <2>4 DEF Sorts
  <2>6. InOrder(s) /\ s \in WordsOf(ctx, n)
    BY <1>4, <2>2, SortedWord
  <2> HIDE DEF s
  <2> DEFINE both == [k \in 1..n |-> at[to[k]]]
  <2>7. both \in Bijection(1..n, 1..n)
    BY <2>2, <2>5, BijectionsCompose
  <2>8. \A k \in 1..n : v[both[k]] = s[k]
    <3>1. to \in [1..n -> 1..n]
      BY <2>5, BijectionFacts
    <3> QED BY <2>3, <2>5, <3>1
  <2> HIDE DEF both
  <2>9. s \in [1..n -> Int] /\ v \in [1..n -> Int]
    BY <2>2, <2>6, WordsAreLists
  <2>10. s = v
    BY <1>6, <2>6, <2>7, <2>8, <2>9, OrderIsUnique
  <2> QED BY <1>2, <2>2, <2>10 DEF s
<1> QED BY <1>2, <1>5, <1>6

\* A function on some members of a finite set that keeps them apart goes on to all.
LEMMA Extension ==
  ASSUME NEW S, IsFiniteSet(S), NEW H \in SUBSET S, NEW f \in Injection(H, S)
  PROVE  \E g \in Injection(S, S) : \A x \in H : g[x] = f[x]
<1> DEFINE I == {f[x] : x \in H}
<1>0. f \in [H -> S] /\ \A x, y \in H : f[x] = f[y] => x = y
  BY InjectionFacts
<1>1. IsFiniteSet(H) /\ IsFiniteSet(S \ H) /\ IsFiniteSet(S \ I) /\ I \in SUBSET S
  <2>1. I \in SUBSET S
    BY <1>0
  <2> HIDE DEF I
  <2> QED BY <2>1, FS_Subset
<1>2. f \in Bijection(H, I)
  BY <1>0, BijectionFacts
<1>3. Cardinality(I) = Cardinality(H) /\ IsFiniteSet(I)
  <2> HIDE DEF I
  <2>1. ExistsBijection(H, I)
    BY <1>2 DEF ExistsBijection
  <2> QED BY <1>1, <2>1, FS_Bijection
<1>4. Cardinality(S \ H) = Cardinality(S \ I)
  <2>1. Cardinality(S \ H) = Cardinality(S) - Cardinality(S \cap H)
    BY FS_Difference
  <2>2. Cardinality(S \ I) = Cardinality(S) - Cardinality(S \cap I)
    BY FS_Difference
  <2>3. S \cap H = H /\ S \cap I = I
    BY <1>1
  <2> HIDE DEF I
  <2> QED BY <1>3, <2>1, <2>2, <2>3
<1>5. PICK h : h \in Bijection(S \ H, S \ I)
  <2> HIDE DEF I
  <2>1. ExistsBijection(S \ H, S \ I)
    BY <1>1, <1>4, FS_SameCardinalityBij
  <2> QED BY <2>1 DEF ExistsBijection
<1>6. h \in [S \ H -> S \ I] /\ \A x, y \in S \ H : h[x] = h[y] => x = y
  BY <1>5, BijectionFacts
<1> DEFINE g == [x \in S |-> IF x \in H THEN f[x] ELSE h[x]]
<1>7. g \in [S -> S]
  <2>1. \A x \in S \ H : h[x] \in S
    BY <1>6
  <2>2. \A x \in H : f[x] \in S
    BY <1>0
  <2> QED BY <2>1, <2>2
<1>8. ASSUME NEW x \in S, NEW y \in S, g[x] = g[y] PROVE x = y
  <2>1. \A z \in H : g[z] = f[z] /\ f[z] \in I
    OBVIOUS
  <2>2. \A z \in S \ H : g[z] = h[z] /\ h[z] \notin I
    <3>1. \A z \in S \ H : h[z] \in S \ I
      BY <1>6
    <3> HIDE DEF I
    <3> QED BY <3>1
  <2> HIDE DEF g, I
  <2> QED BY <1>0, <1>6, <1>8, <2>1, <2>2
<1>9. \A x \in H : g[x] = f[x]
  OBVIOUS
<1> HIDE DEF g
<1>10. g \in Injection(S, S)
  BY <1>7, <1>8, InjectionFacts
<1> QED BY <1>9, <1>10

LEMMA PermutedAlike ==
  ASSUME NEW ctx, IsContext(ctx), NEW n \in Nat, NEW word \in WordsOf(ctx, n)
  PROVE  Alike(ctx, n, word, Permuted(ctx, word))
<1> DEFINE H(s) == {c \in CopiesOf(ctx) : Heard(ctx, word, s, c)}
           Fits(s, g) == /\ g \in [CopiesOf(ctx) -> CopiesOf(ctx)]
                         /\ \A c, d \in CopiesOf(ctx) : g[c] = g[d] => c = d
                         /\ \A c \in H(s) : g[c] = NewName(ctx, word, s, c)
           r  == [s \in Explicit(ctx) |-> CHOOSE g : Fits(s, g)]
           id == [i \in 1..n |-> i]
<1>1. ASSUME NEW s PROVE \E g : Fits(s, g)
  <2> DEFINE new == [c \in H(s) |-> NewName(ctx, word, s, c)]
  <2>1. IsFiniteSet(CopiesOf(ctx)) /\ H(s) \in SUBSET CopiesOf(ctx)
    BY CopiesAreFinite DEF CopiesOf
  <2>2. new \in [H(s) -> CopiesOf(ctx)]
    <3>1. \A c \in H(s) : NewName(ctx, word, s, c) \in CopiesOf(ctx)
      BY NamesAreCopies DEF CopiesOf
    <3> HIDE DEF H
    <3> QED BY <3>1
  <2>3. ASSUME NEW c \in H(s), NEW d \in H(s), new[c] = new[d] PROVE c = d
    <3>1. NewName(ctx, word, s, c) = NewName(ctx, word, s, d)
      <4> HIDE DEF H
      <4> QED BY <2>3
    <3>2. Heard(ctx, word, s, c) /\ Heard(ctx, word, s, d)
      OBVIOUS
    <3> QED BY <3>1, <3>2, NamesAreDistinct
  <2>4. \A c \in H(s) : new[c] = NewName(ctx, word, s, c)
    OBVIOUS
  <2> HIDE DEF new, H
  <2>5. new \in Injection(H(s), CopiesOf(ctx))
    BY <2>2, <2>3, InjectionFacts
  <2>6. PICK g \in Injection(CopiesOf(ctx), CopiesOf(ctx)) : \A c \in H(s) : g[c] = new[c]
    BY <2>1, <2>5, Extension
  <2>7. g \in [CopiesOf(ctx) -> CopiesOf(ctx)] /\ \A c, d \in CopiesOf(ctx) : g[c] = g[d] => c = d
    BY InjectionFacts
  <2> QED BY <2>4, <2>6, <2>7
<1>2. ASSUME NEW s \in Explicit(ctx) PROVE Fits(s, r[s])
  <2> HIDE DEF Fits
  <2> QED BY <1>1
<1>3. r \in Relabellings(ctx)
  <2>1. r = [s \in Explicit(ctx) |-> r[s]]
    OBVIOUS
  <2> HIDE DEF r
  <2> QED BY <1>2, <2>1, RelabellingFacts
<1>4. id \in Bijection(1..n, 1..n) /\ \A i \in 1..n : id[i] = i
  BY Identity
<1> HIDE DEF r, id
<1>5. ASSUME NEW i \in 1..n PROVE Sends(ctx, r, word[i], Permuted(ctx, word)[id[i]])
  <2> DEFINE p == Permuted(ctx, word)
  <2>1. Renames(ctx, word, word[i], p[i]) /\ id[i] = i
    BY <1>4, PermutedWords
  <2> HIDE DEF p
  <2>2. ASSUME NEW s \in DOMAIN CopiesHeard(ctx, word[i]), s \in Explicit(ctx)
        PROVE  NewName(ctx, word, s, CopiesHeard(ctx, word[i])[s]) = r[s][CopiesHeard(ctx, word[i])[s]]
    <3> DEFINE c == CopiesHeard(ctx, word[i])[s]
    <3>1. Heard(ctx, word, s, c)
      <4>1. i \in DOMAIN word
        BY WordsAreLists
      <4> QED BY <2>2, <4>1 DEF Heard, Hears, CopiesHeard
    <3> HIDE DEF c
    <3>2. c \in H(s)
      <4>1. c \in CopiesOf(ctx)
        BY ContextFacts DEF CopiesOf, WordsOf, c
      <4> QED BY <3>1, <4>1
    <3> QED BY <1>2, <2>2, <3>2 DEF c
  <2> QED BY <2>1, <2>2 DEF Renames, Sends, p
<1>6. Matches(ctx, n, word, Permuted(ctx, word), r, id)
  BY <1>3, <1>4, <1>5 DEF Matches
<1> QED BY <1>6, PermutedWords DEF Alike

-----------------------------------------------------------------------------
(* The word that simplify_as_moment gives.                                 *)

NextWord(ctx, word) == SimplifyWord(ctx, Permuted(ctx, word)).word

LEMMA NextIsWord ==
  ASSUME NEW ctx, IsContext(ctx), NEW word \in Seq(OperatorsOf(ctx))
  PROVE  NextWord(ctx, word) \in Seq(OperatorsOf(ctx))
<1>1. PICK n \in Nat : word \in WordsOf(ctx, n)
  BY DEF WordsOf
<1>2. Permuted(ctx, word) \in WordsOf(ctx, n)
  BY <1>1, PermutedWords
<1>3. CASE SimplifyWord(ctx, Permuted(ctx, word)) = ZeroMoment
  BY <1>3 DEF NextWord, ZeroMoment
<1>4. ASSUME NEW m \in Nat, NEW v, SimplifyWord(ctx, Permuted(ctx, word)) = Moment(v), Reduced(ctx, m, v)
      PROVE  NextWord(ctx, word) \in Seq(OperatorsOf(ctx))
  BY <1>4, WordsAreLists DEF NextWord, Moment, Reduced
<1> QED BY <1>2, <1>3, <1>4, SimplifiedIsReduced

\* The recursion of simplify_as_moment.
LEMMA SimplestOf ==
  ASSUME NEW ctx, IsContext(ctx), NEW word \in Seq(OperatorsOf(ctx))
  PROVE  SimplifyAsMoment(ctx, word) =
           IF ~CanBeSimplified(ctx, word) THEN word
           ELSE IF IsSorted(Permuted(ctx, word), =<) THEN NextWord(ctx, word)
           ELSE SimplifyAsMoment(ctx, NextWord(ctx, word))
<1> DEFINE S       == Seq(OperatorsOf(ctx))
           Done(w) == ~CanBeSimplified(ctx, w) \/ IsSorted(Permuted(ctx, w), =<)
           Stop    == {w \in S : Done(w)}
           next    == [w \in S \ Stop |-> NextWord(ctx, w)]
           out     == [w \in S |-> IF ~CanBeSimplified(ctx, w) THEN w ELSE NextWord(ctx, w)]
           Fits(f) == f = [w \in S |-> IF ~CanBeSimplified(ctx, w) THEN w
                                       ELSE IF IsSorted(Permuted(ctx, w), =<) THEN NextWord(ctx, w)
                                       ELSE f[NextWord(ctx, w)]]
           g       == CHOOSE f : Fits(f)
<1>1. Stop \in SUBSET S /\ next \in [S \ Stop -> S]
  <2>1. \A w \in S : NextWord(ctx, w) \in S
    BY NextIsWord
  <2> QED BY <2>1
<1>2. PICK f : Recurs(S, Stop, next, out, f)
  <2> HIDE DEF S, Stop, next, out
  <2> QED BY <1>1, TailRecursion
<1>3. ASSUME NEW w \in S
      PROVE  (IF w \in Stop THEN out[w] ELSE f[next[w]]) =
               IF ~CanBeSimplified(ctx, w) THEN w
               ELSE IF IsSorted(Permuted(ctx, w), =<) THEN NextWord(ctx, w)
               ELSE f[NextWord(ctx, w)]
  OBVIOUS
<1>4. Fits(f)
  <2> HIDE DEF Stop, next, out, S
  <2> QED BY <1>2, <1>3 DEF Recurs
<1>5. Fits(g)
  <2> HIDE DEF Fits
  <2> QED BY <1>4
<1>6. \A w : SimplifyAsMoment(ctx, w) = g[w]
  BY DEF SimplifyAsMoment, NextWord, OperatorsOf
<1> HIDE DEF g
<1>7. g[word] = IF ~CanBeSimplified(ctx, word) THEN word
                ELSE IF IsSorted(Permuted(ctx, word), =<) THEN NextWord(ctx, word)
                ELSE g[NextWord(ctx, word)]
  BY <1>5
<1> QED BY <1>6, <1>7

\* v is a canonical form of the word.
Canonical(ctx, n, v) == Reduced(ctx, n, v) /\ ~CanBeSimplified(ctx, v)
CanonicalFormOf(ctx, n, word, v) ==
  Canonical(ctx, n, v) /\ Alike(ctx, n, word, v) /\ (Whole(ctx, word) => Whole(ctx, v))

(* simplify_as_moment ends for every word of the context that is in order, *)
(* and what it gives is in order, has as many operators, none of which     *)
(* clash, hears the copies of every source in their order, and is in one   *)
(* part if the word is; it is the word with its copies relabelled, so that *)
(* the moment is the same.                                                 *)
THEOREM MomentsAreCanonical ==
  ASSUME NEW ctx, IsContext(ctx), NEW n \in Nat, NEW word, Reduced(ctx, n, word)
  PROVE  CanonicalFormOf(ctx, n, word, SimplifyAsMoment(ctx, word))
<1> DEFINE Good(w) == CanonicalFormOf(ctx, n, w, SimplifyAsMoment(ctx, w))
           B       == {w \in WordsOf(ctx, n) : Reduced(ctx, n, w) /\ ~Good(w)}
           K       == Cardinality(OperatorsOf(ctx))
           After(w) == Sorted(Permuted(ctx, w))
<1> SUFFICES ASSUME B # {} PROVE FALSE
  BY DEF Reduced
<1>1. ASSUME NEW w, Reduced(ctx, n, w)
      PROVE  /\ w \in Seq(OperatorsOf(ctx)) /\ w \in WordsOf(ctx, n) /\ NextWord(ctx, w) = After(w)
             /\ Reduced(ctx, n, After(w)) /\ (Whole(ctx, w) => Whole(ctx, After(w)))
             /\ (IsSorted(Permuted(ctx, w), =<) => After(w) = Permuted(ctx, w))
             /\ Alike(ctx, n, w, w) /\ Alike(ctx, n, w, After(w))
  <2>1. /\ SimplifyWord(ctx, Permuted(ctx, w)) = Moment(After(w))
        /\ Reduced(ctx, n, After(w))
        /\ Whole(ctx, w) => Whole(ctx, After(w))
        /\ IsSorted(Permuted(ctx, w), =<) => After(w) = Permuted(ctx, w)
    BY <1>1, StepSorts
  <2>4. SimplifyWord(ctx, Permuted(ctx, w)) = Moment(After(w))
    BY <2>1
  <2>2. w \in WordsOf(ctx, n) /\ w \in Seq(OperatorsOf(ctx))
    BY <1>1, WordsAreLists DEF Reduced
  <2>3. NextWord(ctx, w) = After(w)
    <3> HIDE DEF After
    <3> QED BY <2>4 DEF NextWord, Moment
  <2>5. Alike(ctx, n, w, w)
    BY <2>2, AlikeItself
  <2>6. Alike(ctx, n, w, After(w))
    <3> DEFINE p == Permuted(ctx, w)
    <3>1. p \in WordsOf(ctx, n) /\ Alike(ctx, n, w, p)
      BY <2>2, PermutedWords, PermutedAlike
    <3> HIDE DEF p
    <3>2. Alike(ctx, n, p, Sorted(p))
      BY <3>1, SortedAlike
    <3> QED BY <3>1, <3>2, AlikeOn DEF p
  <2> HIDE DEF After
  <2> QED BY <2>1, <2>2, <2>3, <2>5, <2>6
<1>2. ASSUME NEW w, Reduced(ctx, n, w), ~CanBeSimplified(ctx, w) PROVE Good(w)
  <2>1. SimplifyAsMoment(ctx, w) = w
    BY <1>1, <1>2, SimplestOf
  <2> QED BY <1>1, <1>2, <2>1 DEF CanonicalFormOf, Canonical
<1>3. ASSUME NEW w, Reduced(ctx, n, w), CanBeSimplified(ctx, w), IsSorted(Permuted(ctx, w), =<) PROVE Good(w)
  <2>1. SimplifyAsMoment(ctx, w) = After(w) /\ After(w) = Permuted(ctx, w)
    BY <1>1, <1>3, SimplestOf
  <2>2. ~CanBeSimplified(ctx, Permuted(ctx, w))
    BY <1>1, <1>3, NamesStay
  <2> QED BY <1>1, <1>3, <2>1, <2>2 DEF CanonicalFormOf, Canonical
<1>4. ASSUME NEW w, Reduced(ctx, n, w), CanBeSimplified(ctx, w), ~IsSorted(Permuted(ctx, w), =<), Good(After(w))
      PROVE  Good(w)
  <2>1. SimplifyAsMoment(ctx, w) = SimplifyAsMoment(ctx, After(w))
    BY <1>1, <1>4, SimplestOf
  <2>2. Alike(ctx, n, w, After(w)) /\ Alike(ctx, n, After(w), SimplifyAsMoment(ctx, After(w)))
    BY <1>1, <1>4 DEF CanonicalFormOf
  <2>3. Alike(ctx, n, w, SimplifyAsMoment(ctx, After(w)))
    BY <2>2, AlikeOn
  <2> QED BY <1>1, <1>4, <2>1, <2>3 DEF CanonicalFormOf
<1>5. ASSUME NEW w \in B PROVE After(w) \in B /\ CanBeSimplified(ctx, w) /\ Reduced(ctx, n, w)
  <2> HIDE DEF Good, After
  <2> QED BY <1>1, <1>2, <1>3, <1>4, <1>5
<1> DEFINE N == [u \in B |-> [x \in 1..K |-> Count(u, x)]]
<1>6. N \in [B -> [1..K -> 0..n]] /\ K \in Nat /\ OperatorsOf(ctx) = 1..K
  <2>1. \A u \in B : \A x : Count(u, x) \in 0..n
    BY CountsAreBounded
  <2> HIDE DEF B
  <2> QED BY <2>1, ContextFacts
<1>7. \A u \in B : \A x \in 1..K : N[u][x] = Count(u, x)
  <2> HIDE DEF B
  <2> QED OBVIOUS
<1> HIDE DEF B, N, K, After
<1>8. PICK v \in B : IsLastRow(B, K, N, v)
  BY <1>6, LastRow
<1>9. PICK x \in 1..K : /\ Count(v, x) < Count(After(v), x)
                        /\ \A y \in 1..K : y < x => Count(After(v), y) = Count(v, y)
  <2>1. Reduced(ctx, n, v) /\ CanBeSimplified(ctx, v)
    BY <1>5
  <2>2. PICK x \in OperatorsOf(ctx) : /\ Count(v, x) < Count(After(v), x)
                                      /\ \A y \in OperatorsOf(ctx) : y < x => Count(After(v), y) = Count(v, y)
    BY <2>1, Descent DEF After
  <2>3. x \in 1..K /\ \A y \in 1..K : y \in OperatorsOf(ctx)
    BY <1>6
  <2> QED BY <2>2, <2>3
<1>10. N[After(v)][x] <= N[v][x]
  <2>1. \A y \in 1..K : y < x => N[After(v)][y] = N[v][y]
    BY <1>5, <1>7, <1>9
  <2> QED BY <1>5, <1>8, <2>1 DEF IsLastRow
<1>11. N[After(v)][x] \in 0..n /\ N[v][x] \in 0..n
  BY <1>5, <1>6
<1> QED BY <1>5, <1>7, <1>9, <1>10, <1>11


-----------------------------------------------------------------------------
(* Words divided into independent parts.                                   *)

IsPart(ctx, word, C) ==
  C \in SUBSET DOMAIN word /\ \A i \in C, j \in DOMAIN word : Linked(ctx, word[i], word[j]) => j \in C

LinkedTo(ctx, word, taken) == {i \in DOMAIN word \ taken : \E j \in taken : Linked(ctx, word[i], word[j])}

LEMMA LinksAreMutual == ASSUME NEW ctx, NEW l, NEW r PROVE Linked(ctx, l, r) <=> Linked(ctx, r, l)
BY DEF Linked

(* The greedy search of factorize takes all that is linked to the first    *)
(* operator, directly or not, and nothing else.                            *)
LEMMA GrownIsPart ==
  ASSUME NEW ctx, NEW n \in Nat, NEW word, DOMAIN word = 1..n, NEW first \in 1..n
  PROVE  /\ IsPart(ctx, word, Grown(ctx, word, first)) /\ first \in Grown(ctx, word, first)
         /\ \A C : IsPart(ctx, word, C) /\ first \in C => Grown(ctx, word, first) \subseteq C
<1> DEFINE S       == SUBSET (1..n)
           More(T) == LinkedTo(ctx, word, T)
           Stop    == {T \in S : More(T) = {}}
           next    == [T \in S \ Stop |-> T \cup {Min(More(T))}]
           out     == [T \in S |-> T]
           Fits(f) == f = [T \in S |-> IF More(T) = {} THEN T ELSE f[T \cup {Min(More(T))}]]
           g       == CHOOSE f : Fits(f)
<1>1. ASSUME NEW T \in S, More(T) # {} PROVE Min(More(T)) \in More(T) /\ More(T) \in SUBSET (1..n)
  <2>1. More(T) \in SUBSET Nat /\ More(T) \in SUBSET (1..n)
    BY DEF LinkedTo
  <2>2. \E m \in More(T) : \A k \in More(T) : m <= k
    <3> HIDE DEF More
    <3> QED BY <1>1, <2>1, LeastOf
  <2> HIDE DEF More
  <2> QED BY <2>1, <2>2 DEF Min
<1>2. Stop \in SUBSET S /\ next \in [S \ Stop -> S]
  <2>1. ASSUME NEW T \in S \ Stop PROVE T \cup {Min(More(T))} \in S
    <3> HIDE DEF More
    <3> QED BY <1>1
  <2> HIDE DEF More
  <2> QED BY <2>1
<1>3. PICK f : Recurs(S, Stop, next, out, f)
  <2> HIDE DEF S, Stop, next, out
  <2> QED BY <1>2, TailRecursion
<1> HIDE DEF More
<1>4. ASSUME NEW T \in S
      PROVE  (IF T \in Stop THEN out[T] ELSE f[next[T]]) = IF More(T) = {} THEN T ELSE f[T \cup {Min(More(T))}]
  OBVIOUS
<1>5. Fits(f)
  <2> HIDE DEF S, Stop, next, out
  <2> QED BY <1>3, <1>4 DEF Recurs
<1>6. Fits(g)
  <2> HIDE DEF Fits
  <2> QED BY <1>5
<1>7. Grown(ctx, word, first) = g[{first}]
  BY DEF Grown, LinkedTo, More
<1> HIDE DEF g
<1>8. ASSUME NEW T \in S PROVE g[T] = IF More(T) = {} THEN T ELSE g[T \cup {Min(More(T))}]
  BY <1>6
<1> DEFINE Good(T) == /\ g[T] \in S /\ T \subseteq g[T] /\ More(g[T]) = {}
                      /\ \A C : IsPart(ctx, word, C) /\ T \subseteq C => g[T] \subseteq C
<1>9. ASSUME NEW T \in S, More(T) = {} PROVE Good(T)
  BY <1>8, <1>9
<1>10. ASSUME NEW T \in S, More(T) # {}, Good(T \cup {Min(More(T))}) PROVE Good(T)
  <2>1. g[T] = g[T \cup {Min(More(T))}]
    BY <1>8, <1>10
  <2>2. ASSUME NEW C, IsPart(ctx, word, C), T \subseteq C PROVE Min(More(T)) \in C
    <3>1. PICK i \in 1..n, j \in T : i = Min(More(T)) /\ Linked(ctx, word[i], word[j])
      BY <1>1, <1>10 DEF More, LinkedTo
    <3>2. Linked(ctx, word[j], word[i])
      BY <3>1, LinksAreMutual
    <3> QED BY <2>2, <3>1, <3>2 DEF IsPart
  <2> QED BY <1>10, <2>1, <2>2
<1> DEFINE Rest(T) == (1..n) \ T
           Sizes   == {Cardinality(Rest(T)) : T \in {U \in S : ~Good(U)}}
<1>11. \A T \in S : IsFiniteSet(Rest(T)) /\ Cardinality(Rest(T)) \in Nat
  <2> TAKE T \in S
  <2>1. IsFiniteSet(1..n)
    BY FS_Interval
  <2>2. Rest(T) \in SUBSET (1..n)
    OBVIOUS
  <2> HIDE DEF Rest
  <2>3. IsFiniteSet(Rest(T))
    BY <2>1, <2>2, FS_Subset
  <2> QED BY <2>3, FS_CardinalityType
<1> HIDE DEF Good
<1>12. \A T \in S : Good(T)
  <2> SUFFICES ASSUME Sizes # {} PROVE FALSE
    OBVIOUS
  <2>1. Sizes \in SUBSET Nat
    BY <1>11
  <2>2. PICK m \in Sizes : \A k \in Sizes : m <= k
    <3> HIDE DEF Sizes
    <3> QED BY <2>1, LeastOf
  <2>3. PICK T \in S : ~Good(T) /\ m = Cardinality(Rest(T))
    OBVIOUS
  <2>4. More(T) # {}
    BY <1>9, <2>3
  <2> DEFINE x == Min(More(T))
             U == T \cup {x}
  <2>5. x \in Rest(T) /\ U \in S /\ Rest(U) = Rest(T) \ {x}
    <3>1. x \in More(T) /\ x \in 1..n
      BY <1>1, <2>4
    <3>2. x \notin T
      <4> HIDE DEF x
      <4> QED BY <3>1 DEF More, LinkedTo
    <3> HIDE DEF x
    <3> QED BY <3>1, <3>2
  <2>6. ~Good(U)
    BY <1>10, <2>3, <2>4
  <2>7. Cardinality(Rest(U)) \in Sizes
    <3> HIDE DEF U, Rest
    <3> QED BY <2>5, <2>6
  <2>8. Cardinality(Rest(U)) = Cardinality(Rest(T)) - 1
    <3> HIDE DEF U, Rest, x
    <3> QED BY <1>11, <2>5, FS_RemoveElement
  <2>9. m <= Cardinality(Rest(U)) /\ m \in Nat
    <3> HIDE DEF Rest, Sizes, U
    <3> QED BY <2>1, <2>2, <2>7
  <2> HIDE DEF Rest, Sizes, U
  <2> QED BY <2>3, <2>8, <2>9
<1>13. Good({first})
  BY <1>12
<1> DEFINE C == g[{first}]
<1>14. IsPart(ctx, word, C)
  <2>1. C \in SUBSET (1..n) /\ More(C) = {}
    BY <1>13 DEF Good
  <2>2. ASSUME NEW i \in C, NEW j \in 1..n, Linked(ctx, word[i], word[j]) PROVE j \in C
    <3>1. Linked(ctx, word[j], word[i])
      BY <2>2, LinksAreMutual
    <3> HIDE DEF C
    <3> QED BY <2>1, <2>2, <3>1 DEF More, LinkedTo
  <2> HIDE DEF C
  <2> QED BY <2>1, <2>2 DEF IsPart
<1>15. first \in C /\ \A D : IsPart(ctx, word, D) /\ first \in D => C \subseteq D
  BY <1>13 DEF Good
<1> QED BY <1>7, <1>14, <1>15

PartsOf(ctx, word) == {Grown(ctx, word, i) : i \in DOMAIN word}

\* What belongs to a part has no other.
LEMMA PartsAreApart ==
  ASSUME NEW ctx, NEW n \in Nat, NEW word, DOMAIN word = 1..n, NEW i \in 1..n, NEW j \in Grown(ctx, word, i)
  PROVE  j \in 1..n /\ Grown(ctx, word, j) = Grown(ctx, word, i)
<1> DEFINE C == Grown(ctx, word, i)
           D == Grown(ctx, word, j)
<1>1. IsPart(ctx, word, C) /\ i \in C /\ \A E : IsPart(ctx, word, E) /\ i \in E => C \subseteq E
  BY GrownIsPart
<1>2. j \in C /\ j \in 1..n
  BY <1>1 DEF IsPart
<1>3. IsPart(ctx, word, D) /\ j \in D /\ \A E : IsPart(ctx, word, E) /\ j \in E => D \subseteq E
  BY <1>2, GrownIsPart
<1> HIDE DEF C, D
<1>4. D \subseteq C
  BY <1>1, <1>2, <1>3
<1>5. i \in D
  <2> SUFFICES ASSUME i \notin D PROVE FALSE
    OBVIOUS
  <2>1. ASSUME NEW k \in C \ D, NEW l \in DOMAIN word, Linked(ctx, word[k], word[l]) PROVE l \in C \ D
    <3>1. l \in C
      BY <1>1, <2>1 DEF IsPart
    <3>2. Linked(ctx, word[l], word[k]) /\ k \in DOMAIN word
      BY <1>1, <2>1, LinksAreMutual DEF IsPart
    <3> QED BY <1>3, <2>1, <3>1, <3>2 DEF IsPart
  <2>2. IsPart(ctx, word, C \ D)
    BY <1>1, <2>1 DEF IsPart
  <2>3. C \subseteq C \ D
    BY <1>1, <2>2
  <2> QED BY <1>2, <1>3, <2>3
<1>6. C \subseteq D
  BY <1>1, <1>3, <1>5
<1> QED BY <1>2, <1>4, <1>6 DEF C, D

Cover(ctx, word, n) ==
  \A i \in 1..n : /\ Grown(ctx, word, i) \in SUBSET (1..n) /\ i \in Grown(ctx, word, i)
                  /\ \A j \in Grown(ctx, word, i) : Grown(ctx, word, j) = Grown(ctx, word, i)

LEMMA PartsCover ==
  ASSUME NEW ctx, NEW n \in Nat, NEW word, DOMAIN word = 1..n
  PROVE  Cover(ctx, word, n)
<1> SUFFICES ASSUME NEW i \in 1..n
             PROVE  /\ Grown(ctx, word, i) \in SUBSET (1..n) /\ i \in Grown(ctx, word, i)
                    /\ \A j \in Grown(ctx, word, i) : Grown(ctx, word, j) = Grown(ctx, word, i)
  BY DEF Cover
<1>1. IsPart(ctx, word, Grown(ctx, word, i)) /\ i \in Grown(ctx, word, i)
  BY GrownIsPart
<1>2. ASSUME NEW j \in Grown(ctx, word, i) PROVE Grown(ctx, word, j) = Grown(ctx, word, i)
  BY PartsAreApart
<1> QED BY <1>1, <1>2 DEF IsPart

LEMMA BijectionGoesOn ==
  ASSUME NEW m \in Nat, NEW T, NEW f \in Bijection(1..m, T), NEW c, c \notin T
  PROVE  [k \in 1..(m + 1) |-> IF k = m + 1 THEN c ELSE f[k]] \in Bijection(1..(m + 1), T \cup {c})
<1> DEFINE P == 1..m
           Q == 1..(m + 1)
           g == [k \in Q |-> IF k = m + 1 THEN c ELSE f[k]]
<1>1. f \in Bijection(P, T)
  OBVIOUS
<1>2. Q = P \cup {m + 1} /\ m + 1 \notin P
  OBVIOUS
<1> HIDE DEF P, Q
<1>3. f \in [P -> T] /\ (\A x, y \in P : f[x] = f[y] => x = y) /\ \A y \in T : \E x \in P : f[x] = y
  BY <1>1, BijectionFacts
<1>4. g \in [Q -> T \cup {c}] /\ g[m + 1] = c /\ \A k \in P : g[k] = f[k] /\ g[k] \in T
  BY <1>2, <1>3
<1> HIDE DEF g
<1>5. \A x, y \in Q : g[x] = g[y] => x = y
  BY <1>2, <1>3, <1>4
<1>6. \A y \in T \cup {c} : \E x \in Q : g[x] = y
  BY <1>2, <1>3, <1>4
<1>7. g \in Bijection(Q, T \cup {c})
  BY <1>4, <1>5, <1>6, BijectionFacts
<1> QED BY <1>7 DEF g, Q

\* The factors are the parts of those that are taken.
Takes(ctx, word, taken, factors) ==
  /\ \A i \in taken : Grown(ctx, word, i) \subseteq taken
  /\ \E part \in Bijection(1..Len(factors), {Grown(ctx, word, i) : i \in taken}) :
       \A i \in 1..Len(factors) : factors[i] = Moment(Subsequence(word, part[i]))

LEMMA OneMoreTaken ==
  ASSUME NEW ctx, NEW n \in Nat, NEW word, DOMAIN word = 1..n, NEW taken \in SUBSET (1..n), NEW S,
         NEW factors \in Seq(S), Takes(ctx, word, taken, factors), NEW k \in (1..n) \ taken,
         NEW f \in S, f = Moment(Subsequence(word, Grown(ctx, word, k)))
  PROVE  Takes(ctx, word, taken \cup Grown(ctx, word, k), Append(factors, f))
<1> DEFINE C == Grown(ctx, word, k)
           G(i) == Grown(ctx, word, i)
           T == {G(i) : i \in taken}
           U == {G(i) : i \in taken \cup C}
           m == Len(factors)
           more == Append(factors, f)
<1>1. C \in SUBSET (1..n) /\ k \in C /\ (\A i \in C : G(i) = C) /\ \A i \in 1..n : i \in G(i)
  <2>1. Cover(ctx, word, n)
    BY PartsCover
  <2>2. k \in 1..n
    OBVIOUS
  <2> QED BY <2>1, <2>2 DEF Cover
<1>2. \A i \in taken : G(i) \subseteq taken
  BY DEF Takes
<1>3. \A i \in taken \cup C : G(i) \subseteq taken \cup C
  BY <1>1, <1>2
<1>4. C \notin T /\ U = T \cup {C}
  <2> HIDE DEF C, G
  <2>1. C \notin T
    BY <1>1, <1>2
  <2> QED BY <1>1, <2>1
<1>5. m \in Nat /\ Len(more) = m + 1 /\ more[m + 1] = f /\ \A i \in 1..m : more[i] = factors[i]
  OBVIOUS
<1>6. PICK part \in Bijection(1..m, T) : \A i \in 1..m : factors[i] = Moment(Subsequence(word, part[i]))
  BY DEF Takes
<1> DEFINE g == [i \in 1..(m + 1) |-> IF i = m + 1 THEN C ELSE part[i]]
<1>7. g[m + 1] = C /\ \A i \in 1..m : g[i] = part[i]
  BY <1>5
<1> HIDE DEF C, T, U, m, more
<1>8. g \in Bijection(1..(m + 1), U)
  BY <1>4, <1>5, <1>6, BijectionGoesOn
<1> HIDE DEF g
<1>9. ASSUME NEW i \in 1..(m + 1) PROVE more[i] = Moment(Subsequence(word, g[i]))
  <2>1. CASE i = m + 1
    BY <1>5, <1>7, <2>1 DEF C
  <2>2. CASE i \in 1..m
    BY <1>5, <1>6, <1>7, <2>2
  <2> QED BY <1>5, <2>1, <2>2
<1> QED BY <1>3, <1>5, <1>8, <1>9 DEF Takes, C, U, more

Similar(ctx, u, v) == \E m \in Nat : Alike(ctx, m, u, v)

\* The N moments are those of the parts of the word, each up to a relabelling.
IsDivision(ctx, word, N, moments, part) ==
  /\ part \in Bijection(1..N, PartsOf(ctx, word))
  /\ \A i \in 1..N : \E w : moments[i] = Moment(w) /\ Similar(ctx, Subsequence(word, part[i]), w)
DividesInto(ctx, word, N, moments) == \E part : IsDivision(ctx, word, N, moments, part)

LEMMA SimilarOn ==
  ASSUME NEW ctx, IsContext(ctx), NEW u, NEW v, NEW w, Similar(ctx, u, v), Similar(ctx, v, w)
  PROVE  Similar(ctx, u, w)
<1>1. PICK m \in Nat : Alike(ctx, m, u, v)
  BY DEF Similar
<1>2. PICK k \in Nat : Alike(ctx, k, v, w)
  BY DEF Similar
<1>3. Len(v) = m /\ Len(v) = k
  <2>1. v \in WordsOf(ctx, m) /\ v \in WordsOf(ctx, k)
    BY <1>1, <1>2 DEF Alike
  <2> QED BY <2>1, WordsAreLists
<1> QED BY <1>1, <1>2, <1>3, AlikeOn DEF Similar

LEMMA SimilarBack ==
  ASSUME NEW ctx, IsContext(ctx), NEW u, NEW v, Similar(ctx, u, v)
  PROVE  Similar(ctx, v, u)
BY AlikeBack DEF Similar

\* The moments of the parts may be relabelled further, and permuted.
RelabelsAll(ctx, N, moments, new, at) ==
  /\ at \in Bijection(1..N, 1..N)
  /\ \A i \in 1..N : \A v : moments[at[i]] = Moment(v) => \E w : new[i] = Moment(w) /\ Similar(ctx, v, w)

LEMMA DivisionRelabelled ==
  ASSUME NEW ctx, IsContext(ctx), NEW word, NEW N, NEW moments, DividesInto(ctx, word, N, moments), NEW new,
         NEW at, RelabelsAll(ctx, N, moments, new, at)
  PROVE  DividesInto(ctx, word, N, new)
<1>1. PICK part : IsDivision(ctx, word, N, moments, part)
  BY DEF DividesInto
<1> DEFINE Q == 1..N
           both == [i \in Q |-> part[at[i]]]
<1>2. at \in Bijection(Q, Q) /\ part \in Bijection(Q, PartsOf(ctx, word))
  BY <1>1 DEF IsDivision, RelabelsAll
<1>3. \A i \in Q : \E w : moments[i] = Moment(w) /\ Similar(ctx, Subsequence(word, part[i]), w)
  BY <1>1 DEF IsDivision
<1>4. \A i \in Q : \A v : moments[at[i]] = Moment(v) => \E w : new[i] = Moment(w) /\ Similar(ctx, v, w)
  BY DEF RelabelsAll
<1> HIDE DEF Q
<1>5. both \in Bijection(Q, PartsOf(ctx, word))
  BY <1>2, BijectionsCompose
<1>6. \A i \in Q : at[i] \in Q /\ both[i] = part[at[i]]
  BY <1>2, BijectionFacts
<1> HIDE DEF both
<1>7. ASSUME NEW i \in Q PROVE \E w : new[i] = Moment(w) /\ Similar(ctx, Subsequence(word, both[i]), w)
  <2>1. PICK v : moments[at[i]] = Moment(v) /\ Similar(ctx, Subsequence(word, both[i]), v)
    BY <1>3, <1>6
  <2>2. PICK w : new[i] = Moment(w) /\ Similar(ctx, v, w)
    BY <1>4, <2>1
  <2> QED BY <2>1, <2>2, SimilarOn
<1>8. IsDivision(ctx, word, N, new, both)
  BY <1>5, <1>7 DEF IsDivision, Q
<1> QED BY <1>8 DEF DividesInto


LEMMA WholeIsOnePart ==
  ASSUME NEW ctx, IsContext(ctx), NEW n \in Nat \ {0}, NEW word \in WordsOf(ctx, n), Whole(ctx, word),
         NEW moments, moments[1] = Moment(word)
  PROVE  DividesInto(ctx, word, 1, moments)
<1> DEFINE part == [i \in 1..1 |-> 1..n]
<1>1. DOMAIN word = 1..n /\ word \in [1..n -> OperatorsOf(ctx)]
  BY DEF WordsOf
<1>2. ASSUME NEW i \in 1..n PROVE Grown(ctx, word, i) = 1..n
  <2>1. IsPart(ctx, word, Grown(ctx, word, i)) /\ i \in Grown(ctx, word, i)
    BY <1>1, GrownIsPart
  <2> QED BY <1>1, <2>1 DEF IsPart, Whole
<1>3. 1 \in 1..n
  OBVIOUS
<1>4. PartsOf(ctx, word) = {1..n}
  BY <1>1, <1>2, <1>3 DEF PartsOf
<1>5. part[1] = 1..n /\ \A i \in 1..1 : i = 1
  OBVIOUS
<1>6. part \in Bijection(1..1, {1..n})
  <2> DEFINE P == 1..n
             Q == 1..1
  <2>1. part = [i \in Q |-> P] /\ \A i \in Q : i = 1
    OBVIOUS
  <2>0. 1 \in Q
    OBVIOUS
  <2> HIDE DEF P, Q, part
  <2>2. part \in [Q -> {P}] /\ (\A x, y \in Q : part[x] = part[y] => x = y) /\ \A y \in {P} : \E x \in Q : part[x] = y
    BY <2>0, <2>1
  <2> QED BY <2>2, BijectionFacts DEF P, Q
<1>7. Subsequence(word, 1..n) = word
  BY <1>1, SubsequenceOfAll
<1>8. Similar(ctx, word, word)
  BY AlikeItself DEF Similar
<1> HIDE DEF part
<1>9. IsDivision(ctx, word, 1, moments, part)
  BY <1>4, <1>5, <1>6, <1>7, <1>8 DEF IsDivision
<1> QED BY <1>9 DEF DividesInto

\* A factor: a moment of one part, and not of nothing.
IsFactor(ctx, f) == \E m \in Nat \ {0} : \E v : f = Moment(v) /\ Reduced(ctx, m, v) /\ Whole(ctx, v)

LEMMA GrownIsFactor ==
  ASSUME NEW ctx, IsContext(ctx), NEW n \in Nat, NEW word, Reduced(ctx, n, word), NEW first \in 1..n
  PROVE  LET v == Subsequence(word, Grown(ctx, word, first))
         IN  SimplifyWord(ctx, v) = Moment(v) /\ IsFactor(ctx, Moment(v))
<1> DEFINE C == Grown(ctx, word, first)
           m == Cardinality(C)
           v == Subsequence(word, C)
<1>1. DOMAIN word = 1..n /\ (\A i \in 1..n : word[i] \in OperatorsOf(ctx)) /\ InOrder(word) /\ Apart(ctx, word)
  BY WordsAreLists DEF Reduced
<1>2. /\ IsPart(ctx, word, C) /\ first \in C
      /\ \A D : IsPart(ctx, word, D) /\ first \in D => C \subseteq D
  BY <1>1, GrownIsPart
<1>3. C \in SUBSET (1..n)
  BY <1>1, <1>2 DEF IsPart
<1> HIDE DEF C
<1>4. PICK at : Keeps(word, C, at)
  BY <1>3, SubsequenceOf
<1>5. /\ v = [k \in 1..m |-> word[at[k]]] /\ \A k \in 1..m : at[k] \in C
      /\ \A k, l \in 1..m : k < l => at[k] < at[l]
      /\ \A i \in C : \E k \in 1..m : at[k] = i
  BY <1>4 DEF Keeps, Bijection, Injection, Surjection
<1>6. m \in Nat \ {0}
  <2>1. IsFiniteSet(1..n)
    BY FS_Interval
  <2>2. IsFiniteSet(C)
    BY <1>3, <2>1, FS_Subset
  <2>3. m \in Nat /\ (m = 0 <=> C = {})
    BY <2>2, FS_CardinalityType, FS_EmptySet
  <2> QED BY <1>2, <2>3
<1> HIDE DEF m, v
<1>7. DOMAIN v = 1..m /\ \A k \in 1..m : v[k] = word[at[k]]
  BY <1>5
<1>8. v \in WordsOf(ctx, m)
  BY <1>1, <1>3, <1>5 DEF WordsOf
<1>9. InOrder(v)
  BY <1>1, <1>3, <1>5, <1>7 DEF InOrder
<1>10. Apart(ctx, v)
  <2> SUFFICES ASSUME NEW k \in 1..m, NEW l \in 1..m, k # l PROVE ~Clash(ctx, word[at[k]], word[at[l]])
    BY <1>7 DEF Apart
  <2>1. at[k] \in 1..n /\ at[l] \in 1..n
    BY <1>3, <1>5
  <2>2. at[k] # at[l]
    <3>1. CASE k < l
      BY <1>5, <2>1, <3>1
    <3>2. CASE l < k
      BY <1>5, <2>1, <3>2
    <3> QED BY <1>6, <3>1, <3>2
  <2> QED BY <1>1, <2>1, <2>2 DEF Apart
<1>11. Whole(ctx, v)
  <2> SUFFICES ASSUME NEW P \in SUBSET (1..m), P # {},
                      \A k \in P, l \in 1..m : Linked(ctx, v[k], v[l]) => l \in P
               PROVE  P = 1..m
    BY <1>7 DEF Whole
  <2> DEFINE E == {at[k] : k \in P}
  <2>1. E \subseteq C /\ E # {}
    <3>1. ASSUME NEW k \in P PROVE at[k] \in C
      <4>1. k \in 1..m
        OBVIOUS
      <4>2. \A l \in 1..m : at[l] \in C
        BY <1>5
      <4> HIDE DEF C, m
      <4> QED BY <4>1, <4>2
    <3> HIDE DEF C
    <3> QED BY <3>1
  <2>2. ASSUME NEW i \in E, NEW j \in C, Linked(ctx, word[i], word[j]) PROVE j \in E
    <3>1. PICK k \in P : at[k] = i
      OBVIOUS
    <3>2. PICK l \in 1..m : at[l] = j
      BY <1>5
    <3>3. Linked(ctx, v[k], v[l])
      BY <1>7, <2>2, <3>1, <3>2
    <3> QED BY <3>1, <3>2, <3>3
  <2> HIDE DEF E
  <2>3. \A i \in C, j \in 1..n : Linked(ctx, word[i], word[j]) => j \in C
    BY <1>1, <1>2 DEF IsPart
  <2>4. first \in E
    <3> SUFFICES ASSUME first \notin E PROVE FALSE
      OBVIOUS
    <3>1. IsPart(ctx, word, C \ E)
      <4>1. ASSUME NEW i \in C \ E, NEW j \in 1..n, Linked(ctx, word[i], word[j]) PROVE j \in C \ E
        <5>1. j \in C /\ Linked(ctx, word[j], word[i])
          BY <2>3, <4>1, LinksAreMutual
        <5> QED BY <2>2, <5>1
      <4> QED BY <1>1, <1>3, <4>1 DEF IsPart
    <3>2. C \subseteq C \ E
      BY <1>2, <3>1
    <3> QED BY <2>1, <3>2
  <2>5. IsPart(ctx, word, E)
    BY <1>1, <1>3, <2>1, <2>2, <2>3 DEF IsPart
  <2>6. E = C
    BY <1>2, <2>1, <2>4, <2>5
  <2>7. ASSUME NEW k \in 1..m PROVE k \in P
    <3>1. at[k] \in E
      BY <1>5, <2>6
    <3>2. PICK l \in P : at[l] = at[k]
      BY <3>1 DEF E
    <3>5. l \in 1..m /\ k \in 1..m
      OBVIOUS
    <3>6. at[k] \in C /\ at[l] \in C
      BY <1>5, <3>5
    <3>7. at[k] \in 1..n /\ at[l] \in 1..n
      BY <1>3, <3>6
    <3>3. at[k] \in Int /\ at[l] \in Int
      BY <3>7
    <3>4. k = l
      <4>1. ~(k < l) /\ ~(l < k)
        BY <1>5, <3>2, <3>3, <3>5
      <4> QED BY <1>6, <3>5, <4>1
    <3> QED BY <3>4
  <2> QED BY <2>7
<1>12. Reduced(ctx, m, v)
  BY <1>8, <1>9, <1>10 DEF Reduced
<1>13. SimplifyWord(ctx, v) = Moment(v)
  BY <1>6, <1>12, ReducedSimplifies
<1> QED BY <1>6, <1>11, <1>12, <1>13 DEF IsFactor, v, C


LEMMA NothingTaken ==
  ASSUME NEW ctx, NEW word
  PROVE  Takes(ctx, word, {}, <<>>)
<1> DEFINE Q == 1..Len(<<>>)
           T == {Grown(ctx, word, i) : i \in {}}
           none == [i \in Q |-> {}]
<1>1. Q = {} /\ T = {}
  OBVIOUS
<1> HIDE DEF Q, T
<1>2. none \in [Q -> T] /\ (\A x, y \in Q : none[x] = none[y] => x = y) /\ \A y \in T : \E x \in Q : none[x] = y
  BY <1>1
<1> HIDE DEF none
<1>3. none \in Bijection(Q, T)
  BY <1>2, BijectionFacts
<1>4. \A i \in Q : <<>>[i] = Moment(Subsequence(word, none[i]))
  BY <1>1
<1> QED BY <1>3, <1>4 DEF Takes, Q, T

LEMMA AllTaken ==
  ASSUME NEW ctx, IsContext(ctx), NEW n \in Nat, NEW word, Reduced(ctx, n, word), NEW factors, Takes(ctx, word, 1..n, factors)
  PROVE  DividesInto(ctx, word, Len(factors), factors)
<1>1. DOMAIN word = 1..n
  BY WordsAreLists DEF Reduced
<1>2. PICK part \in Bijection(1..Len(factors), {Grown(ctx, word, i) : i \in 1..n}) :
        \A i \in 1..Len(factors) : factors[i] = Moment(Subsequence(word, part[i]))
  BY DEF Takes
<1>3. PartsOf(ctx, word) = {Grown(ctx, word, i) : i \in 1..n}
  BY <1>1 DEF PartsOf
<1>4. ASSUME NEW i \in 1..Len(factors)
      PROVE  Similar(ctx, Subsequence(word, part[i]), Subsequence(word, part[i]))
  <2>1. part[i] \in PartsOf(ctx, word)
    <3> DEFINE Q == 1..Len(factors)
    <3>1. part \in Bijection(Q, PartsOf(ctx, word)) /\ i \in Q
      BY <1>2, <1>3
    <3> HIDE DEF Q
    <3> QED BY <3>1, BijectionFacts
  <2>2. PICK k \in 1..n : part[i] = Grown(ctx, word, k)
    BY <1>3, <2>1
  <2> DEFINE v == Subsequence(word, part[i])
  <2>3. IsFactor(ctx, Moment(v))
    BY <2>2, GrownIsFactor
  <2> HIDE DEF v
  <2>4. PICK m \in Nat \ {0} : \E w : Moment(v) = Moment(w) /\ Reduced(ctx, m, w)
    BY <2>3 DEF IsFactor
  <2>5. v \in WordsOf(ctx, m)
    BY <2>4 DEF Reduced, Moment
  <2> QED BY <2>5, AlikeItself DEF Similar, v
<1>5. IsDivision(ctx, word, Len(factors), factors, part)
  BY <1>2, <1>3, <1>4 DEF IsDivision
<1> QED BY <1>5 DEF DividesInto

Moments(ctx) == {Moment(v) : v \in Seq(OperatorsOf(ctx))}

(* What factorize makes of the moment of a word: its parts; it is left     *)
(* alone exactly if there is nothing to divide.                            *)
IsFactorization(ctx, n, word, factors) ==
  /\ factors \in Seq(Moments(ctx)) /\ Len(factors) >= 1
  /\ n # 0 => DividesInto(ctx, word, Len(factors), factors) /\ \A i \in 1..Len(factors) : IsFactor(ctx, factors[i])
  /\ Len(factors) = 1 \/ Whole(ctx, word) => factors = <<Moment(word)>>

LEMMA FactorizedIntoFactors ==
  ASSUME NEW ctx, IsContext(ctx), NEW n \in Nat, NEW word, Reduced(ctx, n, word),
         NEW moment, moment = Moment(word)
  PROVE  IsFactorization(ctx, n, word, Factorize(ctx, moment))
<1>1. /\ DOMAIN word = 1..n /\ Len(word) = n /\ word \in Seq(OperatorsOf(ctx))
      /\ word = [i \in 1..n |-> word[i]]
  BY WordsAreLists DEF Reduced
<1>2. Moment(word) \in Moments(ctx)
  BY <1>1 DEF Moments
<1>3. CASE n <= 1
  <2>1. Factorize(ctx, moment) = <<Moment(word)>>
    BY <1>1, <1>3 DEF Factorize, Moment
  <2>5. n # 0 => Whole(ctx, word)
    <3> SUFFICES ASSUME n = 1 PROVE Whole(ctx, word)
      BY <1>3
    <3>1. DOMAIN word = {1}
      BY <1>1
    <3> QED BY <3>1 DEF Whole
  <2>2. n # 0 => IsFactor(ctx, Moment(word))
    BY <2>5 DEF IsFactor
  <2> HIDE DEF Moment
  <2>3. <<Moment(word)>> \in Seq(Moments(ctx)) /\ Len(<<Moment(word)>>) = 1
    BY <1>2
  <2>4. \A i \in 1..1 : <<Moment(word)>>[i] = Moment(word)
    OBVIOUS
  <2>6. n # 0 => DividesInto(ctx, word, 1, <<Moment(word)>>)
    BY <2>4, <2>5, WholeIsOnePart DEF Reduced
  <2> QED BY <2>1, <2>2, <2>3, <2>4, <2>6 DEF IsFactorization
<1>4. CASE n > 1
  <2> DEFINE base == [taken |-> {}, factors |-> <<>>]
             seq  == [i \in DOMAIN moment.word |-> i]
             Op(d, i) == TakeFactor(ctx, moment.word, d, i)
             States == [taken : SUBSET (1..n), factors : Seq(Moments(ctx))]
             Good(k, d) == /\ \A i \in 1..k : i \in d.taken
                           /\ \A i \in 1..Len(d.factors) : IsFactor(ctx, d.factors[i])
                           /\ k = 0 => d = base
                           /\ k # 0 => Len(d.factors) >= 1
                           /\ Len(d.factors) = 1 => d.factors = <<Moment(Subsequence(word, d.taken))>>
                           /\ k # 0 /\ Whole(ctx, word) => d.taken = 1..n /\ d.factors = <<Moment(word)>>
                           /\ Takes(ctx, word, d.taken, d.factors)
             D == [k \in 0..n |-> {d \in States : Good(k, d)}]
             F == [k \in 1..n |-> [d \in D[k - 1] |-> Op(d, k)]]
  <2>s. moment.word = word /\ seq = [i \in 1..n |-> i] /\ Len(seq) = n
    BY <1>1 DEF Moment
  <2>1. base \in D[0]
    <3>1. Takes(ctx, word, {}, <<>>)
      BY NothingTaken
    <3>2. base \in States
      OBVIOUS
    <3>3. Good(0, base)
      BY <3>1
    <3> HIDE DEF Op, Good, States, base
    <3> QED BY <3>2, <3>3
  <2> HIDE DEF seq
  <2>2. ASSUME NEW k \in 1..n, NEW d, d \in States, Good(k - 1, d) PROVE Op(d, k) \in States /\ Good(k, Op(d, k))
    <3>1. CASE k \in d.taken
      <4>1. Op(d, k) = d
        BY <2>s, <3>1 DEF TakeFactor
      <4>2. k # 1
        BY <2>2, <3>1
      <4>3. \A i \in 1..k : i \in d.taken
        BY <2>2, <3>1, \A i \in 1..k : i = k \/ i \in 1..(k - 1)
      <4> QED BY <2>2, <4>1, <4>2, <4>3
    <3>2. CASE k \notin d.taken
      <4> DEFINE C == Grown(ctx, word, k)
                 v == Subsequence(word, C)
                 e == [taken |-> d.taken \cup C, factors |-> Append(d.factors, Moment(v))]
      <4>1. /\ IsPart(ctx, word, C) /\ k \in C
            /\ SimplifyWord(ctx, v) = Moment(v) /\ IsFactor(ctx, Moment(v))
        <5>1. IsPart(ctx, word, C) /\ k \in C
          BY <1>1, GrownIsPart
        <5>2. SimplifyWord(ctx, v) = Moment(v) /\ IsFactor(ctx, Moment(v))
          BY GrownIsFactor
        <5> QED BY <5>1, <5>2
      <4>2. Op(d, k) = e
        BY <2>s, <3>2, <4>1 DEF TakeFactor
      <4>3. C \in SUBSET (1..n) /\ (Whole(ctx, word) => C = 1..n)
        <5> HIDE DEF C
        <5> QED BY <1>1, <4>1 DEF IsPart, Whole
      <4>4. Moment(v) \in Moments(ctx)
        <5>0. PICK m \in Nat \ {0} : \E w : Moment(v) = Moment(w) /\ Reduced(ctx, m, w)
          BY <4>1 DEF IsFactor
        <5>1. PICK w : Moment(v) = Moment(w) /\ Reduced(ctx, m, w)
          BY <5>0
        <5>2. w \in Seq(OperatorsOf(ctx))
          BY <5>1, WordsAreLists DEF Reduced
        <5> HIDE DEF v
        <5> QED BY <5>1, <5>2 DEF Moments
      <4> DEFINE f == Moment(v)
      <4>5. C = 1..n => f = Moment(word)
        BY <1>1, SubsequenceOfAll
      <4>6. d.factors \in Seq(Moments(ctx)) /\ d.taken \in SUBSET (1..n)
        BY <2>2
      <4>f. f \in Moments(ctx) /\ IsFactor(ctx, f)
        BY <4>1, <4>4
      <4>7. k = 1 => f = Moment(Subsequence(word, d.taken \cup C)) /\ d.factors = <<>>
        <5> SUFFICES ASSUME k = 1 PROVE d.taken \cup C = C /\ d.factors = <<>>
          OBVIOUS
        <5>1. d = base
          BY <2>2
        <5> HIDE DEF C
        <5> QED BY <5>1
      <4>c. k # 1 => Len(d.factors) >= 1 /\ ~Whole(ctx, word)
        BY <2>2, <3>2
      <4>g. \A i \in 1..Len(d.factors) : IsFactor(ctx, d.factors[i])
        BY <2>2
      <4>t. \A i \in 1..(k - 1) : i \in d.taken
        BY <2>2
      <4> HIDE DEF f, C
      <4>8. Len(Append(d.factors, f)) = Len(d.factors) + 1 /\ Len(d.factors) \in Nat
        BY <4>6, <4>f
      <4>9. \A i \in 1..Len(Append(d.factors, f)) : IsFactor(ctx, Append(d.factors, f)[i])
        <5> TAKE i \in 1..Len(Append(d.factors, f))
        <5>1. CASE i \in 1..Len(d.factors)
          BY <4>g, <4>6, <4>f, <5>1
        <5>2. CASE i = Len(d.factors) + 1
          BY <4>6, <4>f, <5>2
        <5> QED BY <4>8, <5>1, <5>2
      <4>10. \A i \in 1..k : i \in d.taken \cup C
        BY <4>t, <4>1, \A i \in 1..k : i = k \/ i \in 1..(k - 1)
      <4>11. Len(Append(d.factors, f)) = 1 => Append(d.factors, f) = <<Moment(Subsequence(word, d.taken \cup C))>>
        <5>1. Len(Append(d.factors, f)) = 1 => k = 1
          BY <4>8, <4>c
        <5>2. Append(<<>>, f) = <<f>>
          OBVIOUS
        <5> HIDE DEF Op, States, Good
        <5> QED BY <4>7, <5>1, <5>2
      <4>12. Whole(ctx, word) => d.taken \cup C = 1..n /\ Append(d.factors, f) = <<Moment(word)>>
        <5>1. Append(<<>>, f) = <<f>>
          OBVIOUS
        <5> HIDE DEF Op, States, Good
        <5> QED BY <4>3, <4>5, <4>6, <4>7, <4>c, <5>1
      <4>13. Append(d.factors, f) \in Seq(Moments(ctx))
        BY <4>6, <4>f
      <4>14. e = [taken |-> d.taken \cup C, factors |-> Append(d.factors, f)]
        BY DEF f
      <4>17. Takes(ctx, word, d.taken \cup C, Append(d.factors, f))
        <5>1. Takes(ctx, word, d.taken, d.factors)
          BY <2>2
        <5>2. f = Moment(Subsequence(word, C))
          BY DEF f
        <5> HIDE DEF Op, States, Good
        <5> QED BY <1>1, <3>2, <4>6, <4>f, <5>1, <5>2, OneMoreTaken DEF C
      <4> HIDE DEF e, Op
      <4>15. e \in States
        BY <4>3, <4>6, <4>13, <4>14
      <4>16. Good(k, e)
        BY <4>8, <4>9, <4>10, <4>11, <4>12, <4>14, <4>17
      <4> QED BY <4>2, <4>15, <4>16
    <3> QED BY <3>1, <3>2
  <2> HIDE DEF Good, States
  <2>3. \A k \in 1..n : F[k] \in [D[k - 1] -> D[k]] /\ \A d \in D[k - 1] : F[k][d] = Op(d, k)
    <3> HIDE DEF Op
    <3> QED BY <2>2
  <2> HIDE DEF F, D, base, Op
  <2>4. PICK run : Runs(n, base, F, run) /\ \A k \in 0..n : run[k] \in D[k]
    BY <2>1, <2>3, Iterates
  <2> DEFINE Fits(a) == a = [k \in 0..n |-> IF k = 0 THEN base ELSE Op(a[k - 1], seq[k])]
             at      == CHOOSE a : Fits(a)
  <2>5. Fits(run)
    <3>1. run = [k \in 0..n |-> IF k = 0 THEN base ELSE F[k][run[k - 1]]]
      BY <2>4 DEF Runs
    <3>2. \A k \in 0..n : (IF k = 0 THEN base ELSE F[k][run[k - 1]]) = IF k = 0 THEN base ELSE Op(run[k - 1], seq[k])
      BY <2>3, <2>4, <2>s
    <3> QED BY <3>1, <3>2
  <2>6. Fits(at)
    <3> HIDE DEF Fits
    <3> QED BY <2>5
  <2>7. Factorize(ctx, moment) = at[n].factors
    <3>1. ~(Len(moment.word) <= 1)
      BY <1>1, <1>4, <2>s
    <3>2. Factorize(ctx, moment) = (CHOOSE a : a = [k \in 0..Len(seq) |-> IF k = 0 THEN base ELSE Op(a[k - 1], seq[k])])[Len(seq)].factors
      BY <3>1 DEF Factorize, LeftFold, Op, base, seq
    <3> QED BY <2>s, <3>2
  <2> HIDE DEF at
  <2>8. at[0] \in D[0] /\ \A k \in 1..n : at[k - 1] \in D[k - 1] => at[k] \in D[k]
    <3>1. at[0] = base /\ \A k \in 1..n : at[k] = Op(at[k - 1], k)
      BY <2>6, <2>s
    <3>2. \A k \in 1..n : \A d \in D[k - 1] : Op(d, k) \in D[k]
      BY <2>3
    <3> QED BY <2>1, <3>1, <3>2
  <2>9. at[n] \in D[n]
    <3>1. \A k \in 0..n : at[k] \in D[k]
      BY <2>8, InductionUpTo
    <3> QED BY <3>1
  <2>10. at[n] \in States /\ Good(n, at[n])
    BY <2>9 DEF D
  <2>11. at[n].taken = 1..n
    BY <2>10 DEF Good, States
  <2>12. Subsequence(word, 1..n) = word
    BY <1>1, SubsequenceOfAll
  <2>13. DividesInto(ctx, word, Len(at[n].factors), at[n].factors)
    <3>1. Takes(ctx, word, 1..n, at[n].factors)
      BY <2>10, <2>11 DEF Good
    <3> QED BY <3>1, AllTaken
  <2> QED BY <1>4, <2>7, <2>10, <2>11, <2>12, <2>13 DEF Good, States, IsFactorization
<1> QED BY <1>3, <1>4

-----------------------------------------------------------------------------
(* Tables: functions on the ids 0 to N - 1.                                *)

LEMMA TableSize ==
  ASSUME NEW N \in Nat, NEW table, DOMAIN table = 0..(N - 1)
  PROVE  NextId(table) = N
<1>1. IsFiniteSet(0..(N - 1)) /\ Cardinality(0..(N - 1)) = N
  BY FS_Interval, 0 \in Int, N - 1 \in Int
<1> QED BY <1>1 DEF NextId

\* A table with one more value.
LEMMA PushedTable ==
  ASSUME NEW S, NEW N \in Nat, NEW table, DOMAIN table = 0..(N - 1), NEW value
  PROVE  /\ Pushed(table, value) = [id \in 0..N |-> IF id = N THEN value ELSE table[id]]
         /\ NextId(Pushed(table, value)) = N + 1
         /\ \A id \in 0..(N - 1) : id # N
<1>1. NextId(table) = N
  BY TableSize
<1>2. (0..(N - 1)) \cup {N} = 0..N
  OBVIOUS
<1>3. Pushed(table, value) = [id \in 0..N |-> IF id = N THEN value ELSE table[id]]
  BY <1>1, <1>2 DEF Pushed, With
<1>4. NextId(Pushed(table, value)) = N + 1
  BY <1>3, TableSize, N + 1 \in Nat, (N + 1) - 1 = N
<1> QED BY <1>3, <1>4

-----------------------------------------------------------------------------
(* Symbols and their lists of factors.                                     *)

\* The moment of a word in one part, which no relabelling simplifies; and zero.
IsCanonical(ctx, moment)  == \E n \in Nat : \E v : moment = Moment(v) /\ Canonical(ctx, n, v)
IsElementary(ctx, moment) == \E n \in Nat : \E v : moment = Moment(v) /\ Canonical(ctx, n, v) /\ Whole(ctx, v)

AreSymbols(ctx, sy, N) ==
  /\ N \in Nat /\ N >= 2 /\ DOMAIN sy = 0..(N - 1) /\ sy = [id \in 0..(N - 1) |-> sy[id]]
  /\ sy[Zero] = ZeroMoment /\ sy[One] = Moment(<<>>)
  /\ \A id \in 0..(N - 1) : id = Zero \/ sy[id] = Product \/ IsCanonical(ctx, sy[id])
  /\ \A id, k \in 0..(N - 1) : sy[id] = sy[k] /\ sy[id] # Product => id = k

Atom(ctx, sy, id) == id = Zero \/ IsElementary(ctx, sy[id])

\* list is the list of factors of symbol id.
IsList(ctx, sy, id, list) ==
  /\ list \in Seq(Nat) /\ list # <<>> /\ InOrder(list)
  /\ \A i \in DOMAIN list : list[i] \in DOMAIN sy /\ Atom(ctx, sy, list[i])
  /\ Atom(ctx, sy, id) \/ Len(list) = 1 => list = <<id>>
  /\ Len(list) > 1 => \A i \in DOMAIN list : list[i] \notin {Zero, One}
  /\ \A v : sy[id] = Moment(v) /\ v # <<>> => DividesInto(ctx, v, Len(list), [i \in 1..Len(list) |-> sy[list[i]]])

\* The factor table for the first m symbols.
AreListed(ctx, sy, en, ix, m) ==
  /\ m \in Nat /\ DOMAIN en = 0..(m - 1)
  /\ \A id \in 0..(m - 1) : /\ en[id] = [canonical |-> en[id].canonical, appearances |-> en[id].appearances]
                            /\ IsList(ctx, sy, id, en[id].canonical)
                            /\ en[id].canonical \in DOMAIN ix
  /\ \A list \in DOMAIN ix : ix[list] \in 0..(m - 1) /\ en[ix[list]].canonical = list

\* The symbols go on those of sy.
Continues(sy, N, new) == \A id \in 0..(N - 1) : new[id] = sy[id]

LEMMA KindsDiffer ==
  /\ \A v : Moment(v) # ZeroMoment /\ Moment(v) # Product /\ Moment(v).kind = "moment" /\ Moment(v).word = v
  /\ Product # ZeroMoment /\ Product.kind = "product" /\ ZeroMoment.kind = "zero"
  /\ \A v, w : Moment(v) = Moment(w) => v = w
BY DEF Moment, Product, ZeroMoment

LEMMA EmptyIsElementary ==
  ASSUME NEW ctx
  PROVE  Canonical(ctx, 0, <<>>) /\ Whole(ctx, <<>>) /\ IsElementary(ctx, Moment(<<>>)) /\ IsCanonical(ctx, Moment(<<>>))
<1>1. DOMAIN <<>> = {} /\ <<>> \in [1..0 -> OperatorsOf(ctx)]
  OBVIOUS
<1>2. Canonical(ctx, 0, <<>>) /\ Whole(ctx, <<>>)
  BY <1>1 DEF Canonical, Reduced, WordsOf, InOrder, Apart, CanBeSimplified, Whole
<1> QED BY <1>2 DEF IsElementary, IsCanonical

LEMMA ElementaryIsCanonical ==
  ASSUME NEW ctx, NEW moment, IsElementary(ctx, moment)
  PROVE  IsCanonical(ctx, moment) /\ moment # ZeroMoment /\ moment # Product
BY KindsDiffer DEF IsElementary, IsCanonical

\* A symbol pushed that the table lacks.
LEMMA PushedSymbols ==
  ASSUME NEW ctx, NEW sy, NEW N, AreSymbols(ctx, sy, N), NEW value,
         value = Product \/ (IsCanonical(ctx, value) /\ \A id \in 0..(N - 1) : sy[id] # value)
  PROVE  /\ AreSymbols(ctx, Pushed(sy, value), N + 1) /\ Continues(sy, N, Pushed(sy, value))
         /\ Pushed(sy, value)[N] = value
<1> DEFINE new == Pushed(sy, value)
<1>1. N \in Nat /\ N >= 2 /\ DOMAIN sy = 0..(N - 1)
  BY DEF AreSymbols
<1>2. new = [id \in 0..N |-> IF id = N THEN value ELSE sy[id]]
  BY <1>1, PushedTable
<1>3. /\ DOMAIN new = 0..N /\ new = [id \in 0..N |-> new[id]] /\ new[N] = value
      /\ \A id \in 0..(N - 1) : new[id] = sy[id]
  BY <1>1, <1>2
<1>4. (N + 1) - 1 = N /\ N + 1 \in Nat /\ N + 1 >= 2 /\ Zero \in 0..(N - 1) /\ One \in 0..(N - 1)
  BY <1>1 DEF Zero, One
<1>5. \A id \in 0..N : id \in 0..(N - 1) \/ id = N
  BY <1>1
<1> HIDE DEF new
<1>6. new[Zero] = ZeroMoment /\ new[One] = Moment(<<>>)
  BY <1>3, <1>4 DEF AreSymbols
<1>7. \A id \in 0..N : id = Zero \/ new[id] = Product \/ IsCanonical(ctx, new[id])
  BY <1>3, <1>5 DEF AreSymbols
<1>8. ASSUME NEW id \in 0..N, NEW k \in 0..N, new[id] = new[k], new[id] # Product PROVE id = k
  BY <1>3, <1>5, <1>8 DEF AreSymbols
<1>9. AreSymbols(ctx, new, N + 1)
  BY <1>3, <1>4, <1>6, <1>7, <1>8 DEF AreSymbols
<1> QED BY <1>3, <1>9 DEF Continues, new

\* Lists stay what they are as symbols are added.
LEMMA ListsStay ==
  ASSUME NEW ctx, NEW sy, NEW N, AreSymbols(ctx, sy, N), NEW new, NEW M, AreSymbols(ctx, new, M), N <= M,
         Continues(sy, N, new), NEW id \in 0..(N - 1), NEW list, IsList(ctx, sy, id, list)
  PROVE  IsList(ctx, new, id, list)
<1>1. N \in Nat /\ M \in Nat /\ DOMAIN sy = 0..(N - 1) /\ DOMAIN new = 0..(M - 1)
  BY DEF AreSymbols
<1>2. \A k \in 0..(N - 1) : k \in 0..(M - 1) /\ (Atom(ctx, new, k) <=> Atom(ctx, sy, k))
  BY <1>1 DEF Atom, Continues
<1>3. [i \in 1..Len(list) |-> new[list[i]]] = [i \in 1..Len(list) |-> sy[list[i]]] /\ new[id] = sy[id]
  <2>1. \A i \in 1..Len(list) : list[i] \in 0..(N - 1)
    BY <1>1 DEF IsList
  <2>2. \A i \in 1..Len(list) : new[list[i]] = sy[list[i]]
    BY <2>1 DEF Continues
  <2> QED BY <2>2 DEF Continues
<1> QED BY <1>1, <1>2, <1>3 DEF IsList

LEMMA ListingStays ==
  ASSUME NEW ctx, NEW sy, NEW N, AreSymbols(ctx, sy, N), NEW new, NEW M, AreSymbols(ctx, new, M), N <= M,
         Continues(sy, N, new), NEW en, NEW ix, NEW m, m <= N, AreListed(ctx, sy, en, ix, m)
  PROVE  AreListed(ctx, new, en, ix, m)
<1>1. \A id \in 0..(m - 1) : id \in 0..(N - 1)
  BY DEF AreListed, AreSymbols
<1>2. \A id \in 0..(m - 1) : IsList(ctx, sy, id, en[id].canonical)
  BY DEF AreListed
<1>3. \A id \in 0..(m - 1) : IsList(ctx, new, id, en[id].canonical)
  BY <1>1, <1>2, ListsStay
<1> QED BY <1>3 DEF AreListed

-----------------------------------------------------------------------------
(* check_for_new_factors.                                                  *)

State(sy, en, ix, found) == [symbols |-> sy, entries |-> en, index |-> ix, found |-> found]

\* What is added is elementary.
Completes(ctx, sy, N, new, M) ==
  AreSymbols(ctx, new, M) /\ N <= M /\ Continues(sy, N, new) /\ \A k \in N..(M - 1) : Atom(ctx, new, k)

IsFactorSymbol(ctx, f) == f = ZeroMoment \/ IsElementary(ctx, f)

LEMMA CompletesItself ==
  ASSUME NEW ctx, NEW sy, NEW N, AreSymbols(ctx, sy, N)
  PROVE  Completes(ctx, sy, N, sy, N)
<1>1. N \in Nat
  BY DEF AreSymbols
<1> QED BY <1>1 DEF Completes, Continues

LEMMA CompletesOn ==
  ASSUME NEW ctx, NEW sy, NEW N, AreSymbols(ctx, sy, N), NEW mid, NEW M, Completes(ctx, sy, N, mid, M),
         NEW new, NEW L, Completes(ctx, mid, M, new, L)
  PROVE  Completes(ctx, sy, N, new, L)
<1>1. N \in Nat /\ M \in Nat /\ L \in Nat /\ N <= M /\ M <= L
  BY DEF AreSymbols, Completes
<1>2. \A k \in 0..(N - 1) : k \in 0..(M - 1) /\ new[k] = sy[k]
  BY <1>1 DEF Completes, Continues
<1>3. \A k \in N..(L - 1) : Atom(ctx, new, k)
  <2> TAKE k \in N..(L - 1)
  <2>1. CASE k \in N..(M - 1)
    <3>1. Atom(ctx, mid, k) /\ k \in 0..(M - 1)
      BY <1>1, <2>1 DEF Completes
    <3>2. new[k] = mid[k]
      BY <3>1 DEF Completes, Continues
    <3> QED BY <3>1, <3>2 DEF Atom
  <2>2. CASE k \in M..(L - 1)
    BY <2>2 DEF Completes
  <2> QED BY <1>1, <2>1, <2>2
<1> QED BY <1>1, <1>2, <1>3 DEF Completes, Continues

Found(ctx, sy, N, u, en, ix, found, f) ==
  \E new, M, id : /\ u = State(new, en, ix, Append(found, id)) /\ Completes(ctx, sy, N, new, M)
                  /\ id \in 0..(M - 1) /\ new[id] = f

LEMMA LookedUp ==
  ASSUME NEW ctx, NEW sy, NEW N, AreSymbols(ctx, sy, N), NEW en, NEW ix, NEW found, NEW f, IsFactorSymbol(ctx, f)
  PROVE  Found(ctx, sy, N, LookUpFactor(State(sy, en, ix, found), f), en, ix, found, f)
<1> DEFINE t     == State(sy, en, ix, found)
           known == {id \in DOMAIN t.symbols : t.symbols[id] = f}
           id    == IF known = {} THEN NextId(t.symbols) ELSE CHOOSE k \in known : TRUE
           new   == IF known = {} THEN Pushed(t.symbols, f) ELSE t.symbols
<1>0. t.symbols = sy /\ t.found = found /\ t.entries = en /\ t.index = ix
  BY DEF State
<1>1. LookUpFactor(t, f) = State(new, en, ix, Append(found, id))
  <2>1. LookUpFactor(t, f) = [t EXCEPT !.symbols = new, !.found = Append(@, id)]
    BY DEF LookUpFactor
  <2> HIDE DEF new, id
  <2> QED BY <2>1 DEF State
<1> HIDE DEF t
<1>2. N \in Nat /\ DOMAIN sy = 0..(N - 1) /\ sy[Zero] = ZeroMoment /\ Zero \in 0..(N - 1)
  BY DEF AreSymbols, Zero
<1>3. CASE known # {}
  <2>1. id \in known /\ new = sy
    BY <1>0, <1>3
  <2>2. id \in 0..(N - 1) /\ sy[id] = f
    <3> HIDE DEF id, new
    <3> QED BY <1>0, <1>2, <2>1
  <2> HIDE DEF id, new
  <2> QED BY <1>1, <2>1, <2>2, CompletesItself DEF Found, t
<1>4. CASE known = {}
  <2>1. f # ZeroMoment
    BY <1>0, <1>2, <1>4
  <2>2. IsElementary(ctx, f) /\ IsCanonical(ctx, f)
    BY <2>1, ElementaryIsCanonical DEF IsFactorSymbol
  <2>3. new = Pushed(sy, f) /\ id = N
    BY <1>0, <1>2, <1>4, TableSize
  <2>4. \A k \in 0..(N - 1) : sy[k] # f
    BY <1>0, <1>2, <1>4
  <2> HIDE DEF id, new, known
  <2>5. AreSymbols(ctx, new, N + 1) /\ Continues(sy, N, new) /\ new[N] = f
    BY <2>2, <2>3, <2>4, PushedSymbols
  <2>6. \A k \in N..((N + 1) - 1) : k = N
    BY <1>2
  <2>7. Completes(ctx, sy, N, new, N + 1)
    BY <1>2, <2>2, <2>5, <2>6 DEF Completes, Atom
  <2>8. id \in 0..((N + 1) - 1) /\ new[id] = f
    BY <1>2, <2>3, <2>5
  <2> QED BY <1>1, <2>7, <2>8 DEF Found, t
<1> QED BY <1>3, <1>4

\* The steps of a loop of look-ups.
AreLookUps(base, seq, at) ==
  /\ LeftFold(LookUpFactor, base, seq) = at[Len(seq)] /\ at[0] = base
  /\ \A k \in 1..Len(seq) : at[k] = LookUpFactor(at[k - 1], seq[k])

LEMMA LookUpsRun ==
  ASSUME NEW base, NEW seq, Len(seq) \in Nat
  PROVE  \E at : AreLookUps(base, seq, at)
<1> DEFINE n == Len(seq)
           Run(m, a) == a = [k \in 0..m |-> IF k = 0 THEN base ELSE LookUpFactor(a[k - 1], seq[k])]
           S == {m \in Nat : \E a : Run(m, a)}
           at == CHOOSE a : Run(n, a)
<1>1. 0 \in S
  <2> DEFINE a == [k \in 0..0 |-> base]
  <2>1. Run(0, a)
    OBVIOUS
  <2> HIDE DEF Run
  <2> QED BY <2>1
<1>2. ASSUME NEW m \in S PROVE m + 1 \in S
  <2>1. PICK a : Run(m, a)
    OBVIOUS
  <2> DEFINE b == [k \in 0..(m + 1) |-> IF k <= m THEN a[k] ELSE LookUpFactor(a[m], seq[m + 1])]
  <2>2. \A k \in 0..m : b[k] = a[k]
    OBVIOUS
  <2>3. b[m + 1] = LookUpFactor(b[m], seq[m + 1]) /\ b[0] = base
    BY <2>1, <2>2
  <2>4. ASSUME NEW k \in 0..(m + 1)
        PROVE  b[k] = IF k = 0 THEN base ELSE LookUpFactor(b[k - 1], seq[k])
    <3>1. CASE k = m + 1
      BY <3>1, <2>3, (m + 1) - 1 = m
    <3>2. CASE k \in 0..m
      <4>1. k = 0 \/ k - 1 \in 0..m
        BY <3>2
      <4> HIDE DEF b
      <4> QED BY <3>2, <4>1, <2>1, <2>2
    <3> QED BY <3>1, <3>2
  <2>5. b = [k \in 0..(m + 1) |-> b[k]]
    OBVIOUS
  <2> HIDE DEF b
  <2>6. Run(m + 1, b)
    BY <2>4, <2>5
  <2> HIDE DEF Run
  <2> QED BY <2>6
<1>3. S = Nat
  <2> HIDE DEF S
  <2>1. S \in SUBSET Nat
    BY DEF S
  <2> QED BY <1>1, <1>2, <2>1, Induction
<1>4. Run(n, at)
  <2> HIDE DEF Run
  <2>1. n \in S
    BY <1>3
  <2> QED BY <2>1
<1>5. LeftFold(LookUpFactor, base, seq) = at[Len(seq)]
  BY DEF LeftFold
<1> HIDE DEF at
<1>6. at[0] = base /\ \A k \in 1..n : at[k] = LookUpFactor(at[k - 1], seq[k])
  BY <1>4
<1> QED BY <1>5, <1>6 DEF AreLookUps

\* The first k of fs are looked up in turn.
AreFound(new, M, found, fs, k) ==
  /\ found \in Seq(Nat) /\ Len(found) = k
  /\ \A i \in 1..k : found[i] \in 0..(M - 1) /\ new[found[i]] = fs[i]
AllFound(ctx, sy, N, u, en, ix, fs, k) ==
  \E new, M, found : u = State(new, en, ix, found) /\ Completes(ctx, sy, N, new, M) /\ AreFound(new, M, found, fs, k)

LEMMA OneMoreFound ==
  ASSUME NEW ctx, NEW sy, NEW N, AreSymbols(ctx, sy, N), NEW u, NEW en, NEW ix, NEW fs, NEW k \in Nat,
         AllFound(ctx, sy, N, u, en, ix, fs, k), IsFactorSymbol(ctx, fs[k + 1])
  PROVE  AllFound(ctx, sy, N, LookUpFactor(u, fs[k + 1]), en, ix, fs, k + 1)
<1>1. PICK mid, M, found : /\ u = State(mid, en, ix, found) /\ Completes(ctx, sy, N, mid, M)
                           /\ found \in Seq(Nat) /\ Len(found) = k
                           /\ \A i \in 1..k : found[i] \in 0..(M - 1) /\ mid[found[i]] = fs[i]
  BY DEF AllFound, AreFound
<1>2. AreSymbols(ctx, mid, M)
  BY <1>1 DEF Completes
<1>3. Found(ctx, mid, M, LookUpFactor(u, fs[k + 1]), en, ix, found, fs[k + 1])
  BY <1>1, <1>2, LookedUp
<1>4. PICK new, L, id : /\ LookUpFactor(u, fs[k + 1]) = State(new, en, ix, Append(found, id))
                        /\ Completes(ctx, mid, M, new, L) /\ id \in 0..(L - 1) /\ new[id] = fs[k + 1]
  BY <1>3 DEF Found
<1>5. Completes(ctx, sy, N, new, L)
  BY <1>1, <1>4, CompletesOn
<1>6. M \in Nat /\ L \in Nat /\ M <= L /\ \A j \in 0..(M - 1) : new[j] = mid[j]
  <2>1. M \in Nat /\ AreSymbols(ctx, new, L)
    BY <1>2, <1>4 DEF AreSymbols, Completes
  <2> QED BY <1>4, <2>1 DEF Completes, AreSymbols, Continues
<1> DEFINE more == Append(found, id)
<1>7. /\ more \in Seq(Nat) /\ Len(more) = k + 1 /\ more[k + 1] = id
      /\ \A i \in 1..k : more[i] = found[i]
  BY <1>1, <1>4
<1> HIDE DEF more
<1>8. ASSUME NEW i \in 1..(k + 1) PROVE more[i] \in 0..(L - 1) /\ new[more[i]] = fs[i]
  <2>1. CASE i = k + 1
    BY <1>4, <1>7, <2>1
  <2>2. CASE i \in 1..k
    <3>1. more[i] = found[i] /\ found[i] \in 0..(M - 1) /\ mid[found[i]] = fs[i]
      BY <1>1, <1>7, <2>2
    <3> QED BY <3>1, <1>6
  <2> QED BY <2>1, <2>2
<1>9. LookUpFactor(u, fs[k + 1]) = State(new, en, ix, more)
  BY <1>4 DEF more
<1>10. AreFound(new, L, more, fs, k + 1)
  BY <1>7, <1>8 DEF AreFound
<1> QED BY <1>5, <1>9, <1>10 DEF AllFound

LEMMA FactorsFound ==
  ASSUME NEW ctx, NEW sy, NEW N, AreSymbols(ctx, sy, N), NEW en, NEW ix, NEW fs, Len(fs) \in Nat,
         \A i \in 1..Len(fs) : IsFactorSymbol(ctx, fs[i])
  PROVE  AllFound(ctx, sy, N, LeftFold(LookUpFactor, State(sy, en, ix, <<>>), fs), en, ix, fs, Len(fs))
<1>1. PICK at : AreLookUps(State(sy, en, ix, <<>>), fs, at)
  BY LookUpsRun
<1>s. /\ LeftFold(LookUpFactor, State(sy, en, ix, <<>>), fs) = at[Len(fs)]
      /\ at[0] = State(sy, en, ix, <<>>)
      /\ \A k \in 1..Len(fs) : at[k] = LookUpFactor(at[k - 1], fs[k])
  BY <1>1 DEF AreLookUps
<1> DEFINE S == {k \in Nat : k <= Len(fs) => AllFound(ctx, sy, N, at[k], en, ix, fs, k)}
<1>2. 0 \in S
  <2>1. <<>> \in Seq(Nat) /\ Len(<<>>) = 0
    OBVIOUS
  <2>2. AllFound(ctx, sy, N, at[0], en, ix, fs, 0)
    <3>1. Completes(ctx, sy, N, sy, N)
      BY CompletesItself
    <3>2. \A i \in 1..0 : FALSE
      OBVIOUS
    <3> QED BY <1>s, <2>1, <3>1, <3>2 DEF AllFound, AreFound
  <2> QED BY <2>2
<1>3. ASSUME NEW k \in S PROVE k + 1 \in S
  <2> SUFFICES ASSUME k + 1 <= Len(fs) PROVE AllFound(ctx, sy, N, at[k + 1], en, ix, fs, k + 1)
    OBVIOUS
  <2>1. k + 1 \in 1..Len(fs) /\ (k + 1) - 1 = k /\ k \in Nat
    OBVIOUS
  <2>2. AllFound(ctx, sy, N, at[k], en, ix, fs, k)
    OBVIOUS
  <2>3. at[k + 1] = LookUpFactor(at[k], fs[k + 1]) /\ IsFactorSymbol(ctx, fs[k + 1])
    BY <1>s, <2>1
  <2> QED BY <2>1, <2>2, <2>3, OneMoreFound
<1> HIDE DEF S
<1>4. S = Nat
  <2>1. S \in SUBSET Nat
    BY DEF S
  <2> QED BY <1>2, <1>3, <2>1, Induction
<1>5. AllFound(ctx, sy, N, at[Len(fs)], en, ix, fs, Len(fs))
  BY <1>4 DEF S
<1> QED BY <1>s, <1>5

-----------------------------------------------------------------------------
(* The canonical factors of a symbol.                                      *)

LEMMA CanonicalMomentStays ==
  ASSUME NEW ctx, IsContext(ctx), NEW n \in Nat, NEW v, Canonical(ctx, n, v)
  PROVE  CanonicalMoment(ctx, Moment(v)) = Moment(v)
<1>1. v \in Seq(OperatorsOf(ctx)) /\ ~CanBeSimplified(ctx, v)
  BY WordsAreLists DEF Canonical, Reduced
<1>2. SimplifyAsMoment(ctx, v) = v
  BY <1>1, SimplestOf
<1> QED BY <1>2, KindsDiffer DEF CanonicalMoment

\* The moment of any word is canonical.
LEMMA CanonicalMomentIs ==
  ASSUME NEW ctx, IsContext(ctx), NEW n \in Nat, NEW v, Reduced(ctx, n, v)
  PROVE  /\ CanonicalMoment(ctx, Moment(v)) = Moment(SimplifyAsMoment(ctx, v))
         /\ CanonicalFormOf(ctx, n, v, SimplifyAsMoment(ctx, v))
<1>1. CanonicalMoment(ctx, Moment(v)) = Moment(SimplifyAsMoment(ctx, v))
  BY KindsDiffer DEF CanonicalMoment, Moment
<1> QED BY <1>1, MomentsAreCanonical

\* The canonical factors fs of a symbol.
IsFactoring(ctx, symbol, fs) ==
  /\ Len(fs) \in Nat \ {0} /\ DOMAIN fs = 1..Len(fs)
  /\ \A i \in 1..Len(fs) : IsFactorSymbol(ctx, fs[i])
  /\ Len(fs) = 1 \/ symbol = ZeroMoment \/ IsElementary(ctx, symbol) => Len(fs) = 1 /\ fs[1] = symbol
  /\ Len(fs) > 1 => \A i \in 1..Len(fs) : fs[i] \notin {ZeroMoment, Moment(<<>>)}
  /\ \A v : symbol = Moment(v) /\ v # <<>> => DividesInto(ctx, v, Len(fs), fs)

LEMMA FactorsOfZero ==
  IsFactoring(Context, ZeroMoment, CanonicalFactors(ZeroMoment))
<1> DEFINE raw == Factorize(Context, ZeroMoment)
           fs  == CanonicalFactors(ZeroMoment)
<1>1. raw = <<ZeroMoment>>
  BY DEF Factorize, ZeroMoment
<1>2. fs = [i \in DOMAIN raw |-> CanonicalMoment(Context, raw[i])]
  BY DEF CanonicalFactors
<1>3. DOMAIN raw = 1..1 /\ raw[1] = ZeroMoment
  <2> HIDE DEF raw
  <2> QED BY <1>1
<1>4. CanonicalMoment(Context, ZeroMoment) = ZeroMoment
  BY KindsDiffer DEF CanonicalMoment
<1> HIDE DEF raw, fs
<1>5. fs = [i \in 1..1 |-> ZeroMoment]
  BY <1>2, <1>3, <1>4
<1>6. Len(fs) = 1 /\ DOMAIN fs = 1..1 /\ fs[1] = ZeroMoment
  BY <1>5
<1> QED BY <1>6, KindsDiffer DEF IsFactoring, IsFactorSymbol, fs

LEMMA FactorsOfMoment ==
  ASSUME NEW ctx, ctx = Context, IsContext(ctx), NEW n \in Nat, NEW v, Canonical(ctx, n, v)
  PROVE  IsFactoring(ctx, Moment(v), CanonicalFactors(Moment(v)))
<1> DEFINE raw == Factorize(ctx, Moment(v))
           fs  == CanonicalFactors(Moment(v))
<1>1. IsFactorization(ctx, n, v, raw)
  BY FactorizedIntoFactors DEF Canonical
<1>2. fs = [i \in DOMAIN raw |-> CanonicalMoment(ctx, raw[i])]
  BY DEF CanonicalFactors
<1> HIDE DEF raw, fs
<1>3. /\ raw \in Seq(Moments(ctx)) /\ Len(raw) \in Nat \ {0} /\ DOMAIN raw = 1..Len(raw)
      /\ n # 0 => DividesInto(ctx, v, Len(raw), raw) /\ \A i \in 1..Len(raw) : IsFactor(ctx, raw[i])
      /\ Len(raw) = 1 \/ Whole(ctx, v) => raw = <<Moment(v)>>
  BY <1>1 DEF IsFactorization
<1>4. Len(fs) = Len(raw) /\ DOMAIN fs = 1..Len(raw) /\ \A i \in 1..Len(raw) : fs[i] = CanonicalMoment(ctx, raw[i])
  <2>1. fs = [i \in 1..Len(raw) |-> CanonicalMoment(ctx, raw[i])]
    BY <1>2, <1>3
  <2> QED BY <1>3, <2>1
<1>5. ASSUME NEW f, IsFactor(ctx, f)
      PROVE  /\ IsElementary(ctx, CanonicalMoment(ctx, f))
             /\ CanonicalMoment(ctx, f) \notin {ZeroMoment, Moment(<<>>)}
             /\ \A u : f = Moment(u) => \E x : CanonicalMoment(ctx, f) = Moment(x) /\ Similar(ctx, u, x)
  <2>0. PICK m \in Nat \ {0} : \E w : f = Moment(w) /\ Reduced(ctx, m, w) /\ Whole(ctx, w)
    BY <1>5 DEF IsFactor
  <2>1. PICK w : f = Moment(w) /\ Reduced(ctx, m, w) /\ Whole(ctx, w)
    BY <2>0
  <2> DEFINE x == SimplifyAsMoment(ctx, w)
  <2>2. CanonicalMoment(ctx, f) = Moment(x) /\ CanonicalFormOf(ctx, m, w, x)
    BY <2>1, CanonicalMomentIs
  <2> HIDE DEF x
  <2>3. Canonical(ctx, m, x) /\ Whole(ctx, x) /\ Similar(ctx, w, x)
    BY <2>1, <2>2 DEF CanonicalFormOf, Similar
  <2>4. x # <<>>
    <3>1. x \in [1..m -> OperatorsOf(ctx)]
      BY <2>3 DEF Canonical, Reduced, WordsOf
    <3> QED BY <3>1, <2>1
  <2>5. IsElementary(ctx, CanonicalMoment(ctx, f)) /\ CanonicalMoment(ctx, f) \notin {ZeroMoment, Moment(<<>>)}
    BY <2>2, <2>3, <2>4, KindsDiffer DEF IsElementary
  <2>6. \A u : f = Moment(u) => u = w
    BY <2>1, KindsDiffer
  <2> QED BY <2>2, <2>3, <2>5, <2>6
<1>6. v \in [1..n -> OperatorsOf(ctx)]
  BY DEF Canonical, Reduced, WordsOf
<1>10. \A w : Moment(v) = Moment(w) /\ w # <<>> => DividesInto(ctx, w, Len(fs), fs)
  <2> SUFFICES ASSUME v # <<>> PROVE DividesInto(ctx, v, Len(fs), fs)
    BY KindsDiffer
  <2>1. n # 0
    BY <1>6
  <2> DEFINE id == [i \in 1..Len(raw) |-> i]
  <2>2. id \in Bijection(1..Len(raw), 1..Len(raw)) /\ \A i \in 1..Len(raw) : id[i] = i
    BY Identity
  <2> HIDE DEF id
  <2>3. \A i \in 1..Len(raw) : \A u : raw[id[i]] = Moment(u) => \E x : fs[i] = Moment(x) /\ Similar(ctx, u, x)
    BY <1>3, <1>4, <1>5, <2>1, <2>2
  <2>5. RelabelsAll(ctx, Len(raw), raw, fs, id)
    BY <2>2, <2>3 DEF RelabelsAll
  <2>4. DividesInto(ctx, v, Len(raw), fs)
    BY <1>3, <2>1, <2>5, DivisionRelabelled
  <2> QED BY <1>4, <2>4
<1>7. IsElementary(ctx, Moment(v)) => Whole(ctx, v)
  BY KindsDiffer DEF IsElementary
<1>8. CASE Len(raw) = 1 \/ Whole(ctx, v)
  <2>1. raw = <<Moment(v)>> /\ Len(raw) = 1 /\ raw[1] = Moment(v)
    BY <1>3, <1>8
  <2>2. fs[1] = Moment(v) /\ Len(fs) = 1
    BY <1>4, <2>1, CanonicalMomentStays
  <2>3. IsElementary(ctx, Moment(v))
    <3>1. CASE n = 0
      <4>1. v = <<>>
        BY <1>6, <3>1
      <4> QED BY <4>1, EmptyIsElementary
    <3>2. CASE n # 0
      <4>1. IsFactor(ctx, raw[1])
        BY <1>3, <2>1, <3>2
      <4> QED BY <1>4, <1>5, <2>1, <2>2, <4>1
    <3> QED BY <3>1, <3>2
  <2> QED BY <1>4, <1>10, <2>1, <2>2, <2>3 DEF IsFactoring, IsFactorSymbol, fs
<1>9. CASE Len(raw) # 1 /\ ~Whole(ctx, v)
  <2>1. n # 0
    <3> SUFFICES ASSUME n = 0 PROVE FALSE
      OBVIOUS
    <3>1. v = <<>>
      BY <1>6
    <3> QED BY <1>9, <3>1, EmptyIsElementary
  <2>2. \A i \in 1..Len(fs) : IsElementary(ctx, fs[i]) /\ fs[i] \notin {ZeroMoment, Moment(<<>>)}
    BY <1>3, <1>4, <1>5, <2>1
  <2>3. Moment(v) # ZeroMoment
    BY KindsDiffer
  <2> QED BY <1>3, <1>4, <1>7, <1>9, <1>10, <2>2, <2>3 DEF IsFactoring, IsFactorSymbol, fs
<1> QED BY <1>8, <1>9


-----------------------------------------------------------------------------
(* Entries.                                                                *)

LEMMA WithOne ==
  ASSUME NEW f, NEW x, NEW value
  PROVE  /\ DOMAIN With(f, x, value) = DOMAIN f \cup {x} /\ With(f, x, value)[x] = value
         /\ \A y \in DOMAIN f : y # x => With(f, x, value)[y] = f[y]
BY DEF With

\* An entry for the next symbol.
LEMMA OneMoreListed ==
  ASSUME NEW ctx, NEW sy, NEW N, AreSymbols(ctx, sy, N), NEW en, NEW ix, NEW m, AreListed(ctx, sy, en, ix, m),
         NEW list, IsList(ctx, sy, m, list)
  PROVE  NextId(en) = m /\ AreListed(ctx, sy, Pushed(en, Entry(list)), With(ix, list, m), m + 1)
<1> DEFINE more == Pushed(en, Entry(list))
           find == With(ix, list, m)
<1>1. m \in Nat /\ DOMAIN en = 0..(m - 1) /\ m + 1 \in Nat /\ (m + 1) - 1 = m
  BY DEF AreListed
<1>2. NextId(en) = m /\ more = [id \in 0..m |-> IF id = m THEN Entry(list) ELSE en[id]]
  BY <1>1, TableSize, PushedTable
<1>3. /\ DOMAIN more = 0..m /\ more[m] = Entry(list) /\ \A id \in 0..(m - 1) : more[id] = en[id]
      /\ \A id \in 0..m : id = m \/ id \in 0..(m - 1)
      /\ \A id \in 0..(m - 1) : id \in 0..m
  BY <1>1, <1>2
<1>4. /\ DOMAIN find = DOMAIN ix \cup {list} /\ find[list] = m
      /\ \A l \in DOMAIN ix : l # list => find[l] = ix[l]
  <2> HIDE DEF more
  <2> QED BY DEF With
<1> HIDE DEF more, find
<1>5. Entry(list) = [canonical |-> list, appearances |-> 0] /\ Entry(list).canonical = list
  BY DEF Entry
<1>6. ASSUME NEW id \in 0..m
      PROVE  /\ more[id] = [canonical |-> more[id].canonical, appearances |-> more[id].appearances]
             /\ IsList(ctx, sy, id, more[id].canonical) /\ more[id].canonical \in DOMAIN find
  <2>1. CASE id = m
    BY <1>3, <1>4, <1>5, <2>1
  <2>2. CASE id \in 0..(m - 1)
    BY <1>3, <1>4, <2>2 DEF AreListed
  <2> QED BY <1>3, <2>1, <2>2
<1>7. ASSUME NEW l \in DOMAIN find PROVE find[l] \in 0..m /\ more[find[l]].canonical = l
  <2>1. CASE l = list
    BY <1>1, <1>3, <1>4, <1>5, <2>1
  <2>2. CASE l # list
    <3>1. l \in DOMAIN ix /\ find[l] = ix[l]
      BY <1>4, <2>2
    <3>2. ix[l] \in 0..(m - 1) /\ en[ix[l]].canonical = l
      BY <3>1 DEF AreListed
    <3> QED BY <1>3, <3>1, <3>2
  <2> QED BY <2>1, <2>2
<1>8. AreListed(ctx, sy, more, find, m + 1)
  BY <1>1, <1>3, <1>6, <1>7 DEF AreListed
<1> QED BY <1>2, <1>8 DEF more, find

LEMMA AddedEntry ==
  ASSUME NEW sy, NEW en, NEW ix, NEW found, NEW list
  PROVE  AddEntry(State(sy, en, ix, found), list)
           = State(sy, Pushed(en, Entry(list)), With(ix, list, NextId(en)), found)
<1> DEFINE t == State(sy, en, ix, found)
           e == Entry(list)
           p == Pushed(t.entries, e)
           q == With(t.index, list, NextId(t.entries))
<1>1. t.symbols = sy /\ t.entries = en /\ t.index = ix /\ t.found = found
  BY DEF State
<1>2. AddEntry(t, list) = [t EXCEPT !.entries = Pushed(@, e), !.index = With(@, list, NextId(t.entries))]
  BY DEF AddEntry
<1>3. [t EXCEPT !.entries = p, !.index = q] = State(sy, p, q, found)
  <2>1. ASSUME NEW x, NEW y PROVE [t EXCEPT !.entries = x, !.index = y] = State(sy, x, y, found)
    <3>1. [t EXCEPT !.entries = x] = State(sy, x, ix, found)
      BY DEF State
    <3>2. [State(sy, x, ix, found) EXCEPT !.index = y] = State(sy, x, y, found)
      BY DEF State
    <3>3. [t EXCEPT !.entries = x, !.index = y] = [[t EXCEPT !.entries = x] EXCEPT !.index = y]
      OBVIOUS
    <3> HIDE DEF t
    <3> QED BY <3>1, <3>2, <3>3
  <2> QED BY <2>1
<1>4. p = Pushed(en, e) /\ q = With(ix, list, NextId(en))
  BY <1>1
<1> QED BY <1>2, <1>3, <1>4

\* The first m symbols have their entries; the symbols are completed.
ListedUpTo(ctx, sy, N, u, m) ==
  \E new, M, en, ix, found : /\ u = State(new, en, ix, found) /\ Completes(ctx, sy, N, new, M)
                             /\ AreListed(ctx, new, en, ix, m)

\* The ids of the factors of a symbol, sorted.
LEMMA SortedIdsAreList ==
  ASSUME NEW ctx, IsContext(ctx), NEW sy, NEW M, AreSymbols(ctx, sy, M), NEW id \in 0..(M - 1), sy[id] # Product,
         NEW fs, IsFactoring(ctx, sy[id], fs), NEW found, AreFound(sy, M, found, fs, Len(fs))
  PROVE  IsList(ctx, sy, id, Sorted(found))
<1> DEFINE n    == Len(fs)
           list == Sorted(found)
<1>1. n \in Nat \ {0} /\ M \in Nat /\ DOMAIN sy = 0..(M - 1) /\ Zero \in 0..(M - 1) /\ One \in 0..(M - 1)
  BY DEF IsFactoring, AreSymbols, Zero, One
<1> HIDE DEF n
<1>2. /\ found \in [1..n -> Nat] /\ found \in [1..n -> Int]
      /\ \A i \in 1..n : found[i] \in 0..(M - 1) /\ sy[found[i]] = fs[i]
  BY DEF AreFound, n
<1>3. PICK at : Sorts(n, found, at)
  BY <1>1, <1>2, SortedList
<1>4. InOrder(list)
  BY <1>1, <1>2, SortedList
<1>5. list = [k \in 1..n |-> found[at[k]]] /\ \A k \in 1..n : at[k] \in 1..n
  BY <1>3 DEF Sorts, Bijection, Injection
<1> HIDE DEF list
<1>6. list \in [1..n -> Nat] /\ DOMAIN list = 1..n /\ \A k \in 1..n : list[k] \in 0..(M - 1) /\ sy[list[k]] = fs[at[k]]
  BY <1>2, <1>5
<1>7. list \in Seq(Nat) /\ Len(list) = n /\ list # <<>>
  <2>1. list \in Seq(Nat)
    BY <1>1, <1>6
  <2>2. Len(list) = n
    BY <1>1, <1>6, <2>1
  <2>3. Len(<<>>) = 0
    OBVIOUS
  <2> QED BY <1>1, <2>1, <2>2, <2>3
<1>8. sy[Zero] = ZeroMoment /\ sy[One] = Moment(<<>>)
      /\ \A j, k \in 0..(M - 1) : sy[j] = sy[k] /\ sy[j] # Product => j = k
  BY DEF AreSymbols
<1>9. ASSUME NEW k \in 1..n PROVE Atom(ctx, sy, list[k])
  <2>1. IsFactorSymbol(ctx, fs[at[k]])
    BY <1>5 DEF IsFactoring, n
  <2>2. CASE sy[list[k]] = ZeroMoment
    BY <1>1, <1>6, <1>8, <2>2, KindsDiffer DEF Atom
  <2>3. CASE IsElementary(ctx, sy[list[k]])
    BY <2>3 DEF Atom
  <2> QED BY <1>6, <2>1, <2>2, <2>3 DEF IsFactorSymbol
<1>10. ASSUME Atom(ctx, sy, id) \/ n = 1 PROVE list = <<id>>
  <2>1. n = 1 /\ fs[1] = sy[id]
    BY <1>8, <1>10 DEF IsFactoring, n, Atom
  <2>2. at[1] = 1 /\ list[1] \in 0..(M - 1) /\ sy[list[1]] = fs[1]
    BY <1>5, <1>6, <2>1
  <2>3. list[1] = id
    BY <1>8, <2>1, <2>2
  <2>4. DOMAIN <<id>> = 1..1 /\ <<id>>[1] = id
    OBVIOUS
  <2> QED BY <1>7, <2>1, <2>3
<1>11. ASSUME n > 1, NEW k \in 1..n PROVE list[k] \notin {Zero, One}
  <2>1. fs[at[k]] \notin {ZeroMoment, Moment(<<>>)}
    BY <1>5, <1>11 DEF IsFactoring, n
  <2> QED BY <1>6, <1>8, <2>1
<1>13. ASSUME NEW v, sy[id] = Moment(v), v # <<>>
       PROVE  DividesInto(ctx, v, Len(list), [i \in 1..Len(list) |-> sy[list[i]]])
  <2> DEFINE new == [i \in 1..n |-> sy[list[i]]]
  <2>1. DividesInto(ctx, v, n, fs)
    BY <1>13 DEF IsFactoring, n
  <2>2. at \in Bijection(1..n, 1..n)
    BY <1>3 DEF Sorts
  <2>3. \A i \in 1..n : new[i] = fs[at[i]]
    BY <1>6
  <2> HIDE DEF new
  <2>4. ASSUME NEW i \in 1..n, NEW u, fs[at[i]] = Moment(u) PROVE \E w : new[i] = Moment(w) /\ Similar(ctx, u, w)
    <3>1. at[i] \in 1..n
      BY <1>5
    <3>2. PICK part : IsDivision(ctx, v, n, fs, part)
      BY <2>1 DEF DividesInto
    <3>3. PICK w : fs[at[i]] = Moment(w) /\ Similar(ctx, Subsequence(v, part[at[i]]), w)
      BY <3>1, <3>2 DEF IsDivision
    <3>4. u = w
      BY <2>4, <3>3, KindsDiffer
    <3>5. PICK m \in Nat : u \in WordsOf(ctx, m)
      BY <3>3, <3>4 DEF Similar, Alike
    <3>6. Similar(ctx, u, u)
      BY <3>5, AlikeItself DEF Similar
    <3> QED BY <2>3, <2>4, <3>6
  <2>6. RelabelsAll(ctx, n, fs, new, at)
    BY <2>2, <2>4 DEF RelabelsAll
  <2>5. DividesInto(ctx, v, n, new)
    BY <2>1, <2>6, DivisionRelabelled
  <2> QED BY <1>7, <2>5 DEF new
<1>12. IsList(ctx, sy, id, list)
  BY <1>1, <1>4, <1>6, <1>7, <1>9, <1>10, <1>11, <1>13 DEF IsList
<1> QED BY <1>12 DEF list

LEMMA SymbolListed ==
  ASSUME NEW ctx, ctx = Context, IsContext(ctx), NEW sy, NEW N, AreSymbols(ctx, sy, N),
         NEW en, NEW ix, NEW m, AreListed(ctx, sy, en, ix, m), m < N, sy[m] # Product, NEW found
  PROVE  ListedUpTo(ctx, sy, N, EntryForSymbol(State(sy, en, ix, found), m), m + 1)
<1> DEFINE t  == State(sy, en, ix, found)
           fs == CanonicalFactors(sy[m])
<1>1. /\ m \in Nat /\ N \in Nat /\ m \in 0..(N - 1)
      /\ t.symbols = sy /\ [t EXCEPT !.found = <<>>] = State(sy, en, ix, <<>>)
  <2>1. m \in Nat /\ N \in Nat
    BY DEF AreListed, AreSymbols
  <2>2. t.symbols = sy /\ [t EXCEPT !.found = <<>>] = State(sy, en, ix, <<>>)
    BY DEF State
  <2> QED BY <2>1, <2>2
<1>2. IsFactoring(ctx, sy[m], fs)
  <2>1. CASE m = Zero
    BY <2>1, FactorsOfZero DEF AreSymbols
  <2>2. CASE m # Zero
    <3>0. PICK n \in Nat : \E v : sy[m] = Moment(v) /\ Canonical(ctx, n, v)
      BY <1>1, <2>2 DEF AreSymbols, IsCanonical
    <3>1. PICK v : sy[m] = Moment(v) /\ Canonical(ctx, n, v)
      BY <3>0
    <3> QED BY <3>1, FactorsOfMoment
  <2> QED BY <2>1, <2>2
<1> HIDE DEF fs
<1> DEFINE looked == LeftFold(LookUpFactor, State(sy, en, ix, <<>>), fs)
<1>3. AllFound(ctx, sy, N, looked, en, ix, fs, Len(fs))
  BY <1>2, FactorsFound DEF IsFactoring
<1>4. EntryForSymbol(t, m) = AddEntry(looked, Sorted(looked.found))
  BY <1>1 DEF EntryForSymbol, fs
<1> HIDE DEF looked, t
<1>5. PICK new, M, ids : /\ looked = State(new, en, ix, ids) /\ Completes(ctx, sy, N, new, M)
                         /\ AreFound(new, M, ids, fs, Len(fs))
  BY <1>3 DEF AllFound
<1>6. AreSymbols(ctx, new, M) /\ N <= M /\ M \in Nat /\ new[m] = sy[m] /\ m \in 0..(M - 1) /\ Continues(sy, N, new)
  <2>1. AreSymbols(ctx, new, M) /\ N <= M /\ Continues(sy, N, new)
    BY <1>5 DEF Completes
  <2>2. M \in Nat
    BY <2>1 DEF AreSymbols
  <2> QED BY <1>1, <2>1, <2>2 DEF Continues
<1> DEFINE list == Sorted(ids)
<1>7. IsList(ctx, new, m, list)
  BY <1>2, <1>5, <1>6, SortedIdsAreList
<1>8. AreListed(ctx, new, en, ix, m)
  BY <1>1, <1>6, m <= N, ListingStays
<1> HIDE DEF list
<1>9. NextId(en) = m /\ AreListed(ctx, new, Pushed(en, Entry(list)), With(ix, list, m), m + 1)
  BY <1>6, <1>7, <1>8, OneMoreListed
<1>10. looked.found = ids
  BY <1>5 DEF State
<1>11. EntryForSymbol(t, m) = State(new, Pushed(en, Entry(list)), With(ix, list, m), ids)
  BY <1>4, <1>5, <1>9, <1>10, AddedEntry DEF list
<1> QED BY <1>5, <1>9, <1>11 DEF ListedUpTo, t

(* Nothing but entries is added for symbols that are factors.              *)
FactorsListedUpTo(ctx, sy, u, m) == \E en, ix, found : u = State(sy, en, ix, found) /\ AreListed(ctx, sy, en, ix, m)

LEMMA FactorListed ==
  ASSUME NEW ctx, IsContext(ctx), NEW sy, NEW N, AreSymbols(ctx, sy, N),
         NEW en, NEW ix, NEW m, AreListed(ctx, sy, en, ix, m), m < N, Atom(ctx, sy, m), NEW found
  PROVE  FactorsListedUpTo(ctx, sy, EntryForFactor(State(sy, en, ix, found), m), m + 1)
<1>1. m \in Nat /\ N \in Nat /\ m \in DOMAIN sy
  BY DEF AreListed, AreSymbols
<1>2. <<m>> \in Seq(Nat) /\ Len(<<m>>) = 1 /\ DOMAIN <<m>> = 1..1 /\ <<m>>[1] = m /\ <<m>> # <<>>
  BY <1>1
<1>6. ASSUME NEW v, sy[m] = Moment(v), v # <<>>
      PROVE  DividesInto(ctx, v, 1, [i \in 1..1 |-> sy[<<m>>[i]]])
  <2> DEFINE ms == [i \in 1..1 |-> sy[<<m>>[i]]]
  <2>1. ms[1] = Moment(v)
    BY <1>2, <1>6
  <2> HIDE DEF ms
  <2>2. IsElementary(ctx, sy[m])
    BY <1>6, KindsDiffer DEF Atom, AreSymbols
  <2>3. PICK n \in Nat : Canonical(ctx, n, v) /\ Whole(ctx, v)
    BY <1>6, <2>2, KindsDiffer DEF IsElementary
  <2>4. v \in WordsOf(ctx, n)
    BY <2>3 DEF Canonical, Reduced
  <2>5. n # 0
    BY <1>6, <2>4 DEF WordsOf
  <2>6. DividesInto(ctx, v, 1, ms)
    BY <2>1, <2>3, <2>4, <2>5, WholeIsOnePart
  <2> QED BY <2>6 DEF ms
<1>3. IsList(ctx, sy, m, <<m>>)
  <2> DEFINE list == <<m>>
  <2>1. list \in Seq(Nat) /\ Len(list) = 1 /\ DOMAIN list = 1..1 /\ list[1] = m /\ list # <<>>
    BY <1>2
  <2>2. \A v : sy[m] = Moment(v) /\ v # <<>> => DividesInto(ctx, v, Len(list), [i \in 1..Len(list) |-> sy[list[i]]])
    BY <1>2, <1>6
  <2>3. list = <<m>>
    OBVIOUS
  <2> HIDE DEF list
  <2>4. IsList(ctx, sy, m, list)
    BY <1>1, <2>1, <2>2, <2>3 DEF IsList, InOrder
  <2> QED BY <2>3, <2>4
<1>4. NextId(en) = m /\ AreListed(ctx, sy, Pushed(en, Entry(<<m>>)), With(ix, <<m>>, m), m + 1)
  BY <1>3, OneMoreListed
<1>5. EntryForFactor(State(sy, en, ix, found), m) = State(sy, Pushed(en, Entry(<<m>>)), With(ix, <<m>>, m), found)
  BY <1>4, AddedEntry DEF EntryForFactor
<1> QED BY <1>4, <1>5 DEF FactorsListedUpTo

\* The steps of the loops that make entries.
AreSymbolEntries(base, seq, at) ==
  /\ LeftFold(EntryForSymbol, base, seq) = at[Len(seq)] /\ at[0] = base
  /\ \A k \in 1..Len(seq) : at[k] = EntryForSymbol(at[k - 1], seq[k])

LEMMA SymbolEntriesRun ==
  ASSUME NEW base, NEW seq, Len(seq) \in Nat
  PROVE  \E at : AreSymbolEntries(base, seq, at)
<1> DEFINE n == Len(seq)
           Run(m, a) == a = [k \in 0..m |-> IF k = 0 THEN base ELSE EntryForSymbol(a[k - 1], seq[k])]
           S == {m \in Nat : \E a : Run(m, a)}
           at == CHOOSE a : Run(n, a)
<1>1. 0 \in S
  <2> DEFINE a == [k \in 0..0 |-> base]
  <2>1. Run(0, a)
    OBVIOUS
  <2> HIDE DEF Run
  <2> QED BY <2>1
<1>2. ASSUME NEW m \in S PROVE m + 1 \in S
  <2>1. PICK a : Run(m, a)
    OBVIOUS
  <2> DEFINE b == [k \in 0..(m + 1) |-> IF k <= m THEN a[k] ELSE EntryForSymbol(a[m], seq[m + 1])]
  <2>2. \A k \in 0..m : b[k] = a[k]
    OBVIOUS
  <2>3. b[m + 1] = EntryForSymbol(b[m], seq[m + 1]) /\ b[0] = base
    BY <2>1, <2>2
  <2>4. ASSUME NEW k \in 0..(m + 1)
        PROVE  b[k] = IF k = 0 THEN base ELSE EntryForSymbol(b[k - 1], seq[k])
    <3>1. CASE k = m + 1
      BY <3>1, <2>3, (m + 1) - 1 = m
    <3>2. CASE k \in 0..m
      <4>1. k = 0 \/ k - 1 \in 0..m
        BY <3>2
      <4> HIDE DEF b
      <4> QED BY <3>2, <4>1, <2>1, <2>2
    <3> QED BY <3>1, <3>2
  <2>5. b = [k \in 0..(m + 1) |-> b[k]]
    OBVIOUS
  <2> HIDE DEF b
  <2>6. Run(m + 1, b)
    BY <2>4, <2>5
  <2> HIDE DEF Run
  <2> QED BY <2>6
<1>3. S = Nat
  <2> HIDE DEF S
  <2>1. S \in SUBSET Nat
    BY DEF S
  <2> QED BY <1>1, <1>2, <2>1, Induction
<1>4. Run(n, at)
  <2> HIDE DEF Run
  <2>1. n \in S
    BY <1>3
  <2> QED BY <2>1
<1>5. LeftFold(EntryForSymbol, base, seq) = at[Len(seq)]
  BY DEF LeftFold
<1> HIDE DEF at
<1>6. at[0] = base /\ \A k \in 1..n : at[k] = EntryForSymbol(at[k - 1], seq[k])
  BY <1>4
<1> QED BY <1>5, <1>6 DEF AreSymbolEntries

AreFactorEntries(base, seq, at) ==
  /\ LeftFold(EntryForFactor, base, seq) = at[Len(seq)] /\ at[0] = base
  /\ \A k \in 1..Len(seq) : at[k] = EntryForFactor(at[k - 1], seq[k])

LEMMA FactorEntriesRun ==
  ASSUME NEW base, NEW seq, Len(seq) \in Nat
  PROVE  \E at : AreFactorEntries(base, seq, at)
<1> DEFINE n == Len(seq)
           Run(m, a) == a = [k \in 0..m |-> IF k = 0 THEN base ELSE EntryForFactor(a[k - 1], seq[k])]
           S == {m \in Nat : \E a : Run(m, a)}
           at == CHOOSE a : Run(n, a)
<1>1. 0 \in S
  <2> DEFINE a == [k \in 0..0 |-> base]
  <2>1. Run(0, a)
    OBVIOUS
  <2> HIDE DEF Run
  <2> QED BY <2>1
<1>2. ASSUME NEW m \in S PROVE m + 1 \in S
  <2>1. PICK a : Run(m, a)
    OBVIOUS
  <2> DEFINE b == [k \in 0..(m + 1) |-> IF k <= m THEN a[k] ELSE EntryForFactor(a[m], seq[m + 1])]
  <2>2. \A k \in 0..m : b[k] = a[k]
    OBVIOUS
  <2>3. b[m + 1] = EntryForFactor(b[m], seq[m + 1]) /\ b[0] = base
    BY <2>1, <2>2
  <2>4. ASSUME NEW k \in 0..(m + 1)
        PROVE  b[k] = IF k = 0 THEN base ELSE EntryForFactor(b[k - 1], seq[k])
    <3>1. CASE k = m + 1
      BY <3>1, <2>3, (m + 1) - 1 = m
    <3>2. CASE k \in 0..m
      <4>1. k = 0 \/ k - 1 \in 0..m
        BY <3>2
      <4> HIDE DEF b
      <4> QED BY <3>2, <4>1, <2>1, <2>2
    <3> QED BY <3>1, <3>2
  <2>5. b = [k \in 0..(m + 1) |-> b[k]]
    OBVIOUS
  <2> HIDE DEF b
  <2>6. Run(m + 1, b)
    BY <2>4, <2>5
  <2> HIDE DEF Run
  <2> QED BY <2>6
<1>3. S = Nat
  <2> HIDE DEF S
  <2>1. S \in SUBSET Nat
    BY DEF S
  <2> QED BY <1>1, <1>2, <2>1, Induction
<1>4. Run(n, at)
  <2> HIDE DEF Run
  <2>1. n \in S
    BY <1>3
  <2> QED BY <2>1
<1>5. LeftFold(EntryForFactor, base, seq) = at[Len(seq)]
  BY DEF LeftFold
<1> HIDE DEF at
<1>6. at[0] = base /\ \A k \in 1..n : at[k] = EntryForFactor(at[k - 1], seq[k])
  BY <1>4
<1> QED BY <1>5, <1>6 DEF AreFactorEntries

LEMMA IdsInTurn ==
  ASSUME NEW first \in Nat, NEW end \in Nat, first <= end
  PROVE  Len(IdsFrom(first, end)) = end - first
         /\ \A k \in 1..(end - first) : IdsFrom(first, end)[k] = first + (k - 1)
<1>1. end - first \in Nat
  OBVIOUS
<1>2. Len(IdsFrom(first, end)) = end - first
  BY <1>1 DEF IdsFrom
<1>3. \A k \in 1..(end - first) : IdsFrom(first, end)[k] = first + (k - 1)
  BY DEF IdsFrom
<1> QED BY <1>2, <1>3

\* The symbols that were registered get their entries.
LEMMA SymbolsListed ==
  ASSUME NEW ctx, ctx = Context, IsContext(ctx), NEW sy, NEW N, AreSymbols(ctx, sy, N),
         NEW en, NEW ix, NEW m, AreListed(ctx, sy, en, ix, m), m <= N,
         \A id \in m..(N - 1) : sy[id] # Product, NEW found
  PROVE  ListedUpTo(ctx, sy, N, LeftFold(EntryForSymbol, State(sy, en, ix, found), IdsFrom(m, N)), N)
<1> DEFINE seq  == IdsFrom(m, N)
           base == State(sy, en, ix, found)
<1>1. m \in Nat /\ N \in Nat /\ N - m \in Nat
  BY DEF AreListed, AreSymbols
<1>2. Len(seq) = N - m /\ \A k \in 1..(N - m) : seq[k] = m + (k - 1)
  BY <1>1, IdsInTurn
<1> HIDE DEF seq, base
<1>3. PICK at : AreSymbolEntries(base, seq, at)
  BY <1>1, <1>2, SymbolEntriesRun
<1>4. /\ LeftFold(EntryForSymbol, base, seq) = at[N - m] /\ at[0] = base
      /\ \A k \in 1..(N - m) : at[k] = EntryForSymbol(at[k - 1], m + (k - 1))
  BY <1>2, <1>3 DEF AreSymbolEntries
<1> DEFINE S == {k \in Nat : k <= N - m => ListedUpTo(ctx, sy, N, at[k], m + k)}
<1>5. 0 \in S
  <2>1. m + 0 = m
    BY <1>1
  <2>2. ListedUpTo(ctx, sy, N, base, m)
    BY CompletesItself DEF ListedUpTo, base
  <2> QED BY <1>4, <2>1, <2>2
<1>6. ASSUME NEW k \in S PROVE k + 1 \in S
  <2> SUFFICES ASSUME k + 1 <= N - m PROVE ListedUpTo(ctx, sy, N, at[k + 1], m + (k + 1))
    OBVIOUS
  <2>1. k \in Nat /\ k + 1 \in 1..(N - m) /\ (k + 1) - 1 = k /\ k <= N - m
    BY <1>1
  <2>2. PICK mid, M, en1, ix1, found1 : /\ at[k] = State(mid, en1, ix1, found1) /\ Completes(ctx, sy, N, mid, M)
                                        /\ AreListed(ctx, mid, en1, ix1, m + k)
    BY <2>1 DEF ListedUpTo
  <2>3. AreSymbols(ctx, mid, M) /\ N <= M /\ Continues(sy, N, mid) /\ M \in Nat
    BY <2>2 DEF Completes, AreSymbols
  <2>4. m + k \in m..(N - 1) /\ m + k \in 0..(N - 1) /\ m + k < M
    BY <1>1, <2>1, <2>3
  <2>5. mid[m + k] # Product
    BY <2>3, <2>4 DEF Continues
  <2>6. at[k + 1] = EntryForSymbol(at[k], m + k)
    BY <1>4, <2>1
  <2>7. ListedUpTo(ctx, mid, M, EntryForSymbol(State(mid, en1, ix1, found1), m + k), (m + k) + 1)
    BY <2>2, <2>3, <2>4, <2>5, SymbolListed
  <2>8. PICK new, L, en2, ix2, found2 : /\ at[k + 1] = State(new, en2, ix2, found2) /\ Completes(ctx, mid, M, new, L)
                                        /\ AreListed(ctx, new, en2, ix2, (m + k) + 1)
    BY <2>2, <2>6, <2>7 DEF ListedUpTo
  <2>9. Completes(ctx, sy, N, new, L)
    BY <2>2, <2>8, CompletesOn
  <2>10. (m + k) + 1 = m + (k + 1)
    BY <1>1, <2>1
  <2> QED BY <2>8, <2>9, <2>10 DEF ListedUpTo
<1> HIDE DEF S
<1>7. S = Nat
  <2>1. S \in SUBSET Nat
    BY DEF S
  <2> QED BY <1>5, <1>6, <2>1, Induction
<1>8. ListedUpTo(ctx, sy, N, at[N - m], m + (N - m))
  BY <1>1, <1>7 DEF S
<1>9. m + (N - m) = N
  BY <1>1
<1> QED BY <1>4, <1>8, <1>9 DEF seq, base

\* And so do the factors that these have added.
LEMMA FactorsListed ==
  ASSUME NEW ctx, IsContext(ctx), NEW sy, NEW N, AreSymbols(ctx, sy, N),
         NEW en, NEW ix, NEW m, AreListed(ctx, sy, en, ix, m), m <= N,
         \A id \in m..(N - 1) : Atom(ctx, sy, id), NEW found
  PROVE  FactorsListedUpTo(ctx, sy, LeftFold(EntryForFactor, State(sy, en, ix, found), IdsFrom(m, N)), N)
<1> DEFINE seq  == IdsFrom(m, N)
           base == State(sy, en, ix, found)
<1>1. m \in Nat /\ N \in Nat /\ N - m \in Nat
  BY DEF AreListed, AreSymbols
<1>2. Len(seq) = N - m /\ \A k \in 1..(N - m) : seq[k] = m + (k - 1)
  BY <1>1, IdsInTurn
<1> HIDE DEF seq, base
<1>3. PICK at : AreFactorEntries(base, seq, at)
  BY <1>1, <1>2, FactorEntriesRun
<1>4. /\ LeftFold(EntryForFactor, base, seq) = at[N - m] /\ at[0] = base
      /\ \A k \in 1..(N - m) : at[k] = EntryForFactor(at[k - 1], m + (k - 1))
  BY <1>2, <1>3 DEF AreFactorEntries
<1> DEFINE S == {k \in Nat : k <= N - m => FactorsListedUpTo(ctx, sy, at[k], m + k)}
<1>5. 0 \in S
  <2>1. m + 0 = m
    BY <1>1
  <2>2. FactorsListedUpTo(ctx, sy, base, m)
    BY DEF FactorsListedUpTo, base
  <2> QED BY <1>4, <2>1, <2>2
<1>6. ASSUME NEW k \in S PROVE k + 1 \in S
  <2> SUFFICES ASSUME k + 1 <= N - m PROVE FactorsListedUpTo(ctx, sy, at[k + 1], m + (k + 1))
    OBVIOUS
  <2>1. k \in Nat /\ k + 1 \in 1..(N - m) /\ (k + 1) - 1 = k /\ k <= N - m
    BY <1>1
  <2>2. PICK en1, ix1, found1 : at[k] = State(sy, en1, ix1, found1) /\ AreListed(ctx, sy, en1, ix1, m + k)
    BY <2>1 DEF FactorsListedUpTo
  <2>3. m + k \in m..(N - 1) /\ m + k < N
    BY <1>1, <2>1
  <2>4. at[k + 1] = EntryForFactor(at[k], m + k)
    BY <1>4, <2>1
  <2>5. FactorsListedUpTo(ctx, sy, EntryForFactor(State(sy, en1, ix1, found1), m + k), (m + k) + 1)
    BY <2>2, <2>3, FactorListed
  <2>6. (m + k) + 1 = m + (k + 1)
    BY <1>1, <2>1
  <2> QED BY <2>2, <2>4, <2>5, <2>6
<1> HIDE DEF S
<1>7. S = Nat
  <2>1. S \in SUBSET Nat
    BY DEF S
  <2> QED BY <1>5, <1>6, <2>1, Induction
<1>8. FactorsListedUpTo(ctx, sy, at[N - m], m + (N - m))
  BY <1>1, <1>7 DEF S
<1>9. m + (N - m) = N
  BY <1>1
<1> QED BY <1>4, <1>8, <1>9 DEF seq, base

LEMMA CountedEntries ==
  ASSUME NEW ctx, NEW sy, NEW en, NEW ix, NEW m, AreListed(ctx, sy, en, ix, m), NEW first
  PROVE  AreListed(ctx, sy, CountAppearances(en, first), ix, m)
<1> DEFINE new == CountAppearances(en, first)
           sum(id) == en[id].appearances + Appearances(en, first..(NextId(en) - 1), id)
<1>1. m \in Nat /\ DOMAIN en = 0..(m - 1)
  BY DEF AreListed
<1>2. DOMAIN new = 0..(m - 1) /\ \A id \in 0..(m - 1) : new[id] = [en[id] EXCEPT !.appearances = sum(id)]
  BY <1>1 DEF CountAppearances
<1>3. \A a, b, c : [[canonical |-> a, appearances |-> b] EXCEPT !.appearances = c] = [canonical |-> a, appearances |-> c]
  OBVIOUS
<1> HIDE DEF new, sum
<1>4. ASSUME NEW id \in 0..(m - 1)
      PROVE  new[id] = [canonical |-> new[id].canonical, appearances |-> new[id].appearances]
             /\ new[id].canonical = en[id].canonical
  <2> DEFINE a == en[id].canonical
             b == en[id].appearances
  <2>1. en[id] = [canonical |-> a, appearances |-> b]
    BY DEF AreListed
  <2> HIDE DEF a, b
  <2>2. new[id] = [canonical |-> a, appearances |-> sum(id)]
    BY <1>2, <1>3, <2>1
  <2>3. new[id].canonical = a /\ new[id].appearances = sum(id)
    BY <2>2
  <2> QED BY <2>2, <2>3 DEF a
<1>5. AreListed(ctx, sy, new, ix, m)
  BY <1>1, <1>2, <1>4 DEF AreListed
<1> QED BY <1>5 DEF new

(* The tables after the registration of new symbols, the first m of sy     *)
(* being listed already.                                                   *)
AllListed(ctx, sy, N, t) ==
  \E M : Completes(ctx, sy, N, t.symbols, M) /\ AreListed(ctx, t.symbols, t.entries, t.index, M)

LEMMA NewSymbolsListed ==
  ASSUME NEW ctx, ctx = Context, IsContext(ctx), NEW sy, NEW N, AreSymbols(ctx, sy, N),
         NEW en, NEW ix, NEW m, AreListed(ctx, sy, en, ix, m), m <= N,
         \A id \in m..(N - 1) : sy[id] # Product
  PROVE  AllListed(ctx, sy, N, OnNewSymbolsAdded(sy, en, ix))
<1> DEFINE t0 == State(sy, en, ix, <<>>)
           t1 == LeftFold(EntryForSymbol, t0, IdsFrom(m, N))
           t2 == LeftFold(EntryForFactor, t1, IdsFrom(N, NextId(t1.symbols)))
           t  == [t2 EXCEPT !.entries = CountAppearances(@, m)]
<1>1. NextId(en) = m /\ NextId(sy) = N /\ N \in Nat
  BY TableSize DEF AreListed, AreSymbols
<1>2. OnNewSymbolsAdded(sy, en, ix) = t
  BY <1>1 DEF OnNewSymbolsAdded, State
<1>3. ListedUpTo(ctx, sy, N, t1, N)
  BY SymbolsListed
<1> HIDE DEF t1
<1>4. PICK mid, M, en1, ix1, found1 : /\ t1 = State(mid, en1, ix1, found1) /\ Completes(ctx, sy, N, mid, M)
                                      /\ AreListed(ctx, mid, en1, ix1, N)
  BY <1>3 DEF ListedUpTo
<1>5. t1.symbols = mid
  BY <1>4 DEF State
<1>6. /\ AreSymbols(ctx, mid, M) /\ NextId(mid) = M /\ N <= M
      /\ \A id \in N..(M - 1) : Atom(ctx, mid, id)
  <2>1. AreSymbols(ctx, mid, M) /\ N <= M /\ \A id \in N..(M - 1) : Atom(ctx, mid, id)
    BY <1>4 DEF Completes
  <2>2. NextId(mid) = M
    BY <2>1, TableSize DEF AreSymbols
  <2> QED BY <2>1, <2>2
<1>7. t2 = LeftFold(EntryForFactor, State(mid, en1, ix1, found1), IdsFrom(N, M))
  BY <1>4, <1>5, <1>6
<1>8. FactorsListedUpTo(ctx, mid, t2, M)
  BY <1>4, <1>6, <1>7, FactorsListed
<1> HIDE DEF t2
<1>9. PICK en2, ix2, found2 : t2 = State(mid, en2, ix2, found2) /\ AreListed(ctx, mid, en2, ix2, M)
  BY <1>8 DEF FactorsListedUpTo
<1>10. t = State(mid, CountAppearances(en2, m), ix2, found2)
  <2> DEFINE e == CountAppearances(en2, m)
  <2>1. t2.entries = en2
    BY <1>9 DEF State
  <2>2. t = [State(mid, en2, ix2, found2) EXCEPT !.entries = e]
    BY <1>9, <2>1
  <2> HIDE DEF e, t
  <2>3. t = State(mid, e, ix2, found2)
    BY <2>2 DEF State
  <2> QED BY <2>3 DEF e
<1> HIDE DEF t
<1>11. t.symbols = mid /\ t.entries = CountAppearances(en2, m) /\ t.index = ix2
  BY <1>10 DEF State
<1>12. AreListed(ctx, t.symbols, t.entries, t.index, M)
  BY <1>9, <1>11, CountedEntries
<1>13. Completes(ctx, sy, N, t.symbols, M)
  BY <1>4, <1>11
<1> QED BY <1>2, <1>12, <1>13 DEF AllListed


-----------------------------------------------------------------------------
(* A new matrix.                                                           *)

\* The table with a symbol for the moment.
WithSymbol(table, moment) == IF moment \in Registered(table) THEN table ELSE Pushed(table, moment)

\* The steps of the loop that registers moments.
AreRegistered(base, seq, at) ==
  /\ LeftFold(WithSymbol, base, seq) = at[Len(seq)] /\ at[0] = base
  /\ \A k \in 1..Len(seq) : at[k] = WithSymbol(at[k - 1], seq[k])

LEMMA RegistrationsRun ==
  ASSUME NEW base, NEW seq, Len(seq) \in Nat
  PROVE  \E at : AreRegistered(base, seq, at)
<1> DEFINE n == Len(seq)
           Run(m, a) == a = [k \in 0..m |-> IF k = 0 THEN base ELSE WithSymbol(a[k - 1], seq[k])]
           S == {m \in Nat : \E a : Run(m, a)}
           at == CHOOSE a : Run(n, a)
<1>1. 0 \in S
  <2> DEFINE a == [k \in 0..0 |-> base]
  <2>1. Run(0, a)
    OBVIOUS
  <2> HIDE DEF Run
  <2> QED BY <2>1
<1>2. ASSUME NEW m \in S PROVE m + 1 \in S
  <2>1. PICK a : Run(m, a)
    OBVIOUS
  <2> DEFINE b == [k \in 0..(m + 1) |-> IF k <= m THEN a[k] ELSE WithSymbol(a[m], seq[m + 1])]
  <2>2. \A k \in 0..m : b[k] = a[k]
    OBVIOUS
  <2>3. b[m + 1] = WithSymbol(b[m], seq[m + 1]) /\ b[0] = base
    BY <2>1, <2>2
  <2>4. ASSUME NEW k \in 0..(m + 1)
        PROVE  b[k] = IF k = 0 THEN base ELSE WithSymbol(b[k - 1], seq[k])
    <3>1. CASE k = m + 1
      BY <3>1, <2>3, (m + 1) - 1 = m
    <3>2. CASE k \in 0..m
      <4>1. k = 0 \/ k - 1 \in 0..m
        BY <3>2
      <4> HIDE DEF b
      <4> QED BY <3>2, <4>1, <2>1, <2>2
    <3> QED BY <3>1, <3>2
  <2>5. b = [k \in 0..(m + 1) |-> b[k]]
    OBVIOUS
  <2> HIDE DEF b
  <2>6. Run(m + 1, b)
    BY <2>4, <2>5
  <2> HIDE DEF Run
  <2> QED BY <2>6
<1>3. S = Nat
  <2> HIDE DEF S
  <2>1. S \in SUBSET Nat
    BY DEF S
  <2> QED BY <1>1, <1>2, <2>1, Induction
<1>4. Run(n, at)
  <2> HIDE DEF Run
  <2>1. n \in S
    BY <1>3
  <2> QED BY <2>1
<1>5. LeftFold(WithSymbol, base, seq) = at[Len(seq)]
  BY DEF LeftFold
<1> HIDE DEF at
<1>6. at[0] = base /\ \A k \in 1..n : at[k] = WithSymbol(at[k - 1], seq[k])
  BY <1>4
<1> QED BY <1>5, <1>6 DEF AreRegistered

\* What is added are moments.
Adds(ctx, sy, N, new, M) ==
  AreSymbols(ctx, new, M) /\ N <= M /\ Continues(sy, N, new) /\ \A k \in N..(M - 1) : new[k] # Product
AddsSome(ctx, sy, N, new) == \E M : Adds(ctx, sy, N, new, M)

LEMMA AddsItself ==
  ASSUME NEW ctx, NEW sy, NEW N, AreSymbols(ctx, sy, N)
  PROVE  AddsSome(ctx, sy, N, sy)
<1>1. N \in Nat
  BY DEF AreSymbols
<1>2. Adds(ctx, sy, N, sy, N)
  BY <1>1 DEF Adds, Continues
<1> QED BY <1>2 DEF AddsSome

IsRegistrable(ctx, moment) == moment = ZeroMoment \/ IsCanonical(ctx, moment)

LEMMA AddsOneMore ==
  ASSUME NEW ctx, NEW sy, NEW N, AreSymbols(ctx, sy, N), NEW mid, AddsSome(ctx, sy, N, mid),
         NEW moment, IsRegistrable(ctx, moment)
  PROVE  AddsSome(ctx, sy, N, WithSymbol(mid, moment))
<1>1. PICK M : Adds(ctx, sy, N, mid, M)
  BY DEF AddsSome
<1>2. AreSymbols(ctx, mid, M) /\ N <= M /\ M \in Nat /\ N \in Nat /\ DOMAIN mid = 0..(M - 1)
  BY <1>1 DEF Adds, AreSymbols
<1>3. CASE moment \in Registered(mid)
  BY <1>1, <1>3 DEF AddsSome, WithSymbol
<1>4. CASE moment \notin Registered(mid)
  <2> DEFINE new == Pushed(mid, moment)
  <2>1. \A id \in 0..(M - 1) : mid[id] # moment
    BY <1>2, <1>4 DEF Registered
  <2>2. Zero \in 0..(M - 1) /\ mid[Zero] = ZeroMoment
    BY <1>2 DEF AreSymbols, Zero
  <2>3. IsCanonical(ctx, moment) /\ moment # Product
    BY <2>1, <2>2, KindsDiffer DEF IsRegistrable, IsCanonical
  <2>4. AreSymbols(ctx, new, M + 1) /\ Continues(mid, M, new) /\ new[M] = moment
    BY <1>2, <2>1, <2>3, PushedSymbols
  <2> HIDE DEF new
  <2>5. \A k \in 0..(N - 1) : k \in 0..(M - 1) /\ new[k] = sy[k]
    BY <1>1, <1>2, <2>4 DEF Adds, Continues
  <2>6. ASSUME NEW k \in N..((M + 1) - 1) PROVE new[k] # Product
    <3>1. CASE k = M
      BY <2>3, <2>4, <3>1
    <3>2. CASE k \in N..(M - 1)
      <4>1. k \in 0..(M - 1) /\ mid[k] # Product
        BY <1>1, <1>2, <3>2 DEF Adds
      <4> QED BY <2>4, <4>1 DEF Continues
    <3> QED BY <1>2, <3>1, <3>2
  <2>7. N <= M + 1
    BY <1>2
  <2>8. Adds(ctx, sy, N, new, M + 1)
    BY <2>4, <2>5, <2>6, <2>7 DEF Adds, Continues
  <2> QED BY <1>4, <2>8 DEF AddsSome, WithSymbol, new
<1> QED BY <1>3, <1>4

LEMMA MomentsAdded ==
  ASSUME NEW ctx, NEW sy, NEW N, AreSymbols(ctx, sy, N), NEW moments, Len(moments) \in Nat,
         \A i \in 1..Len(moments) : IsRegistrable(ctx, moments[i])
  PROVE  AddsSome(ctx, sy, N, LeftFold(WithSymbol, sy, moments))
<1>1. PICK at : AreRegistered(sy, moments, at)
  BY RegistrationsRun
<1>s. /\ LeftFold(WithSymbol, sy, moments) = at[Len(moments)] /\ at[0] = sy
      /\ \A k \in 1..Len(moments) : at[k] = WithSymbol(at[k - 1], moments[k])
  BY <1>1 DEF AreRegistered
<1> DEFINE S == {k \in Nat : k <= Len(moments) => AddsSome(ctx, sy, N, at[k])}
<1>2. 0 \in S
  BY <1>s, AddsItself
<1>3. ASSUME NEW k \in S PROVE k + 1 \in S
  <2> SUFFICES ASSUME k + 1 <= Len(moments) PROVE AddsSome(ctx, sy, N, at[k + 1])
    OBVIOUS
  <2>1. k + 1 \in 1..Len(moments) /\ (k + 1) - 1 = k /\ k \in Nat
    OBVIOUS
  <2>2. AddsSome(ctx, sy, N, at[k])
    OBVIOUS
  <2>3. at[k + 1] = WithSymbol(at[k], moments[k + 1]) /\ IsRegistrable(ctx, moments[k + 1])
    BY <1>s, <2>1
  <2> QED BY <2>2, <2>3, AddsOneMore
<1> HIDE DEF S
<1>4. S = Nat
  <2>1. S \in SUBSET Nat
    BY DEF S
  <2> QED BY <1>2, <1>3, <2>1, Induction
<1>5. AddsSome(ctx, sy, N, at[Len(moments)])
  BY <1>4 DEF S
<1> QED BY <1>s, <1>5

LEMMA WordsAreRegistrable ==
  ASSUME NEW ctx, IsContext(ctx), NEW word \in Seq(OperatorsOf(ctx))
  PROVE  IsRegistrable(ctx, CanonicalMoment(ctx, SimplifyWord(ctx, word)))
<1>1. Len(word) \in Nat /\ word \in WordsOf(ctx, Len(word))
  BY DEF WordsOf
<1>2. CASE SimplifyWord(ctx, word) = ZeroMoment
  BY <1>2, KindsDiffer DEF CanonicalMoment, IsRegistrable
<1>3. CASE SimplifyWord(ctx, word) # ZeroMoment
  <2>0. PICK m \in Nat : \E v : SimplifyWord(ctx, word) = Moment(v) /\ Reduced(ctx, m, v)
    BY <1>1, <1>3, SimplifiedIsReduced
  <2>1. PICK v : SimplifyWord(ctx, word) = Moment(v) /\ Reduced(ctx, m, v)
    BY <2>0
  <2>2. /\ CanonicalMoment(ctx, Moment(v)) = Moment(SimplifyAsMoment(ctx, v))
        /\ CanonicalFormOf(ctx, m, v, SimplifyAsMoment(ctx, v))
    BY <2>1, CanonicalMomentIs
  <2> QED BY <2>1, <2>2 DEF IsRegistrable, IsCanonical, CanonicalFormOf
<1> QED BY <1>2, <1>3

\* The loop of RegisterMoments.
LEMMA RegisterMomentsUnfolds ==
  ASSUME NEW moments, RegisterMoments(moments)
  PROVE  LET pushed == LeftFold(WithSymbol, symbols, moments)
             t      == IF IsInflation THEN OnNewSymbolsAdded(pushed, entries, index)
                       ELSE [symbols |-> pushed, entries |-> entries, index |-> index]
         IN  symbols' = t.symbols /\ entries' = t.entries /\ index' = t.index
BY DEF RegisterMoments, LeftFold, WithSymbol


-----------------------------------------------------------------------------
(* A new product.                                                          *)

\* The factors of a product of symbols other than zero: those of both, in order, without identities.
CombinesInto(left, right, joint) ==
  /\ joint \in Seq(Nat) /\ joint # <<>> /\ InOrder(joint)
  /\ joint = <<One>>
     \/ \A k \in DOMAIN joint : joint[k] # One /\ (\/ \E i \in DOMAIN left : joint[k] = left[i]
                                                   \/ \E i \in DOMAIN right : joint[k] = right[i])

\* What is merged: nothing if both lists hold identities only.
Remaining(merged) == IF WithoutOnes(merged) = <<>> THEN <<One>> ELSE WithoutOnes(merged)

LEMMA MergedLists ==
  ASSUME NEW left \in Seq(Nat), NEW right \in Seq(Nat), left # <<>>, right # <<>>,
         \A i \in DOMAIN left : left[i] # Zero, \A i \in DOMAIN right : right[i] # Zero
  PROVE  /\ CombineFactors(left, right) = Remaining(Sorted(left \o right))
         /\ CombinesInto(left, right, CombineFactors(left, right))
<1> DEFINE both   == left \o right
           n      == Len(left) + Len(right)
           merged == Sorted(both)
           kept   == {i \in DOMAIN merged : merged[i] # One}
           pruned == WithoutOnes(merged)
<1>1. n \in Nat /\ n >= 2 /\ both \in Seq(Nat) /\ Len(both) = n /\ DOMAIN both = 1..n
  <2>1. Len(left) \in Nat /\ Len(right) \in Nat /\ Len(left) # 0 /\ Len(right) # 0
    OBVIOUS
  <2> QED BY <2>1
<1>2. ASSUME NEW i \in 1..n
      PROVE  /\ both[i] \in Nat /\ both[i] # Zero
             /\ (\E j \in DOMAIN left : both[i] = left[j]) \/ (\E j \in DOMAIN right : both[i] = right[j])
  <2>1. CASE i <= Len(left)
    <3>1. i \in DOMAIN left /\ both[i] = left[i]
      BY <1>1, <2>1
    <3> QED BY <3>1
  <2>2. CASE i > Len(left)
    <3>1. i - Len(left) \in 1..Len(right) /\ both[i] = right[i - Len(left)]
      BY <1>1, <2>2
    <3>2. i - Len(left) \in DOMAIN right
      BY <3>1
    <3>3. right[i - Len(left)] \in Nat /\ right[i - Len(left)] # Zero
      BY <3>2
    <3> HIDE DEF both
    <3> QED BY <3>1, <3>2, <3>3
  <2> QED BY <1>1, <2>1, <2>2
<1> HIDE DEF both, n
<1>3. both \in [1..n -> Nat] /\ both \in [1..n -> Int]
  BY <1>1, <1>2
<1>4. PICK at : Sorts(n, both, at)
  BY <1>1, <1>3, SortedList
<1>5. InOrder(merged)
  BY <1>1, <1>3, SortedList
<1>6. merged = [k \in 1..n |-> both[at[k]]] /\ \A k \in 1..n : at[k] \in 1..n
  BY <1>4 DEF Sorts, Bijection, Injection
<1> HIDE DEF merged
<1>7. merged \in [1..n -> Nat] /\ DOMAIN merged = 1..n
  BY <1>3, <1>6
<1>8. ASSUME NEW k \in 1..n
      PROVE  /\ merged[k] \in Nat /\ merged[k] # Zero
             /\ (\E j \in DOMAIN left : merged[k] = left[j]) \/ (\E j \in DOMAIN right : merged[k] = right[j])
  BY <1>2, <1>6
<1>9. merged \in Seq(Nat) /\ Len(merged) = n /\ merged # <<>>
  <2>1. merged \in Seq(Nat)
    BY <1>1, <1>7
  <2>2. Len(merged) = n
    BY <1>1, <1>7, <2>1
  <2> QED BY <1>1, <2>1, <2>2
<1>10. CombineFactors(left, right) = Remaining(merged)
  <2>1. merged[1] # Zero /\ Len(merged) # 1
    BY <1>1, <1>8, <1>9
  <2> HIDE DEF pruned
  <2> QED BY <1>9, <2>1 DEF CombineFactors, Remaining, merged, both
<1>11. kept \in SUBSET (1..n)
  BY <1>7
<1>12. PICK where : Keeps(merged, kept, where)
  BY <1>1, <1>11, SubsequenceOf
<1>13. pruned = Subsequence(merged, kept)
  BY DEF WithoutOnes
<1> DEFINE c == Cardinality(kept)
<1>14. c \in Nat
  <2>1. IsFiniteSet(1..n)
    BY <1>1, FS_Interval
  <2>2. IsFiniteSet(kept)
    BY <1>11, <2>1, FS_Subset
  <2> QED BY <2>2, FS_CardinalityType
<1>15. /\ where \in Bijection(1..c, kept) /\ pruned = [k \in 1..c |-> merged[where[k]]]
       /\ \A k, m \in 1..c : k < m => where[k] < where[m]
  BY <1>12, <1>13 DEF Keeps
<1> HIDE DEF c, pruned
<1>16. \A k \in 1..c : where[k] \in 1..n /\ merged[where[k]] # One
  BY <1>7, <1>15 DEF Bijection, Injection
<1> HIDE DEF kept
<1>17. pruned \in [1..c -> Nat] /\ DOMAIN pruned = 1..c /\ \A k \in 1..c : pruned[k] = merged[where[k]]
  BY <1>8, <1>15, <1>16
<1>18. pruned \in Seq(Nat)
  <2>1. pruned \in [1..c -> Nat]
    BY <1>17
  <2> QED BY <1>14, <2>1
<1>19. InOrder(pruned)
  <2> SUFFICES ASSUME NEW k \in 1..c, NEW m \in 1..c, k < m PROVE pruned[k] <= pruned[m]
    BY <1>17 DEF InOrder
  <2>1. where[k] < where[m] /\ where[k] \in DOMAIN merged /\ where[m] \in DOMAIN merged
    BY <1>7, <1>15, <1>16
  <2>2. merged[where[k]] <= merged[where[m]]
    BY <1>5, <2>1 DEF InOrder
  <2> QED BY <1>17, <2>2
<1>20. CASE pruned = <<>>
  <2>1. Remaining(merged) = <<One>>
    BY <1>20 DEF Remaining, pruned
  <2>2. <<One>> \in Seq(Nat) /\ <<One>> # <<>> /\ InOrder(<<One>>)
    <3>1. One \in Nat
      BY DEF One
    <3>2. \A i, j \in 1..1 : ~(i < j)
      OBVIOUS
    <3>3. DOMAIN <<One>> = 1..1
      OBVIOUS
    <3> QED BY <3>1, <3>2, <3>3 DEF InOrder
  <2> QED BY <1>10, <2>1, <2>2 DEF CombinesInto, merged, both
<1>21. CASE pruned # <<>>
  <2>1. Remaining(merged) = pruned
    BY <1>21 DEF Remaining, pruned
  <2>2. ASSUME NEW k \in 1..c
        PROVE  /\ pruned[k] # One
               /\ (\E i \in DOMAIN left : pruned[k] = left[i]) \/ (\E i \in DOMAIN right : pruned[k] = right[i])
    <3> DEFINE i == where[k]
    <3>1. i \in 1..n /\ merged[i] # One /\ pruned[k] = merged[i]
      BY <1>16, <1>17
    <3> HIDE DEF i
    <3> QED BY <3>1, <1>8
  <2>3. CombinesInto(left, right, pruned)
    BY <1>17, <1>18, <1>19, <1>21, <2>2 DEF CombinesInto
  <2> QED BY <1>10, <2>1, <2>3 DEF merged, both
<1> QED BY <1>20, <1>21

\* The list of a symbol other than zero.
LEMMA ListedWithoutZero ==
  ASSUME NEW ctx, NEW sy, NEW N, AreSymbols(ctx, sy, N), NEW id \in 0..(N - 1), id # Zero,
         NEW list, IsList(ctx, sy, id, list)
  PROVE  /\ list \in Seq(Nat) /\ list # <<>> /\ DOMAIN list = 1..Len(list) /\ Len(list) \in Nat \ {0}
         /\ \A i \in DOMAIN list : list[i] # Zero
<1>1. list \in Seq(Nat) /\ list # <<>>
  BY DEF IsList
<1>2. DOMAIN list = 1..Len(list) /\ Len(list) \in Nat \ {0}
  BY <1>1
<1>3. ASSUME NEW i \in DOMAIN list PROVE list[i] # Zero
  <2>1. CASE Len(list) = 1
    <3>1. list = <<id>> /\ i = 1
      BY <1>2, <2>1 DEF IsList
    <3> QED BY <3>1
  <2>2. CASE Len(list) # 1
    <3>1. Len(list) > 1
      BY <1>2, <2>2
    <3> QED BY <3>1 DEF IsList
  <2> QED BY <2>1, <2>2
<1> QED BY <1>1, <1>2, <1>3

LEMMA ProductListed ==
  ASSUME NEW ctx, NEW sy, NEW N, AreSymbols(ctx, sy, N), NEW en, NEW ix, AreListed(ctx, sy, en, ix, N),
         NEW a \in 0..(N - 1), a # Zero, NEW b \in 0..(N - 1), b # Zero,
         NEW joint, joint = CombineFactors(en[a].canonical, en[b].canonical), joint \notin DOMAIN ix
  PROVE  IsList(ctx, Pushed(sy, Product), N, joint)
<1> DEFINE left  == en[a].canonical
           right == en[b].canonical
           new   == Pushed(sy, Product)
<1>1. /\ N \in Nat /\ DOMAIN sy = 0..(N - 1)
      /\ IsList(ctx, sy, a, left) /\ IsList(ctx, sy, b, right)
      /\ sy[One] = Moment(<<>>) /\ One \in 0..(N - 1)
  BY DEF AreSymbols, AreListed, One
<1>2. CombinesInto(left, right, joint)
  BY <1>1, ListedWithoutZero, MergedLists
<1>3. AreSymbols(ctx, new, N + 1) /\ Continues(sy, N, new) /\ new[N] = Product
  BY PushedSymbols
<1>4. DOMAIN new = 0..N
  BY <1>1, <1>3 DEF AreSymbols
<1> HIDE DEF left, right, new
<1>5. ASSUME NEW i \in DOMAIN joint PROVE joint[i] \in 0..(N - 1) /\ Atom(ctx, sy, joint[i])
  <2>1. CASE joint = <<One>>
    <3>1. joint[i] = One
      BY <2>1
    <3> QED BY <1>1, <3>1, EmptyIsElementary DEF Atom
  <2>2. CASE joint # <<One>>
    BY <1>1, <1>2, <2>2 DEF CombinesInto, IsList
  <2> QED BY <2>1, <2>2
<1>6. \A i \in DOMAIN joint : joint[i] \in 0..N /\ Atom(ctx, new, joint[i])
  BY <1>1, <1>3, <1>5 DEF Continues, Atom
<1>7. joint \in Seq(Nat) /\ joint # <<>> /\ InOrder(joint) /\ DOMAIN joint = 1..Len(joint) /\ Len(joint) \in Nat
  BY <1>2 DEF CombinesInto
<1>8. Len(joint) # 1
  <2> SUFFICES ASSUME Len(joint) = 1 PROVE FALSE
    OBVIOUS
  <2> DEFINE x == joint[1]
  <2>1. joint = <<x>> /\ x \in 0..(N - 1) /\ Atom(ctx, sy, x)
    BY <1>5, <1>7
  <2>2. en[x].canonical = <<x>> /\ en[x].canonical \in DOMAIN ix
    BY <2>1 DEF AreListed, IsList
  <2> QED BY <2>1, <2>2
<1>9. ~Atom(ctx, new, N)
  <2>1. N # Zero
    BY DEF AreSymbols, Zero
  <2> QED BY <1>3, <2>1, ElementaryIsCanonical DEF Atom
<1>10. \A i \in DOMAIN joint : joint[i] \notin {Zero, One}
  <2> TAKE i \in DOMAIN joint
  <2>1. joint # <<One>>
    BY <1>8
  <2>2. joint[i] # One
    BY <1>2, <2>1 DEF CombinesInto
  <2>3. joint[i] # Zero
    <3>1. (\E j \in DOMAIN left : joint[i] = left[j]) \/ (\E j \in DOMAIN right : joint[i] = right[j])
      BY <1>2, <2>1 DEF CombinesInto
    <3>2. \A j \in DOMAIN left : left[j] # Zero
      BY <1>1, ListedWithoutZero
    <3>3. \A j \in DOMAIN right : right[j] # Zero
      BY <1>1, ListedWithoutZero
    <3> QED BY <3>1, <3>2, <3>3
  <2> QED BY <2>2, <2>3
<1>11. IsList(ctx, new, N, joint)
  BY <1>3, <1>4, <1>6, <1>7, <1>8, <1>9, <1>10, KindsDiffer DEF IsList
<1> QED BY <1>11 DEF new


-----------------------------------------------------------------------------
(* The factor table of an inflation, in every state.                       *)

Listed    == \E N : AreSymbols(Context, symbols, N) /\ AreListed(Context, symbols, entries, index, N)
ListedInv == scenario \in Systems /\ (IsInflation => Listed)

LEMMA SystemFacts ==
  ASSUME scenario \in Systems
  PROVE  /\ \A words \in scenario.matrices : words \in Seq(Seq(Nat))
         /\ IsInflation => /\ IsContext(Context)
                           /\ \A words \in scenario.matrices : words \in Seq(Seq(OperatorsOf(Context)))
<1>1. PICK s \in Scenarios : scenario = Constructed(s)
  BY DEF Systems
<1>2. scenario.kind = s.kind /\ scenario.context = s.context /\ scenario.matrices = s.matrices
  BY <1>1 DEF Constructed
<1> QED BY <1>2, ScenariosAssumption DEF IsInflation, Context, OperatorsOf

LEMMA InitialListed ==
  ASSUME NEW ctx, ctx = Context, IsContext(ctx)
  PROVE  AllListed(ctx, InitialSymbols, 2, OnNewSymbolsAdded(InitialSymbols, <<>>, <<>>))
<1>1. {Zero, One} = 0..1 /\ Zero = 0 /\ One = 1
  BY DEF Zero, One
<1>2. InitialSymbols = [id \in 0..1 |-> IF id = Zero THEN ZeroMoment ELSE Moment(<<>>)]
  BY <1>1 DEF InitialSymbols
<1>3. DOMAIN InitialSymbols = 0..1 /\ InitialSymbols[Zero] = ZeroMoment /\ InitialSymbols[One] = Moment(<<>>)
  BY <1>1, <1>2
<1>4. \A id \in 0..1 : id = Zero \/ id = One
  BY <1>1
<1>5. AreSymbols(ctx, InitialSymbols, 2)
  <2>1. \A id \in 0..1 : id = Zero \/ IsCanonical(ctx, InitialSymbols[id])
    BY <1>3, <1>4, EmptyIsElementary
  <2>2. \A id, k \in 0..1 : InitialSymbols[id] = InitialSymbols[k] => id = k
    BY <1>3, <1>4, KindsDiffer
  <2>3. 2 - 1 = 1 /\ 2 \in Nat /\ 2 >= 2 /\ InitialSymbols = [id \in 0..1 |-> InitialSymbols[id]]
    BY <1>2
  <2> QED BY <1>3, <2>1, <2>2, <2>3 DEF AreSymbols
<1>6. AreListed(ctx, InitialSymbols, <<>>, <<>>, 0)
  <2>1. DOMAIN <<>> = {} /\ DOMAIN <<>> = 0..(0 - 1)
    OBVIOUS
  <2> QED BY <2>1 DEF AreListed
<1>7. \A id \in 0..(2 - 1) : InitialSymbols[id] # Product
  BY <1>3, <1>4, KindsDiffer
<1> QED BY <1>5, <1>6, <1>7, NewSymbolsListed

LEMMA MatrixListed ==
  ASSUME ListedInv, IsInflation, NEW words \in scenario.matrices, NewMatrix(words)
  PROVE  \E N : /\ AreSymbols(Context, symbols, N) /\ Continues(symbols, N, symbols')
                /\ \E M : /\ N <= M /\ AreSymbols(Context, symbols', M)
                          /\ AreListed(Context, symbols', entries', index', M)
<1> DEFINE ctx     == Context
           moments == [i \in DOMAIN words |-> CanonicalMoment(ctx, SimplifyWord(ctx, words[i]))]
           pushed  == LeftFold(WithSymbol, symbols, moments)
           t       == OnNewSymbolsAdded(pushed, entries, index)
<1>1. IsContext(ctx) /\ words \in Seq(Seq(OperatorsOf(ctx)))
  BY SystemFacts DEF ListedInv
<1>2. PICK N : AreSymbols(ctx, symbols, N) /\ AreListed(ctx, symbols, entries, index, N)
  BY DEF ListedInv, Listed
<1>3. symbols' = t.symbols /\ entries' = t.entries /\ index' = t.index
  <2>1. RegisterMoments(moments)
    BY DEF NewMatrix
  <2> HIDE DEF moments
  <2> QED BY <2>1, RegisterMomentsUnfolds
<1>4. Len(moments) \in Nat /\ \A i \in 1..Len(moments) : IsRegistrable(ctx, moments[i])
  <2>1. Len(words) \in Nat /\ DOMAIN words = 1..Len(words) /\ \A i \in 1..Len(words) : words[i] \in Seq(OperatorsOf(ctx))
    BY <1>1
  <2>2. DOMAIN moments = 1..Len(words)
        /\ \A i \in 1..Len(words) : moments[i] = CanonicalMoment(ctx, SimplifyWord(ctx, words[i]))
    BY <2>1
  <2>3. Len(moments) = Len(words)
    BY <2>1
  <2> HIDE DEF moments, ctx
  <2> QED BY <1>1, <2>1, <2>2, <2>3, WordsAreRegistrable
<1> HIDE DEF moments
<1>5. AddsSome(ctx, symbols, N, pushed)
  BY <1>2, <1>4, MomentsAdded
<1> HIDE DEF pushed
<1>6. PICK M : Adds(ctx, symbols, N, pushed, M)
  BY <1>5 DEF AddsSome
<1>7. /\ AreSymbols(ctx, pushed, M) /\ N <= M /\ Continues(symbols, N, pushed)
      /\ \A k \in N..(M - 1) : pushed[k] # Product
  BY <1>6 DEF Adds
<1>8. AreListed(ctx, pushed, entries, index, N)
  BY <1>2, <1>7, ListingStays, N <= N, N \in Nat DEF AreSymbols
<1>9. AllListed(ctx, pushed, M, t)
  BY <1>1, <1>7, <1>8, NewSymbolsListed
<1> HIDE DEF t
<1>10. PICK L : Completes(ctx, pushed, M, t.symbols, L) /\ AreListed(ctx, t.symbols, t.entries, t.index, L)
  BY <1>9 DEF AllListed
<1>11. AreSymbols(ctx, t.symbols, L) /\ M <= L /\ Continues(pushed, M, t.symbols)
  BY <1>10 DEF Completes
<1>12. N <= L /\ \A k \in 0..(N - 1) : k \in 0..(M - 1)
  BY <1>2, <1>7, <1>11 DEF AreSymbols
<1>13. Continues(symbols, N, t.symbols)
  BY <1>7, <1>11, <1>12 DEF Continues
<1> QED BY <1>2, <1>3, <1>10, <1>11, <1>12, <1>13

LEMMA ProductIsListed ==
  ASSUME ListedInv, NEW a \in Ids, NEW b \in Ids \cap Operands, NewProduct(a, b)
  PROVE  \E N : /\ AreSymbols(Context, symbols, N) /\ Continues(symbols, N, symbols')
                /\ \E M : /\ N <= M /\ AreSymbols(Context, symbols', M)
                          /\ AreListed(Context, symbols', entries', index', M)
<1> DEFINE ctx   == Context
           joint == CombineFactors(entries[a].canonical, entries[b].canonical)
<1>1. PICK N : AreSymbols(ctx, symbols, N) /\ AreListed(ctx, symbols, entries, index, N)
  BY DEF ListedInv, Listed, NewProduct
<1>2. N \in Nat /\ DOMAIN symbols = 0..(N - 1) /\ N <= N + 1 /\ N <= N
  BY <1>1 DEF AreSymbols
<1>3. /\ a \in 0..(N - 1) /\ b \in 0..(N - 1) /\ a # Zero /\ b # Zero
      /\ joint \notin DOMAIN index
      /\ symbols' = Pushed(symbols, Product) /\ entries' = Pushed(entries, Entry(joint))
      /\ index' = With(index, joint, N)
  <2>1. NextId(symbols) = N
    BY <1>2, TableSize
  <2>2. a # Zero
    <3>1. a \in Operands \/ symbols[a].kind = "moment"
      BY DEF NewProduct, RegisterProduct
    <3>2. symbols[Zero].kind = "zero"
      BY <1>1, KindsDiffer DEF AreSymbols
    <3> QED BY <3>1, <3>2, BoundsAssumption
  <2>3. b # Zero
    BY BoundsAssumption
  <2> QED BY <1>2, <2>1, <2>2, <2>3 DEF NewProduct, RegisterProduct, Ids
<1> HIDE DEF ctx
<1>4. IsList(ctx, Pushed(symbols, Product), N, joint)
  BY <1>1, <1>3, ProductListed
<1> HIDE DEF joint
<1>5. AreSymbols(ctx, symbols', N + 1) /\ Continues(symbols, N, symbols')
  BY <1>1, <1>3, PushedSymbols
<1>6. AreListed(ctx, symbols', entries, index, N)
  BY <1>1, <1>2, <1>5, ListingStays
<1>7. AreListed(ctx, symbols', entries', index', N + 1)
  BY <1>3, <1>4, <1>5, <1>6, OneMoreListed
<1> QED BY <1>1, <1>2, <1>5, <1>7 DEF ctx

(* In every state of an inflation system every symbol has its list, and    *)
(* the index finds exactly the lists there are.                            *)
THEOREM AlwaysListed == Spec => []ListedInv
<1>1. Init => ListedInv
  <2> SUFFICES ASSUME Init, IsInflation PROVE Listed
    BY DEF Init, ListedInv
  <2> DEFINE t == OnNewSymbolsAdded(InitialSymbols, <<>>, <<>>)
  <2>1. IsContext(Context)
    BY SystemFacts DEF Init
  <2>2. AllListed(Context, InitialSymbols, 2, t)
    BY <2>1, InitialListed
  <2>3. symbols = t.symbols /\ entries = t.entries /\ index = t.index
    BY DEF Init, InitialTables
  <2> HIDE DEF t
  <2> QED BY <2>2, <2>3 DEF AllListed, Completes, Listed
<1>2. ListedInv /\ [Next]_vars => ListedInv'
  <2> SUFFICES ASSUME ListedInv, [Next]_vars PROVE ListedInv'
    OBVIOUS
  <2>0. scenario' = scenario
    BY DEF Next, NewMatrix, NewProduct, RefreshCollinsGisin, RefreshProbabilityTensor, RefreshFullCorrelator, vars
  <2>1. ASSUME NEW words \in scenario.matrices, NewMatrix(words) PROVE ListedInv'
    <3>1. CASE IsInflation
      <4>1. \E M : AreSymbols(Context, symbols', M) /\ AreListed(Context, symbols', entries', index', M)
        BY <2>1, <3>1, MatrixListed
      <4> QED BY <2>0, <4>1 DEF ListedInv, Listed, IsInflation, Context
    <3>2. CASE ~IsInflation
      BY <2>0, <3>2 DEF ListedInv, IsInflation
    <3> QED BY <3>1, <3>2
  <2>2. ASSUME NEW a \in Ids, NEW b \in Ids \cap Operands, NewProduct(a, b) PROVE ListedInv'
    <3>1. \E M : AreSymbols(Context, symbols', M) /\ AreListed(Context, symbols', entries', index', M)
      BY <2>2, ProductIsListed
    <3> QED BY <2>0, <3>1 DEF ListedInv, Listed, IsInflation, Context
  <2>3. CASE UNCHANGED <<scenario, tables>>
    BY <2>3 DEF ListedInv, Listed, tables, IsInflation, Context
  <2>4. CASE RefreshCollinsGisin \/ RefreshProbabilityTensor \/ RefreshFullCorrelator \/ UNCHANGED vars
    BY <2>3, <2>4 DEF RefreshCollinsGisin, RefreshProbabilityTensor, RefreshFullCorrelator, vars
  <2> QED BY <2>1, <2>2, <2>4 DEF Next
<1> QED BY <1>1, <1>2, PTL DEF Spec

(* What check_for_new_factors and register_new keep, whatever was          *)
(* registered before, in whatever order: each list of factors is sorted,   *)
(* of fundamental symbols, and found by the index; words are canonical and *)
(* unique.                                                                 *)
THEOREM ListsStayCanonical == Spec => []ListsAreCanonical
<1>1. ListedInv => ListsAreCanonical
  <2> SUFFICES ASSUME ListedInv, IsInflation PROVE ListsAreCanonical
    BY DEF ListsAreCanonical
  <2> DEFINE ctx == Context
  <2>1. PICK N : AreSymbols(ctx, symbols, N) /\ AreListed(ctx, symbols, entries, index, N)
    BY DEF ListedInv, Listed
  <2>2. DOMAIN entries = 0..(N - 1) /\ Ids = 0..(N - 1)
    BY <2>1 DEF AreSymbols, AreListed, Ids
  <2> HIDE DEF ctx
  <2>3. ASSUME NEW id \in Ids
        PROVE  LET list == entries[id].canonical
               IN  /\ IsSorted(list, =<)
                   /\ \A i \in DOMAIN list : entries[list[i]].canonical = <<list[i]>>
                   /\ list \in DOMAIN index /\ entries[index[list]].canonical = list
                   /\ ~CanBeSimplified(ctx, symbols[id].word)
                   /\ symbols[id].kind = "product" \/ \A k \in Ids \ {id} : symbols[k] # symbols[id]
    <3> DEFINE list == entries[id].canonical
    <3>1. IsList(ctx, symbols, id, list) /\ list \in DOMAIN index /\ entries[index[list]].canonical = list
      BY <2>1, <2>2 DEF AreListed
    <3> HIDE DEF list
    <3>2. IsSorted(list, =<)
      <4>1. DOMAIN list = 1..Len(list) /\ InOrder(list)
        BY <3>1 DEF IsList
      <4> QED BY <4>1 DEF IsSorted, InOrder
    <3>3. ASSUME NEW i \in DOMAIN list PROVE entries[list[i]].canonical = <<list[i]>>
      <4> DEFINE x == list[i]
      <4>1. x \in 0..(N - 1) /\ Atom(ctx, symbols, x)
        BY <2>2, <3>1 DEF IsList, Ids
      <4> QED BY <2>1, <4>1 DEF AreListed, IsList
    <3>4. ~CanBeSimplified(ctx, symbols[id].word)
      <4>1. CASE symbols[id].word = <<>>
        <5>1. DOMAIN <<>> = {}
          OBVIOUS
        <5> QED BY <4>1, <5>1 DEF CanBeSimplified
      <4>2. CASE IsCanonical(ctx, symbols[id])
        BY <4>2, KindsDiffer DEF IsCanonical, Canonical
      <4> QED BY <2>1, <2>2, <4>1, <4>2 DEF AreSymbols, Product, ZeroMoment
    <3>5. symbols[id].kind = "product" \/ \A k \in Ids \ {id} : symbols[k] # symbols[id]
      BY <2>1, <2>2 DEF AreSymbols, Product
    <3> QED BY <3>1, <3>2, <3>3, <3>4, <3>5 DEF list
  <2> QED BY <2>2, <2>3 DEF ListsAreCanonical, ctx
<1> QED BY <1>1, AlwaysListed, PTL

-----------------------------------------------------------------------------
(* The parts of a word and those of its moment.                            *)

LEMMA PartsAreIndependent ==
  ASSUME NEW ctx, NEW n \in Nat, NEW word, DOMAIN word = 1..n
  PROVE  IndependentParts(ctx, word) = PartsOf(ctx, word)
<1> DEFINE D == 1..n
           Hear(part) == UNION {Connected(ctx, word[i]) : i \in part}
           Is(part) == part # {} /\ IsPart(ctx, word, part)
           Separate == {part \in SUBSET D : Hear(part) \cap Hear(D \ part) = {}}
<1>1. ASSUME NEW part \in SUBSET D PROVE part \in Separate <=> IsPart(ctx, word, part)
  <2>1. ASSUME Hear(part) \cap Hear(D \ part) = {}, NEW i \in part, NEW j \in D, Linked(ctx, word[i], word[j])
        PROVE  j \in part
    <3>1. PICK x : x \in Connected(ctx, word[i]) /\ x \in Connected(ctx, word[j])
      BY <2>1 DEF Linked
    <3> SUFFICES ASSUME j \notin part PROVE FALSE
      OBVIOUS
    <3>2. x \in Hear(part) /\ x \in Hear(D \ part)
      BY <2>1, <3>1
    <3> HIDE DEF Hear
    <3> QED BY <2>1, <3>2
  <2>2. ASSUME IsPart(ctx, word, part), NEW x \in Hear(part) \cap Hear(D \ part) PROVE FALSE
    <3>1. PICK i \in part : x \in Connected(ctx, word[i])
      BY <2>2
    <3>2. PICK j \in D \ part : x \in Connected(ctx, word[j])
      BY <2>2
    <3>3. Linked(ctx, word[i], word[j])
      BY <3>1, <3>2 DEF Linked
    <3> QED BY <2>2, <3>2, <3>3 DEF IsPart
  <2> HIDE DEF Hear
  <2> QED BY <2>1, <2>2 DEF IsPart
<1>2. IndependentParts(ctx, word) =
        {part \in Separate \ {{}} : \A other \in Separate \ {{}, part} : ~(other \subseteq part)}
  BY DEF IndependentParts
<1>3. \A part : part \in Separate \ {{}} <=> Is(part) /\ part \in SUBSET D
  <2>1. \A part \in Separate : part \in SUBSET D
    OBVIOUS
  <2> HIDE DEF Separate
  <2> QED BY <1>1, <2>1
<1>4. Cover(ctx, word, n) /\ \A i \in D : /\ IsPart(ctx, word, Grown(ctx, word, i))
                                          /\ \A C : IsPart(ctx, word, C) /\ i \in C => Grown(ctx, word, i) \subseteq C
  BY PartsCover, GrownIsPart
<1>5. \A i \in D : /\ Grown(ctx, word, i) \in SUBSET D /\ Is(Grown(ctx, word, i))
                   /\ \A j \in Grown(ctx, word, i) : Grown(ctx, word, j) = Grown(ctx, word, i)
  BY <1>4 DEF Cover
<1> HIDE DEF Separate
<1>6. ASSUME NEW i \in D PROVE Grown(ctx, word, i) \in IndependentParts(ctx, word)
  <2> DEFINE C == Grown(ctx, word, i)
  <2>1. C \in Separate \ {{}}
    BY <1>3, <1>5
  <2>2. ASSUME NEW other \in Separate \ {{}, C}, other \subseteq C PROVE FALSE
    <3>1. Is(other) /\ other \in SUBSET D
      BY <1>3
    <3>2. PICK j \in other : j \in D /\ j \in C
      BY <2>2, <3>1
    <3>3. Grown(ctx, word, j) \subseteq other /\ Grown(ctx, word, j) = C
      BY <1>4, <1>5, <3>1, <3>2
    <3> HIDE DEF C
    <3> QED BY <2>2, <3>3
  <2> HIDE DEF C
  <2>3. C \in IndependentParts(ctx, word)
    BY <1>2, <2>1, <2>2
  <2> QED BY <2>3 DEF C
<1>7. ASSUME NEW part \in IndependentParts(ctx, word) PROVE \E i \in D : part = Grown(ctx, word, i)
  <2>1. part \in Separate \ {{}} /\ \A other \in Separate \ {{}, part} : ~(other \subseteq part)
    BY <1>2
  <2>2. Is(part) /\ part \in SUBSET D
    BY <1>3, <2>1
  <2>3. PICK i \in D : i \in part
    BY <2>2
  <2>4. Grown(ctx, word, i) \subseteq part /\ Grown(ctx, word, i) \in Separate \ {{}}
    BY <1>3, <1>4, <1>5, <2>2, <2>3
  <2> QED BY <2>1, <2>4
<1> QED BY <1>6, <1>7 DEF PartsOf

LEMMA LinkedMeans ==
  ASSUME NEW ctx, NEW k, NEW l
  PROVE  Linked(ctx, k, l) <=>
           \E s \in DOMAIN CopiesHeard(ctx, k) :
             s \in DOMAIN CopiesHeard(ctx, l) /\ CopiesHeard(ctx, k)[s] = CopiesHeard(ctx, l)[s]
<1> DEFINE K == CopiesHeard(ctx, k)
           L == CopiesHeard(ctx, l)
<1>1. Connected(ctx, k) = {<<s, K[s]>> : s \in DOMAIN K} /\ Connected(ctx, l) = {<<s, L[s]>> : s \in DOMAIN L}
  BY DEF Connected, CopiesHeard
<1> HIDE DEF K, L
<1>2. ASSUME NEW x \in Connected(ctx, k), x \in Connected(ctx, l) PROVE \E s \in DOMAIN K : s \in DOMAIN L /\ K[s] = L[s]
  <2>1. PICK s \in DOMAIN K : x = <<s, K[s]>>
    BY <1>1
  <2>2. PICK t \in DOMAIN L : x = <<t, L[t]>>
    BY <1>1, <1>2
  <2> QED BY <2>1, <2>2
<1>3. ASSUME NEW s \in DOMAIN K, s \in DOMAIN L, K[s] = L[s] PROVE Linked(ctx, k, l)
  <2>1. <<s, K[s]>> \in Connected(ctx, k) /\ <<s, K[s]>> \in Connected(ctx, l)
    BY <1>1, <1>3
  <2> QED BY <2>1 DEF Linked
<1> QED BY <1>2, <1>3 DEF Linked, K, L

\* A relabelling neither makes nor breaks links.
LEMMA LinksStay ==
  ASSUME NEW ctx, IsContext(ctx), NEW r \in Relabellings(ctx),
         NEW k \in OperatorsOf(ctx), NEW k2, Sends(ctx, r, k, k2),
         NEW l \in OperatorsOf(ctx), NEW l2, Sends(ctx, r, l, l2)
  PROVE  Linked(ctx, k2, l2) <=> Linked(ctx, k, l)
<1> DEFINE K == CopiesHeard(ctx, k)
           L == CopiesHeard(ctx, l)
<1>1. /\ DOMAIN CopiesHeard(ctx, k2) = DOMAIN K
      /\ \A s \in DOMAIN K : CopiesHeard(ctx, k2)[s] = IF s \in Explicit(ctx) THEN r[s][K[s]] ELSE K[s]
  BY DEF Sends
<1>2. /\ DOMAIN CopiesHeard(ctx, l2) = DOMAIN L
      /\ \A s \in DOMAIN L : CopiesHeard(ctx, l2)[s] = IF s \in Explicit(ctx) THEN r[s][L[s]] ELSE L[s]
  BY DEF Sends
<1>3. (\A s \in DOMAIN K : K[s] \in CopiesOf(ctx)) /\ \A s \in DOMAIN L : L[s] \in CopiesOf(ctx)
  BY ContextFacts DEF CopiesOf
<1>4. \A s \in Explicit(ctx) : \A c, d \in CopiesOf(ctx) : r[s][c] = r[s][d] => c = d
  BY RelabellingFacts
<1> HIDE DEF K, L
<1>5. \A s \in DOMAIN K : s \in DOMAIN L => (CopiesHeard(ctx, k2)[s] = CopiesHeard(ctx, l2)[s] <=> K[s] = L[s])
  BY <1>1, <1>2, <1>3, <1>4
<1>6. Linked(ctx, k, l) <=> \E s \in DOMAIN K : s \in DOMAIN L /\ K[s] = L[s]
  BY LinkedMeans DEF K, L
<1> QED BY <1>1, <1>2, <1>5, <1>6, LinkedMeans

\* The places to which some places go.
Moved(at, part) == {at[i] : i \in part}

LEMMA GrownMoves ==
  ASSUME NEW ctx, IsContext(ctx), NEW n \in Nat, NEW u \in WordsOf(ctx, n), NEW v \in WordsOf(ctx, n), NEW r, NEW at,
         Matches(ctx, n, u, v, r, at), NEW i \in 1..n
  PROVE  Grown(ctx, v, at[i]) = Moved(at, Grown(ctx, u, i))
<1> DEFINE D == 1..n
           C == Grown(ctx, u, i)
           j == at[i]
           E == {k \in D : at[k] \in Grown(ctx, v, j)}
<1>1. DOMAIN u = D /\ DOMAIN v = D /\ \A k \in D : u[k] \in OperatorsOf(ctx)
  BY WordsAreLists
<1>2. /\ at \in [D -> D] /\ (\A x, y \in D : at[x] = at[y] => x = y) /\ \A y \in D : \E x \in D : at[x] = y
  <2>1. at \in Bijection(D, D)
    BY DEF Matches
  <2> HIDE DEF D
  <2> QED BY <2>1, BijectionFacts
<1>3. ASSUME NEW k \in D, NEW l \in D PROVE Linked(ctx, v[at[k]], v[at[l]]) <=> Linked(ctx, u[k], u[l])
  <2>1. r \in Relabellings(ctx) /\ Sends(ctx, r, u[k], v[at[k]]) /\ Sends(ctx, r, u[l], v[at[l]])
    BY DEF Matches
  <2>2. u[k] \in OperatorsOf(ctx) /\ u[l] \in OperatorsOf(ctx)
    BY <1>1
  <2> QED BY <2>1, <2>2, LinksStay
<1>4. IsPart(ctx, u, C) /\ i \in C /\ \A B : IsPart(ctx, u, B) /\ i \in B => C \subseteq B
  BY <1>1, GrownIsPart
<1>5. j \in D
  BY <1>2
<1> HIDE DEF j
<1>6. IsPart(ctx, v, Grown(ctx, v, j)) /\ j \in Grown(ctx, v, j)
      /\ \A B : IsPart(ctx, v, B) /\ j \in B => Grown(ctx, v, j) \subseteq B
  BY <1>1, <1>5, GrownIsPart
<1> DEFINE G == Grown(ctx, v, j)
<1> HIDE DEF C, G
<1>7. IsPart(ctx, v, Moved(at, C)) /\ j \in Moved(at, C)
  <2>1. ASSUME NEW a \in Moved(at, C), NEW b \in D, Linked(ctx, v[a], v[b]) PROVE b \in Moved(at, C)
    <3>1. PICK k \in C : a = at[k]
      BY DEF Moved
    <3>2. PICK l \in D : b = at[l]
      BY <1>2
    <3>3. k \in D
      BY <1>1, <1>4 DEF IsPart
    <3>4. Linked(ctx, u[k], u[l])
      BY <1>3, <2>1, <3>1, <3>2, <3>3
    <3>5. l \in C
      BY <1>1, <1>4, <3>2, <3>4 DEF IsPart
    <3> QED BY <3>2, <3>5 DEF Moved
  <2>2. Moved(at, C) \in SUBSET D
    BY <1>1, <1>2, <1>4 DEF IsPart, Moved
  <2>3. j \in Moved(at, C)
    BY <1>4 DEF Moved, j
  <2> HIDE DEF D
  <2> QED BY <1>1, <2>1, <2>2, <2>3 DEF IsPart
<1>8. IsPart(ctx, u, E) /\ i \in E
  <2>1. ASSUME NEW k \in E, NEW l \in D, Linked(ctx, u[k], u[l]) PROVE l \in E
    <3>1. k \in D /\ at[k] \in G
      BY DEF G
    <3>2. Linked(ctx, v[at[k]], v[at[l]]) /\ at[l] \in D
      BY <1>2, <1>3, <2>1, <3>1
    <3>3. at[l] \in G
      BY <1>1, <1>6, <3>1, <3>2 DEF IsPart, G
    <3> QED BY <3>3 DEF G
  <2>2. E \in SUBSET D
    OBVIOUS
  <2>3. i \in E
    BY <1>6 DEF j
  <2> HIDE DEF D, E
  <2> QED BY <1>1, <2>1, <2>2, <2>3 DEF IsPart
<1>9. C \subseteq E
  BY <1>4, <1>8
<1>10. Moved(at, C) \subseteq G
  BY <1>9 DEF Moved, G
<1>11. G \subseteq Moved(at, C)
  BY <1>6, <1>7 DEF G
<1> QED BY <1>10, <1>11 DEF C, G, j

LEMMA PermutationRestricts ==
  ASSUME NEW D, NEW at \in Bijection(D, D), NEW part \in SUBSET D
  PROVE  [k \in part |-> at[k]] \in Bijection(part, Moved(at, part))
<1> DEFINE f == [k \in part |-> at[k]]
<1>1. at \in [D -> D] /\ \A x, y \in D : at[x] = at[y] => x = y
  BY BijectionFacts
<1>2. \A k \in part : f[k] = at[k]
  OBVIOUS
<1>3. f \in [part -> Moved(at, part)]
  BY DEF Moved
<1> HIDE DEF f
<1>4. \A x, y \in part : f[x] = f[y] => x = y
  BY <1>1, <1>2
<1>5. \A y \in Moved(at, part) : \E x \in part : f[x] = y
  BY <1>2 DEF Moved
<1>6. f \in Bijection(part, Moved(at, part))
  BY <1>3, <1>4, <1>5, BijectionFacts
<1> QED BY <1>6 DEF f

\* What is taken from a word, and from the same places of the word relabelled.
LEMMA SubsequencesSimilar ==
  ASSUME NEW ctx, IsContext(ctx), NEW n \in Nat, NEW u \in WordsOf(ctx, n), NEW v \in WordsOf(ctx, n), NEW r, NEW at,
         Matches(ctx, n, u, v, r, at), NEW part \in SUBSET (1..n)
  PROVE  Similar(ctx, Subsequence(u, part), Subsequence(v, Moved(at, part)))
<1> DEFINE D  == 1..n
           to == Moved(at, part)
           m  == Cardinality(part)
           P  == 1..m
           su == Subsequence(u, part)
           sv == Subsequence(v, to)
           f  == [k \in part |-> at[k]]
<1>1. at \in Bijection(D, D) /\ r \in Relabellings(ctx) /\ \A k \in D : Sends(ctx, r, u[k], v[at[k]])
  BY DEF Matches
<1>2. IsFiniteSet(part)
  <2>1. IsFiniteSet(D)
    BY FS_Interval
  <2>2. part \in SUBSET D
    OBVIOUS
  <2> HIDE DEF D
  <2> QED BY <2>1, <2>2, FS_Subset
<1>3. f \in Bijection(part, to)
  <2> HIDE DEF D, f
  <2>1. part \in SUBSET D
    BY DEF D
  <2>2. [k \in part |-> at[k]] \in Bijection(part, Moved(at, part))
    BY <1>1, <2>1, PermutationRestricts
  <2> QED BY <2>2 DEF f
<1>4. \A k \in part : f[k] = at[k]
  OBVIOUS
<1> HIDE DEF f
<1>5. to \in SUBSET D
  <2>1. part \in SUBSET D
    OBVIOUS
  <2> HIDE DEF D
  <2>2. at \in [D -> D]
    BY <1>1, BijectionFacts
  <2> QED BY <2>1, <2>2 DEF Moved
<1>6. m \in Nat /\ Cardinality(to) = m
  <2> HIDE DEF to
  <2>1. ExistsBijection(part, to)
    BY <1>3 DEF ExistsBijection
  <2> QED BY <1>2, <2>1, FS_Bijection, FS_CardinalityType
<1>7. PICK a : Keeps(u, part, a)
  BY SubsequenceOf
<1>8. PICK b : Keeps(v, to, b)
  <2> HIDE DEF to
  <2> QED BY <1>5, SubsequenceOf
<1>9. a \in Bijection(P, part) /\ su = [k \in P |-> u[a[k]]]
  BY <1>7 DEF Keeps
<1>10. b \in Bijection(P, to) /\ sv = [k \in P |-> v[b[k]]]
  <2> HIDE DEF to
  <2> QED BY <1>6, <1>8 DEF Keeps
<1> HIDE DEF to, su, sv, P
<1>11. PICK back \in Bijection(to, P) : \A y \in to : b[back[y]] = y
  BY <1>10, BijectionInverse
<1> DEFINE g == [k \in P |-> f[a[k]]]
           c == [k \in P |-> back[g[k]]]
<1>12. g \in Bijection(P, to)
  BY <1>3, <1>9, BijectionsCompose
<1>13. \A k \in P : g[k] = f[a[k]]
  OBVIOUS
<1> HIDE DEF g
<1>14. c \in Bijection(P, P)
  BY <1>11, <1>12, BijectionsCompose
<1>15. \A k \in P : c[k] = back[g[k]]
  OBVIOUS
<1> HIDE DEF c
<1>16. a \in [P -> part] /\ g \in [P -> to] /\ c \in [P -> P] /\ b \in [P -> to]
  BY <1>9, <1>10, <1>12, <1>14, BijectionFacts
<1>17. ASSUME NEW k \in P PROVE Sends(ctx, r, su[k], sv[c[k]])
  <2>1. a[k] \in part /\ a[k] \in D /\ g[k] \in to /\ c[k] \in P
    BY <1>16
  <2>2. b[c[k]] = at[a[k]]
    BY <1>4, <1>11, <1>13, <1>15, <2>1
  <2>3. su[k] = u[a[k]] /\ sv[c[k]] = v[at[a[k]]]
    BY <1>9, <1>10, <2>1, <2>2
  <2> QED BY <1>1, <2>1, <2>3
<1>18. u \in [D -> OperatorsOf(ctx)] /\ v \in [D -> OperatorsOf(ctx)]
  BY DEF WordsOf
<1>19. su \in [P -> OperatorsOf(ctx)] /\ sv \in [P -> OperatorsOf(ctx)]
  <2>1. \A k \in P : u[a[k]] \in OperatorsOf(ctx) /\ v[b[k]] \in OperatorsOf(ctx)
    <3>1. part \in SUBSET D
      OBVIOUS
    <3> HIDE DEF D
    <3> QED BY <1>5, <1>16, <1>18, <3>1
  <2> QED BY <1>9, <1>10, <2>1
<1>20. Matches(ctx, m, su, sv, r, c)
  BY <1>1, <1>14, <1>17 DEF Matches, P
<1>21. Alike(ctx, m, su, sv)
  BY <1>19, <1>20 DEF Alike, WordsOf, P
<1> QED BY <1>6, <1>21 DEF Similar, su, sv, to

\* Different places go to different places.
LEMMA MovedApart ==
  ASSUME NEW D, NEW at \in Bijection(D, D), NEW A \in SUBSET D, NEW B \in SUBSET D, Moved(at, A) = Moved(at, B)
  PROVE  A = B
<1>1. \A x, y \in D : at[x] = at[y] => x = y
  BY BijectionFacts
<1>2. ASSUME NEW X \in SUBSET D, NEW Y \in SUBSET D, Moved(at, X) \subseteq Moved(at, Y), NEW x \in X PROVE x \in Y
  <2>1. at[x] \in Moved(at, Y)
    BY <1>2 DEF Moved
  <2>2. PICK y \in Y : at[y] = at[x]
    BY <2>1 DEF Moved
  <2> QED BY <1>1, <2>2
<1> QED BY <1>2

(* The parts of a word go to those of the word relabelled.                 *)
LEMMA PartsMove ==
  ASSUME NEW ctx, IsContext(ctx), NEW n \in Nat, NEW u \in WordsOf(ctx, n), NEW v \in WordsOf(ctx, n), NEW r, NEW at,
         Matches(ctx, n, u, v, r, at)
  PROVE  [p \in PartsOf(ctx, u) |-> Moved(at, p)] \in Bijection(PartsOf(ctx, u), PartsOf(ctx, v))
<1> DEFINE D == 1..n
           S == PartsOf(ctx, u)
           T == PartsOf(ctx, v)
           f == [p \in S |-> Moved(at, p)]
<1>1. DOMAIN u = D /\ DOMAIN v = D
  BY WordsAreLists
<1>2. at \in Bijection(D, D)
  BY DEF Matches
<1>3. \A i \in D : Grown(ctx, v, at[i]) = Moved(at, Grown(ctx, u, i))
  BY GrownMoves
<1>4. \A i \in D : Grown(ctx, u, i) \in SUBSET D
  BY <1>1, PartsCover DEF Cover
<1>5. S = {Grown(ctx, u, i) : i \in D} /\ T = {Grown(ctx, v, i) : i \in D}
  BY <1>1 DEF PartsOf
<1> HIDE DEF D, S, T
<1>6. at \in [D -> D] /\ \A y \in D : \E x \in D : at[x] = y
  BY <1>2, BijectionFacts
<1>7. \A p \in S : f[p] = Moved(at, p)
  OBVIOUS
<1>8. f \in [S -> T]
  <2>1. ASSUME NEW p \in S PROVE Moved(at, p) \in T
    <3>1. PICK i \in D : p = Grown(ctx, u, i)
      BY <1>5
    <3>2. Moved(at, p) = Grown(ctx, v, at[i]) /\ at[i] \in D
      BY <1>3, <1>6, <3>1
    <3> QED BY <1>5, <3>2
  <2> QED BY <2>1
<1> HIDE DEF f
<1>9. \A p, q \in S : f[p] = f[q] => p = q
  <2>1. \A p \in S : p \in SUBSET D
    BY <1>4, <1>5
  <2> QED BY <1>2, <1>7, <2>1, MovedApart
<1>10. \A q \in T : \E p \in S : f[p] = q
  <2> TAKE q \in T
  <2>1. PICK j \in D : q = Grown(ctx, v, j)
    BY <1>5
  <2>2. PICK i \in D : at[i] = j
    BY <1>6
  <2>3. Grown(ctx, u, i) \in S /\ Moved(at, Grown(ctx, u, i)) = q
    BY <1>3, <1>5, <2>1, <2>2
  <2> QED BY <1>7, <2>3
<1>11. f \in Bijection(S, T)
  BY <1>8, <1>9, <1>10, BijectionFacts
<1> QED BY <1>11 DEF f, S, T

(* Moments that divide the relabelled word divide the word.                *)
LEMMA DivisionCarries ==
  ASSUME NEW ctx, IsContext(ctx), NEW n \in Nat, NEW u, NEW v, Alike(ctx, n, u, v),
         NEW N, NEW moments, DividesInto(ctx, v, N, moments)
  PROVE  DividesInto(ctx, u, N, moments)
<1> DEFINE Q == 1..N
           S == PartsOf(ctx, u)
           T == PartsOf(ctx, v)
<1>1. u \in WordsOf(ctx, n) /\ v \in WordsOf(ctx, n)
  BY DEF Alike
<1>2. PICK r, at : Matches(ctx, n, u, v, r, at)
  BY DEF Alike
<1>3. PICK part : IsDivision(ctx, v, N, moments, part)
  BY DEF DividesInto
<1>4. part \in Bijection(Q, T) /\ \A i \in Q : \E w : moments[i] = Moment(w) /\ Similar(ctx, Subsequence(v, part[i]), w)
  BY <1>3 DEF IsDivision
<1>5. \A p \in S : Similar(ctx, Subsequence(u, p), Subsequence(v, Moved(at, p)))
  <2> TAKE p \in S
  <2>1. DOMAIN u = 1..n
    BY <1>1, WordsAreLists
  <2>2. Cover(ctx, u, n)
    BY <2>1, PartsCover
  <2>3. p \in SUBSET (1..n)
    BY <2>1, <2>2 DEF PartsOf, Cover
  <2> QED BY <1>1, <1>2, <2>3, SubsequencesSimilar
<1> DEFINE f == [p \in S |-> Moved(at, p)]
<1>6. f \in Bijection(S, T)
  BY <1>1, <1>2, PartsMove
<1>7. \A p \in S : f[p] = Moved(at, p)
  OBVIOUS
<1> HIDE DEF Q, S, T, f
<1>8. PICK back \in Bijection(T, S) : \A q \in T : f[back[q]] = q
  BY <1>6, BijectionInverse
<1> DEFINE taken == [i \in Q |-> back[part[i]]]
<1>9. taken \in Bijection(Q, S)
  BY <1>4, <1>8, BijectionsCompose
<1>10. \A i \in Q : taken[i] = back[part[i]]
  OBVIOUS
<1> HIDE DEF taken
<1>11. ASSUME NEW i \in Q PROVE \E w : moments[i] = Moment(w) /\ Similar(ctx, Subsequence(u, taken[i]), w)
  <2>1. part[i] \in T /\ taken[i] \in S
    BY <1>4, <1>9, BijectionFacts
  <2>2. Moved(at, taken[i]) = part[i]
    BY <1>7, <1>8, <1>10, <2>1
  <2>3. PICK w : moments[i] = Moment(w) /\ Similar(ctx, Subsequence(v, part[i]), w)
    BY <1>4
  <2>4. Similar(ctx, Subsequence(u, taken[i]), Subsequence(v, part[i]))
    BY <1>5, <2>1, <2>2
  <2> QED BY <2>3, <2>4, SimilarOn
<1>12. IsDivision(ctx, u, N, moments, taken)
  BY <1>9, <1>11 DEF IsDivision, Q, S
<1> QED BY <1>12 DEF DividesInto

\* As many places are counted as members are put there.
LEMMA MembersCounted ==
  ASSUME NEW N \in Nat, NEW T, NEW part \in Bijection(1..N, T), NEW A \in SUBSET (1..N), NEW B \in SUBSET T,
         \A i \in 1..N : i \in A <=> part[i] \in B
  PROVE  Cardinality(A) = Cardinality(B)
<1> DEFINE Q == 1..N
           f == [i \in A |-> part[i]]
<1>1. IsFiniteSet(Q) /\ A \in SUBSET Q /\ part \in Bijection(Q, T) /\ \A i \in Q : i \in A <=> part[i] \in B
  BY FS_Interval
<1> HIDE DEF Q
<1>2. \A i \in A : f[i] = part[i]
  OBVIOUS
<1>3. (\A x, y \in Q : part[x] = part[y] => x = y) /\ \A y \in T : \E x \in Q : part[x] = y
  BY <1>1, BijectionFacts
<1>4. f \in [A -> B]
  BY <1>1
<1> HIDE DEF f
<1>5. \A x, y \in A : f[x] = f[y] => x = y
  BY <1>1, <1>2, <1>3
<1>6. \A y \in B : \E x \in A : f[x] = y
  BY <1>1, <1>2, <1>3
<1>7. f \in Bijection(A, B)
  BY <1>4, <1>5, <1>6, BijectionFacts
<1>8. IsFiniteSet(A) /\ ExistsBijection(A, B)
  BY <1>1, <1>7, FS_Subset DEF ExistsBijection
<1> QED BY <1>8, FS_Bijection

LEMMA OrbitIsSimilar ==
  ASSUME NEW ctx, IsContext(ctx), NEW m \in Nat, NEW u \in WordsOf(ctx, m), NEW v
  PROVE  v \in Orbit(ctx, u) <=> InOrder(v) /\ Similar(ctx, u, v)
<1>1. ASSUME NEW k \in Nat, Alike(ctx, k, u, v) PROVE k = m
  <2>1. u \in WordsOf(ctx, k)
    BY <1>1 DEF Alike
  <2> QED BY <2>1, WordsAreLists
<1> QED BY <1>1, OrbitMembers DEF Similar

(* The factors of a word are its parts, each as often as it occurs, up to  *)
(* a relabelling.                                                          *)
LEMMA FactorsOfWord ==
  ASSUME NEW ctx, IsContext(ctx), NEW n \in Nat, NEW word, Reduced(ctx, n, word), NEW N \in Nat, NEW moments,
         DividesInto(ctx, word, N, moments), \A i \in 1..N : InOrder(moments[i].word)
  PROVE  /\ N = Cardinality(PartsOf(ctx, word))
         /\ \A p \in PartsOf(ctx, word) :
              LET words == Orbit(ctx, Subsequence(word, p))
              IN  Cardinality({i \in 1..N : moments[i].word \in words})
                    = Cardinality({q \in PartsOf(ctx, word) : Subsequence(word, q) \in words})
<1> DEFINE S == PartsOf(ctx, word)
<1>1. PICK part : IsDivision(ctx, word, N, moments, part)
  BY DEF DividesInto
<1>2. part \in Bijection(1..N, S)
  BY <1>1 DEF IsDivision
<1>3. \A i \in 1..N : Similar(ctx, Subsequence(word, part[i]), moments[i].word)
  BY <1>1, KindsDiffer DEF IsDivision
<1>4. \A p \in S : InOrder(Subsequence(word, p)) /\ \E m \in Nat : Subsequence(word, p) \in WordsOf(ctx, m)
  <2> TAKE p \in S
  <2>1. PICK k \in 1..n : p = Grown(ctx, word, k)
    <3>1. DOMAIN word = 1..n
      BY WordsAreLists DEF Reduced
    <3> QED BY <3>1 DEF PartsOf
  <2>2. IsFactor(ctx, Moment(Subsequence(word, p)))
    BY <2>1, GrownIsFactor
  <2> QED BY <2>2, KindsDiffer DEF IsFactor, Reduced
<1> HIDE DEF S
<1>5. N = Cardinality(S)
  <2>1. 1..N \in SUBSET (1..N) /\ S \in SUBSET S /\ Cardinality(1..N) = N
    BY FirstNumbers
  <2>2. \A i \in 1..N : i \in 1..N <=> part[i] \in S
    <3> DEFINE Q == 1..N
    <3>1. part \in Bijection(Q, S)
      BY <1>2
    <3> HIDE DEF Q
    <3>2. part \in [Q -> S]
      BY <3>1, BijectionFacts
    <3> QED BY <3>2 DEF Q
  <2> QED BY <1>2, <2>1, <2>2, MembersCounted
<1>6. ASSUME NEW p \in S
      PROVE  Cardinality({i \in 1..N : moments[i].word \in Orbit(ctx, Subsequence(word, p))})
               = Cardinality({q \in S : Subsequence(word, q) \in Orbit(ctx, Subsequence(word, p))})
  <2> DEFINE of    == Subsequence(word, p)
             words == Orbit(ctx, of)
             A     == {i \in 1..N : moments[i].word \in words}
             B     == {q \in S : Subsequence(word, q) \in words}
  <2>1. \A w : w \in words <=> InOrder(w) /\ Similar(ctx, of, w)
    <3> HIDE DEF of
    <3>1. \E m \in Nat : of \in WordsOf(ctx, m)
      BY <1>4 DEF of
    <3> QED BY <3>1, OrbitIsSimilar
  <2> HIDE DEF words, of
  <2>2. ASSUME NEW i \in 1..N PROVE i \in A <=> part[i] \in B
    <3>1. part[i] \in S
      <4> DEFINE Q == 1..N
      <4>1. part \in Bijection(Q, S) /\ i \in Q
        BY <1>2
      <4> HIDE DEF Q
      <4> QED BY <4>1, BijectionFacts
    <3> DEFINE w == moments[i].word
               q == Subsequence(word, part[i])
    <3>2. Similar(ctx, q, w) /\ Similar(ctx, w, q) /\ InOrder(w) /\ InOrder(q)
      BY <1>3, <1>4, <3>1, SimilarBack
    <3>3. i \in A <=> Similar(ctx, of, w)
      BY <2>1, <3>2
    <3>4. part[i] \in B <=> Similar(ctx, of, q)
      BY <2>1, <3>1, <3>2
    <3> HIDE DEF w, q
    <3> QED BY <3>2, <3>3, <3>4, SimilarOn
  <2>3. A \in SUBSET (1..N) /\ B \in SUBSET S
    OBVIOUS
  <2> HIDE DEF A, B
  <2>4. Cardinality(A) = Cardinality(B)
    BY <1>2, <2>2, <2>3, MembersCounted
  <2> QED BY <2>4 DEF A, B, words, of
<1> QED BY <1>5, <1>6 DEF S

LEMMA FactorsOfSymbol ==
  ASSUME ListedInv, IsInflation, NEW raw, raw \in UNION {ToSet(words) : words \in scenario.matrices},
         NEW moment, moment = SimplifyWord(Context, raw), moment.kind = "moment", moment.word # <<>>,
         NEW id \in Ids, symbols[id] = CanonicalMoment(Context, moment),
         NEW list, list = entries[id].canonical
  PROVE  \E n \in Nat : /\ Reduced(Context, n, moment.word) /\ Len(list) \in Nat /\ DOMAIN list = 1..Len(list)
                        /\ DividesInto(Context, moment.word, Len(list), [i \in 1..Len(list) |-> symbols[list[i]]])
                        /\ \A i \in 1..Len(list) : InOrder(symbols[list[i]].word)
<1> DEFINE ctx == Context
<1>1. IsContext(ctx) /\ \A words \in scenario.matrices : words \in Seq(Seq(OperatorsOf(ctx)))
  BY SystemFacts DEF ListedInv
<1>2. PICK N : AreSymbols(ctx, symbols, N) /\ AreListed(ctx, symbols, entries, index, N)
  BY DEF ListedInv, Listed
<1> HIDE DEF ctx
<1>3. PICK k \in Nat : raw \in WordsOf(ctx, k)
  <2>1. raw \in Seq(OperatorsOf(ctx))
    BY <1>1 DEF ToSet
  <2>2. Len(raw) \in Nat /\ raw \in [1..Len(raw) -> OperatorsOf(ctx)]
    BY <2>1
  <2> QED BY <2>2 DEF WordsOf
<1>4. moment = SimplifyWord(ctx, raw)
  BY DEF ctx
<1>5. PICK n \in Nat : \E v : moment = Moment(v) /\ Reduced(ctx, n, v)
  BY <1>1, <1>3, <1>4, SimplifiedIsReduced, KindsDiffer
<1> DEFINE w == moment.word
           v == SimplifyAsMoment(ctx, w)
<1>6. moment = Moment(w) /\ Reduced(ctx, n, w)
  BY <1>5, KindsDiffer
<1> HIDE DEF w
<1>7. CanonicalMoment(ctx, moment) = Moment(v) /\ CanonicalFormOf(ctx, n, w, v)
  BY <1>1, <1>6, CanonicalMomentIs
<1> HIDE DEF v
<1>8. Alike(ctx, n, w, v) /\ symbols[id] = Moment(v)
  BY <1>7 DEF CanonicalFormOf, ctx
<1>9. v # <<>>
  <2>1. Len(w) = n /\ Len(v) = n /\ w \in Seq(OperatorsOf(ctx)) /\ w # <<>>
    BY <1>1, <1>8, WordsAreLists DEF Alike, w
  <2> QED BY <2>1
<1>10. id \in 0..(N - 1) /\ DOMAIN symbols = 0..(N - 1)
  BY <1>2 DEF AreSymbols, Ids
<1>11. IsList(ctx, symbols, id, list)
  BY <1>2, <1>10 DEF AreListed
<1>12. DividesInto(ctx, v, Len(list), [i \in 1..Len(list) |-> symbols[list[i]]])
  BY <1>8, <1>9, <1>11 DEF IsList
<1>13. DividesInto(ctx, w, Len(list), [i \in 1..Len(list) |-> symbols[list[i]]])
  BY <1>1, <1>8, <1>12, DivisionCarries
<1>14. list \in Seq(Nat) /\ Len(list) \in Nat /\ DOMAIN list = 1..Len(list)
  BY <1>11 DEF IsList
<1>15. ASSUME NEW i \in 1..Len(list) PROVE InOrder(symbols[list[i]].word)
  <2>1. list[i] \in 0..(N - 1) /\ Atom(ctx, symbols, list[i])
    BY <1>10, <1>11, <1>14 DEF IsList
  <2>2. CASE list[i] = Zero
    BY <1>2, <2>2 DEF AreSymbols, ZeroMoment, InOrder
  <2>3. CASE IsElementary(ctx, symbols[list[i]])
    BY <2>3, KindsDiffer DEF IsElementary, Canonical, Reduced
  <2> QED BY <2>1, <2>2, <2>3 DEF Atom
<1> QED BY <1>6, <1>13, <1>14, <1>15 DEF ctx, w

(* The symbol under which a word of a matrix is found has for its factors  *)
(* the word's independent parts, each up to a relabelling of the copies of *)
(* the sources, and as often as it occurs: check_for_new_factors, which    *)
(* registers the factors that are missing, names the right ones, and       *)
(* neither canonical_moment nor the greedy factorize changes a moment,     *)
(* whatever was registered before.                                         *)
THEOREM FactorsAlwaysMakeTheMoment == Spec => []FactorsMakeTheMoment
<1>1. ListedInv => FactorsMakeTheMoment
  <2> SUFFICES ASSUME ListedInv, IsInflation PROVE FactorsMakeTheMoment
    BY DEF FactorsMakeTheMoment
  <2> SUFFICES ASSUME NEW raw \in UNION {ToSet(words) : words \in scenario.matrices}
               PROVE  LET moment == SimplifyWord(Context, raw)
                          found  == {id \in Ids : symbols[id] = CanonicalMoment(Context, moment)}
                          parts  == IndependentParts(Context, moment.word)
                      IN  moment.kind = "moment" /\ moment.word # <<>> =>
                            \A id \in found :
                              LET list == entries[id].canonical
                                  OfOrbit(words) == Cardinality({i \in DOMAIN list : symbols[list[i]].word \in words})
                              IN  /\ Len(list) = Cardinality(parts)
                                  /\ \A p \in parts :
                                       LET words == Orbit(Context, Subsequence(moment.word, p))
                                       IN  OfOrbit(words) = Cardinality({q \in parts : Subsequence(moment.word, q) \in words})
    BY DEF FactorsMakeTheMoment
  <2> DEFINE moment == SimplifyWord(Context, raw)
             parts  == IndependentParts(Context, moment.word)
  <2>1. ASSUME moment.kind = "moment", moment.word # <<>>, NEW id \in Ids, symbols[id] = CanonicalMoment(Context, moment)
        PROVE  LET list == entries[id].canonical
               IN  /\ Len(list) = Cardinality(parts)
                   /\ \A p \in parts :
                        LET words == Orbit(Context, Subsequence(moment.word, p))
                        IN  Cardinality({i \in DOMAIN list : symbols[list[i]].word \in words})
                              = Cardinality({q \in parts : Subsequence(moment.word, q) \in words})
    <3> DEFINE list == entries[id].canonical
               ctx  == Context
               w    == moment.word
               N    == Len(list)
               ms   == [i \in 1..N |-> symbols[list[i]]]
    <3>1. IsContext(ctx)
      BY SystemFacts DEF ListedInv
    <3>2. PICK n \in Nat : /\ Reduced(ctx, n, w) /\ N \in Nat /\ DOMAIN list = 1..N
                           /\ DividesInto(ctx, w, N, ms)
                           /\ \A i \in 1..N : InOrder(symbols[list[i]].word)
      BY <2>1, FactorsOfSymbol
    <3>3. \A i \in 1..N : ms[i] = symbols[list[i]]
      OBVIOUS
    <3> HIDE DEF ctx, w, N, ms, list, parts
    <3>4. parts = PartsOf(ctx, w)
      <4>1. DOMAIN w = 1..n
        BY <3>1, <3>2, WordsAreLists DEF Reduced
      <4> QED BY <4>1, PartsAreIndependent DEF parts, ctx, w
    <3>5. /\ N = Cardinality(parts)
          /\ \A p \in parts :
               LET words == Orbit(ctx, Subsequence(w, p))
               IN  Cardinality({i \in 1..N : ms[i].word \in words})
                     = Cardinality({q \in parts : Subsequence(w, q) \in words})
      BY <3>1, <3>2, <3>3, <3>4, FactorsOfWord
    <3>6. ASSUME NEW words
          PROVE {i \in 1..N : ms[i].word \in words} = {i \in DOMAIN list : symbols[list[i]].word \in words}
      BY <3>2, <3>3
    <3> QED BY <3>5, <3>6 DEF ctx, w, N, list
  <2> QED BY <2>1
<1> QED BY <1>1, AlwaysListed, PTL

-----------------------------------------------------------------------------
(* Multiplication.                                                         *)

LEMMA SortedPair ==
  ASSUME NEW a \in Nat, NEW b \in Nat
  PROVE  Sorted(<<a, b>>) = IF a < b THEN <<a, b>> ELSE <<b, a>>
<1> DEFINE pair == <<a, b>>
           list == Sorted(pair)
<1>1. pair \in [1..2 -> Int] /\ pair[1] = a /\ pair[2] = b
  <2>1. pair \in [1..2 -> Nat]
    OBVIOUS
  <2> QED BY <2>1
<1> HIDE DEF pair
<1>2. PICK at : Sorts(2, pair, at)
  BY <1>1, SortedList
<1>3. InOrder(list)
  BY <1>1, SortedList
<1>4. /\ list = [k \in 1..2 |-> pair[at[k]]]
      /\ (at[1] = 1 /\ at[2] = 2) \/ (at[1] = 2 /\ at[2] = 1)
  <2>0. at \in [1..2 -> 1..2] /\ \A i, j \in 1..2 : at[i] = at[j] => i = j
    BY <1>2 DEF Sorts, Bijection, Injection, IsInjective
  <2>1. at[1] \in 1..2 /\ at[2] \in 1..2 /\ at[1] # at[2]
    BY <2>0
  <2> QED BY <1>2, <2>1 DEF Sorts
<1> HIDE DEF list
<1>5. list[1] = pair[at[1]] /\ list[2] = pair[at[2]] /\ list[1] <= list[2]
  BY <1>3, <1>4 DEF InOrder
<1>6. \A x, y : [k \in 1..2 |-> IF k = 1 THEN x ELSE y] = <<x, y>>
  OBVIOUS
<1>7. list = <<list[1], list[2]>>
  <2>1. list = [k \in 1..2 |-> IF k = 1 THEN list[1] ELSE list[2]]
    BY <1>4
  <2> QED BY <1>6, <2>1
<1> QED BY <1>1, <1>4, <1>5, <1>7 DEF list, pair

\* Without the first member.
LEMMA SubsequenceTail ==
  ASSUME NEW n \in Nat, NEW list
  PROVE  Subsequence(list, 2..(n + 1)) = [k \in 1..n |-> list[k + 1]]
<1> DEFINE S    == 2..(n + 1)
           keys == [i \in S |-> i]
<1>1. IsFiniteSet(S) /\ Cardinality(S) = n /\ S \in SUBSET Int
  <2>1. IsFiniteSet(S)
    BY FS_Interval, 2 \in Int, n + 1 \in Int
  <2>2. Cardinality(S) = n
    <3>1. Cardinality(S) = IF 2 > n + 1 THEN 0 ELSE (n + 1) - 2 + 1
      BY FS_Interval, 2 \in Int, n + 1 \in Int
    <3> QED BY <3>1
  <2> QED BY <2>1, <2>2
<1>2. keys \in [S -> Int] /\ DOMAIN keys = S /\ \A i \in S : keys[i] = i
  BY <1>1
<1>3. Subsequence(list, S) = Placed(list, Place(keys))
  BY DEF Subsequence
<1> HIDE DEF keys
<1>4. PICK at : Orders(keys, at)
  BY <1>1, <1>2, PlacesAreOrdered
<1>5. Placed(list, Place(keys)) = [k \in 1..Cardinality(S) |-> list[at[k]]]
  BY <1>1, <1>2, <1>4, PlacedInOrder
<1>6. ASSUME NEW i \in S PROVE Place(keys)[i] = i - 1
  <2>1. {j \in DOMAIN keys : keys[j] < keys[i] \/ (keys[j] = keys[i] /\ j <= i)} = 2..i
    BY <1>2
  <2>2. Place(keys)[i] = Cardinality(2..i)
    BY <2>1, <1>2, TableIsFunction DEF Place
  <2>3. Cardinality(2..i) = IF 2 > i THEN 0 ELSE i - 2 + 1
    BY FS_Interval, 2 \in Int, i \in Int
  <2>4. i \in Int /\ i >= 2
    OBVIOUS
  <2> QED BY <2>2, <2>3, <2>4
<1>7. \A k \in 1..n : at[k] = k + 1
  <2>1. \A k \in 1..n : at[k] \in S /\ Place(keys)[at[k]] = k
    BY <1>1, <1>2, <1>4 DEF Orders, Bijection, Injection
  <2>2. \A k \in 1..n : at[k] \in S /\ at[k] - 1 = k
    BY <2>1, <1>6
  <2> QED BY <2>2
<1> QED BY <1>1, <1>3, <1>5, <1>7

\* A list of factors of a symbol that is neither zero nor the identity.
NoOnes(list) == list \in Seq(Nat) /\ list # <<>> /\ InOrder(list) /\ \A i \in DOMAIN list : list[i] \notin {Zero, One}

\* The identity goes to the front.
LEMMA OneLast ==
  ASSUME NEW list, NoOnes(list)
  PROVE  Sorted(list \o <<One>>) = <<One>> \o list
<1> DEFINE n    == Len(list)
           both == list \o <<One>>
           out  == <<One>> \o list
<1>1. list \in Seq(Nat) /\ n \in Nat /\ DOMAIN list = 1..n /\ n + 1 \in Nat /\ One \in Nat /\ One = 1
  BY DEF NoOnes, One
<1>2. /\ both = [i \in 1..(n + 1) |-> IF i = n + 1 THEN One ELSE list[i]]
      /\ out = [i \in 1..(n + 1) |-> IF i = 1 THEN One ELSE list[i - 1]]
  <2>1. both = [i \in 1..(n + 1) |-> IF i = n + 1 THEN One ELSE list[i]]
    <3>1. both \in Seq(Nat) /\ Len(both) = n + 1
      BY <1>1
    <3>2. both = [i \in 1..(n + 1) |-> both[i]]
      BY <3>1
    <3>3. \A i \in 1..(n + 1) : both[i] = IF i = n + 1 THEN One ELSE list[i]
      BY <1>1
    <3> HIDE DEF both
    <3> QED BY <3>2, <3>3
  <2>2. out = [i \in 1..(n + 1) |-> IF i = 1 THEN One ELSE list[i - 1]]
    BY <1>1
  <2> QED BY <2>1, <2>2
<1> HIDE DEF n, both, out
<1>3. \A i \in 1..n : list[i] \in Nat /\ list[i] > One
  BY <1>1 DEF NoOnes, Zero
<1>4. both \in [1..(n + 1) -> Int] /\ DOMAIN both = 1..(n + 1)
  BY <1>1, <1>2, <1>3
<1>5. IsFiniteSet(1..(n + 1)) /\ Cardinality(1..(n + 1)) = n + 1
  BY <1>1, FS_Interval
<1>6. PICK at : Orders(both, at)
  BY <1>4, <1>5, PlacesAreOrdered, 1..(n + 1) \in SUBSET Int
<1>7. Sorted(both) = [k \in 1..(n + 1) |-> both[at[k]]]
  <2> DEFINE S == 1..(n + 1)
  <2>1. S \in SUBSET Int /\ IsFiniteSet(S) /\ both \in [S -> Int] /\ Cardinality(S) = n + 1
    BY <1>4, <1>5
  <2> HIDE DEF S
  <2>2. Placed(both, Place(both)) = [k \in 1..Cardinality(S) |-> both[at[k]]]
    BY <2>1, <1>6, PlacedInOrder
  <2> QED BY <2>1, <2>2 DEF Sorted, SortedBy
<1>8. ASSUME NEW i \in 1..n PROVE Place(both)[i] = i + 1
  <2>1. {j \in DOMAIN both : both[j] < both[i] \/ (both[j] = both[i] /\ j <= i)} = (1..i) \cup {n + 1}
    <3>1. ASSUME NEW j \in 1..n PROVE list[j] \in Int /\ (j < i => list[j] <= list[i]) /\ (i < j => list[i] <= list[j])
      <4>1. list[j] \in Nat
        BY <1>3
      <4>2. \A k, m \in 1..n : k < m => list[k] <= list[m]
        BY <1>1 DEF NoOnes, InOrder
      <4> QED BY <4>1, <4>2
    <3>2. \A j \in 1..n : both[j] = list[j]
      BY <1>1, <1>2
    <3>3. both[n + 1] = One /\ One < list[i]
      BY <1>1, <1>2, <1>3
    <3>4. \A j \in 1..(n + 1) : j = n + 1 \/ j \in 1..n
      BY <1>1
    <3>5. ASSUME NEW j \in 1..(n + 1)
          PROVE  (both[j] < both[i] \/ (both[j] = both[i] /\ j <= i)) <=> (j \in (1..i) \cup {n + 1})
      <4>1. CASE j = n + 1
        BY <3>2, <3>3, <4>1
      <4>2. CASE j \in 1..n
        <5>1. both[j] = list[j] /\ both[i] = list[i] /\ j # n + 1 /\ list[i] \in Int
          BY <1>1, <3>1, <3>2, <4>2
        <5> QED BY <3>1, <4>2, <5>1
      <4> QED BY <3>4, <4>1, <4>2
    <3>6. (1..i) \cup {n + 1} \subseteq 1..(n + 1)
      BY <1>1
    <3> QED BY <1>4, <3>5, <3>6
  <2>2. Place(both)[i] = Cardinality((1..i) \cup {n + 1})
    <3>1. i \in DOMAIN both
      BY <1>1, <1>4
    <3> HIDE DEF both
    <3>2. Place(both)[i] = Cardinality({j \in DOMAIN both : both[j] < both[i] \/ (both[j] = both[i] /\ j <= i)})
      BY <3>1, TableIsFunction DEF Place
    <3> QED BY <2>1, <3>2
  <2>3. IsFiniteSet(1..i) /\ Cardinality(1..i) = i /\ n + 1 \notin 1..i
    BY <1>1, FS_Interval
  <2>4. Cardinality((1..i) \cup {n + 1}) = i + 1
    BY <2>3, FS_AddElement
  <2> QED BY <2>2, <2>4
<1>9. Place(both)[n + 1] = 1
  <2>1. {j \in DOMAIN both : both[j] < both[n + 1] \/ (both[j] = both[n + 1] /\ j <= n + 1)} = {n + 1}
    BY <1>1, <1>2, <1>3, <1>4
  <2>2. Place(both)[n + 1] = Cardinality({n + 1})
    BY <1>1, <1>4, <2>1, TableIsFunction DEF Place
  <2> QED BY <2>2, FS_Singleton
<1>10. \A k \in 1..(n + 1) : at[k] \in 1..(n + 1) /\ Place(both)[at[k]] = k
  BY <1>4, <1>5, <1>6 DEF Orders, Bijection, Injection
<1>11. ASSUME NEW k \in 1..(n + 1) PROVE both[at[k]] = out[k]
  <2>1. \A i \in 1..(n + 1) : i = n + 1 \/ i \in 1..n
    BY <1>1
  <2>2. CASE at[k] = n + 1
    <3>1. k = 1
      BY <1>9, <1>10, <2>2
    <3> QED BY <1>1, <1>2, <2>2, <3>1
  <2>3. CASE at[k] \in 1..n
    <3>1. k = at[k] + 1
      BY <1>8, <1>10, <2>3
    <3>2. k # 1 /\ k - 1 = at[k] /\ at[k] # n + 1
      BY <1>1, <2>3, <3>1
    <3> QED BY <1>1, <1>2, <2>3, <3>2
  <2> QED BY <1>10, <2>1, <2>2, <2>3
<1>12. out = [k \in 1..(n + 1) |-> out[k]]
  BY <1>2
<1>13. Sorted(both) = out
  BY <1>7, <1>11, <1>12
<1> QED BY <1>13 DEF both, out

LEMMA OneFirst ==
  ASSUME NEW list, NoOnes(list)
  PROVE  Sorted(<<One>> \o list) = <<One>> \o list /\ Remaining(<<One>> \o list) = list
<1> DEFINE n    == Len(list)
           out  == <<One>> \o list
<1>1. list \in Seq(Nat) /\ n \in Nat /\ DOMAIN list = 1..n /\ n + 1 \in Nat /\ One \in Nat /\ One = 1
  BY DEF NoOnes, One
<1>2. out = [i \in 1..(n + 1) |-> IF i = 1 THEN One ELSE list[i - 1]] /\ list = [i \in 1..n |-> list[i]]
  BY <1>1
<1> HIDE DEF n, out
<1>3. \A i \in 1..n : list[i] \in Nat /\ list[i] > One
  BY <1>1 DEF NoOnes, Zero
<1>4. \A i \in 2..(n + 1) : i - 1 \in 1..n /\ i \in 1..(n + 1) /\ i # 1
  BY <1>1
<1>5. /\ out[1] = One /\ DOMAIN out = 1..(n + 1)
      /\ \A i \in 2..(n + 1) : out[i] = list[i - 1] /\ out[i] \in Nat /\ out[i] > One
      /\ \A i \in 1..(n + 1) : i = 1 \/ i \in 2..(n + 1)
  BY <1>1, <1>2, <1>3, <1>4
<1>6. out \in [1..(n + 1) -> Int]
  <2>1. \A i \in 1..(n + 1) : out[i] \in Int
    BY <1>1, <1>5
  <2> QED BY <1>2, <2>1
<1>7. InOrder(out)
  <2> SUFFICES ASSUME NEW i \in 1..(n + 1), NEW j \in 1..(n + 1), i < j PROVE out[i] <= out[j]
    BY <1>5 DEF InOrder
  <2>1. j \in 2..(n + 1)
    BY <1>5
  <2>2. CASE i = 1
    BY <1>1, <1>5, <2>1, <2>2
  <2>3. CASE i \in 2..(n + 1)
    <3>1. i - 1 \in 1..n /\ j - 1 \in 1..n /\ i - 1 < j - 1
      BY <1>4, <2>1, <2>3
    <3>2. list[i - 1] <= list[j - 1]
      BY <1>1, <3>1 DEF NoOnes, InOrder
    <3> QED BY <1>5, <2>1, <2>3, <3>2
  <2> QED BY <1>5, <2>2, <2>3
<1>8. Sorted(out) = out
  BY <1>1, <1>6, <1>7, SortedStays
<1>9. {i \in DOMAIN out : out[i] # One} = 2..(n + 1)
  BY <1>1, <1>4, <1>5
<1>10. WithoutOnes(out) = Subsequence(out, 2..(n + 1))
  BY <1>9 DEF WithoutOnes
<1>11. Subsequence(out, 2..(n + 1)) = [k \in 1..n |-> out[k + 1]]
  BY <1>1, SubsequenceTail
<1>12. \A k \in 1..n : out[k + 1] = list[k]
  <2> TAKE k \in 1..n
  <2>1. k + 1 \in 2..(n + 1) /\ (k + 1) - 1 = k
    BY <1>1
  <2> QED BY <1>5, <2>1
<1>13. WithoutOnes(out) = list /\ list # <<>>
  BY <1>2, <1>10, <1>11, <1>12 DEF NoOnes
<1>14. Remaining(out) = list
  BY <1>13 DEF Remaining
<1> QED BY <1>8, <1>14 DEF out

LEMMA OnesAlone ==
  Sorted(<<One>> \o <<One>>) = <<One, One>> /\ Remaining(<<One, One>>) = <<One>>
<1>1. <<One>> \o <<One>> = <<One, One>> /\ Sorted(<<One, One>>) = <<One, One>>
  <2>0. <<One>> \o <<One>> = <<One, One>>
    <3> DEFINE u == <<One>> \o <<One>>
    <3>1. u \in Seq({One}) /\ Len(u) = 2 /\ u[1] = One /\ u[2] = One
      OBVIOUS
    <3> HIDE DEF u
    <3>2. u = <<u[1], u[2]>>
      BY <3>1
    <3> QED BY <3>1, <3>2 DEF u
  <2>1. One \in Nat
    BY DEF One
  <2>2. Sorted(<<One, One>>) = <<One, One>>
    BY <2>1, SortedPair
  <2> QED BY <2>0, <2>2
<1>2. {i \in DOMAIN <<One, One>> : <<One, One>>[i] # One} = {}
  OBVIOUS
<1>3. 2..(0 + 1) = {}
  OBVIOUS
<1>4. WithoutOnes(<<One, One>>) = [k \in 1..0 |-> <<One, One>>[k + 1]]
  <2>1. Subsequence(<<One, One>>, 2..(0 + 1)) = [k \in 1..0 |-> <<One, One>>[k + 1]]
    BY 0 \in Nat, SubsequenceTail, Zenon
  <2> QED BY <1>2, <1>3, <2>1 DEF WithoutOnes
<1>5. WithoutOnes(<<One, One>>) = <<>>
  BY <1>4
<1> QED BY <1>1, <1>5 DEF Remaining

\* Nothing is left out where there are no identities.
LEMMA NothingRemoved ==
  ASSUME NEW list \in Seq(Nat), \A i \in DOMAIN list : list[i] # One
  PROVE  WithoutOnes(list) = list
<1>1. Len(list) \in Nat /\ DOMAIN list = 1..Len(list) /\ list = [i \in 1..Len(list) |-> list[i]]
  OBVIOUS
<1>2. {i \in DOMAIN list : list[i] # One} = 1..Len(list)
  BY <1>1
<1> QED BY <1>1, <1>2, SubsequenceOfAll DEF WithoutOnes

LEMMA MergedWithoutOnes ==
  ASSUME NEW left, NoOnes(left), NEW right, NoOnes(right)
  PROVE  Remaining(Sorted(left \o right)) = Sorted(left \o right)
<1> DEFINE both   == left \o right
           n      == Len(left) + Len(right)
           merged == Sorted(both)
<1>1. left \in Seq(Nat) /\ right \in Seq(Nat) /\ left # <<>>
  BY DEF NoOnes
<1>2. n \in Nat /\ n # 0 /\ both \in Seq(Nat) /\ Len(both) = n /\ DOMAIN both = 1..n
  <2>1. Len(left) \in Nat /\ Len(right) \in Nat /\ Len(left) # 0
    BY <1>1
  <2> QED BY <1>1, <2>1
<1>3. ASSUME NEW i \in 1..n PROVE both[i] \in Nat /\ both[i] # One
  <2>1. CASE i <= Len(left)
    <3>1. i \in DOMAIN left /\ both[i] = left[i]
      BY <1>1, <1>2, <2>1
    <3> QED BY <1>1, <3>1 DEF NoOnes
  <2>2. CASE i > Len(left)
    <3>1. i - Len(left) \in 1..Len(right) /\ both[i] = right[i - Len(left)]
      BY <1>1, <1>2, <2>2
    <3>2. DOMAIN right = 1..Len(right) /\ \A j \in DOMAIN right : right[j] \in Nat /\ right[j] # One
      BY <1>1 DEF NoOnes
    <3> HIDE DEF both, n
    <3> QED BY <3>1, <3>2
  <2> QED BY <1>1, <1>2, <2>1, <2>2
<1> HIDE DEF both, n
<1>4. both \in [1..n -> Int]
  <2>1. both \in [1..n -> Nat]
    BY <1>2, <1>3
  <2> QED BY <2>1
<1>5. PICK at : Sorts(n, both, at)
  BY <1>2, <1>4, SortedList
<1>6. merged = [k \in 1..n |-> both[at[k]]] /\ \A k \in 1..n : at[k] \in 1..n
  BY <1>5 DEF Sorts, Bijection, Injection
<1> HIDE DEF merged
<1>7. DOMAIN merged = 1..n /\ \A k \in 1..n : merged[k] \in Nat /\ merged[k] # One
  BY <1>3, <1>6
<1>8. merged \in Seq(Nat) /\ merged # <<>>
  <2>1. merged \in [1..n -> Nat]
    BY <1>6, <1>7
  <2>2. merged \in Seq(Nat)
    BY <1>2, <2>1
  <2>3. 1 \in DOMAIN merged
    BY <1>2, <1>7
  <2> QED BY <2>2, <2>3
<1>9. WithoutOnes(merged) = merged
  BY <1>7, <1>8, NothingRemoved
<1> QED BY <1>8, <1>9 DEF Remaining, merged, both


\* A loop over two values.
Expanded(expanded, id) == expanded \o (IF Fundamental(id) THEN <<id>> ELSE entries[id].canonical)

LEMMA FundamentalsOfPair ==
  ASSUME NEW a, NEW b
  PROVE  Fundamentals(<<a, b>>) = Expanded(Expanded(<<>>, a), b)
<1> DEFINE pair == <<a, b>>
           Run(f) == f = [k \in 0..Len(pair) |-> IF k = 0 THEN <<>> ELSE Expanded(f[k - 1], pair[k])]
           at == CHOOSE f : Run(f)
           first  == Expanded(<<>>, a)
           second == Expanded(first, b)
<1>1. Len(pair) = 2 /\ pair[1] = a /\ pair[2] = b
  OBVIOUS
<1>2. Fundamentals(pair) = at[Len(pair)]
  BY DEF Fundamentals, LeftFold, Expanded
<1> HIDE DEF pair
<1>3. Run(at)
  <2> DEFINE f == [k \in 0..2 |-> IF k = 0 THEN <<>> ELSE IF k = 1 THEN first ELSE second]
  <2>1. f[0] = <<>> /\ f[1] = first /\ f[2] = second
    OBVIOUS
  <2>2. ASSUME NEW k \in 0..2 PROVE f[k] = IF k = 0 THEN <<>> ELSE Expanded(f[k - 1], pair[k])
    <3>1. k = 0 \/ k = 1 \/ k = 2
      OBVIOUS
    <3>2. 1 - 1 = 0 /\ 2 - 1 = 1
      OBVIOUS
    <3> HIDE DEF f
    <3>3. CASE k = 0
      BY <2>1, <3>3
    <3>4. CASE k = 1
      BY <1>1, <2>1, <3>2, <3>4
    <3>5. CASE k = 2
      BY <1>1, <2>1, <3>2, <3>5
    <3> QED BY <3>1, <3>3, <3>4, <3>5
  <2>3. f = [k \in 0..2 |-> f[k]]
    OBVIOUS
  <2> HIDE DEF f
  <2>4. Run(f)
    BY <1>1, <2>2, <2>3
  <2> HIDE DEF Run
  <2> QED BY <2>4
<1> HIDE DEF at, first, second
<1>4. at[0] = <<>> /\ at[1] = Expanded(at[0], pair[1]) /\ at[2] = Expanded(at[1], pair[2])
  <2>1. 0 \in 0..2 /\ 1 \in 0..2 /\ 2 \in 0..2 /\ 1 - 1 = 0 /\ 2 - 1 = 1
    OBVIOUS
  <2> QED BY <1>1, <1>3, <2>1
<1> QED BY <1>1, <1>2, <1>4 DEF first, second, pair

\* The list of a symbol, as try_multiply gathers it.
LEMMA PairIsExpanded ==
  ASSUME NEW ctx, NEW N, AreSymbols(ctx, symbols, N), AreListed(ctx, symbols, entries, index, N),
         NEW a \in 0..(N - 1), NEW b \in 0..(N - 1)
  PROVE  Fundamentals(<<a, b>>) = entries[a].canonical \o entries[b].canonical
<1>1. ASSUME NEW id \in 0..(N - 1)
      PROVE  /\ entries[id].canonical \in Seq(Nat)
             /\ entries[id].canonical = IF Fundamental(id) THEN <<id>> ELSE entries[id].canonical
  <2> DEFINE list == entries[id].canonical
  <2>1. list \in Seq(Nat) /\ list # <<>> /\ (Len(list) = 1 => list = <<id>>)
    BY DEF AreListed, IsList
  <2> HIDE DEF list
  <2>2. Len(list) <= 1 => list = <<id>>
    <3>1. Len(list) \in Nat \ {0}
      BY <2>1
    <3>2. \A n \in Nat \ {0} : n <= 1 => n = 1
      OBVIOUS
    <3> QED BY <2>1, <3>1, <3>2
  <2> QED BY <2>1, <2>2 DEF Fundamental, list
<1>2. Expanded(<<>>, a) = entries[a].canonical
  <2>1. Expanded(<<>>, a) = <<>> \o entries[a].canonical
    BY <1>1 DEF Expanded
  <2>2. \A s \in Seq(Nat) : <<>> \o s = s
    OBVIOUS
  <2> QED BY <1>1, <2>1, <2>2
<1>3. Expanded(entries[a].canonical, b) = entries[a].canonical \o entries[b].canonical
  BY <1>1 DEF Expanded
<1> QED BY <1>2, <1>3, FundamentalsOfPair

LEMMA PairMultiplied ==
  ASSUME NEW a \in Nat, NEW b \in Nat, a \notin {Zero, One}, b \notin {Zero, One}
  PROVE  TryMultiplyList(<<a, b>>) = FindIndex(Sorted(Fundamentals(<<a, b>>)))
<1>1. <<a, b>> \in Seq(Nat) /\ \A i \in DOMAIN <<a, b>> : <<a, b>>[i] \in {a, b}
  OBVIOUS
<1>2. WithoutOnes(<<a, b>>) = <<a, b>>
  BY <1>1, NothingRemoved
<1>3. ~Contains(<<a, b>>, Zero)
  BY DEF Contains
<1>4. Len(<<a, b>>) = 2 /\ <<a, b>> # <<>>
  OBVIOUS
<1> DEFINE pair == <<a, b>>
<1> HIDE DEF pair
<1>5. WithoutOnes(pair) = pair /\ ~Contains(pair, Zero) /\ Len(pair) = 2 /\ pair # <<>>
  BY <1>2, <1>3, <1>4 DEF pair
<1>6. TryMultiplyList(pair) = FindIndex(Sorted(Fundamentals(pair)))
  BY <1>5 DEF TryMultiplyList
<1> QED BY <1>6 DEF pair

\* The identity, and lists without it.
LEMMA OneOrNoOnes ==
  ASSUME NEW ctx, NEW sy, NEW N, AreSymbols(ctx, sy, N), NEW id \in 0..(N - 1), id # Zero,
         NEW list, IsList(ctx, sy, id, list)
  PROVE  IF id = One THEN list = <<One>> ELSE NoOnes(list)
<1>1. CASE id = One
  <2>1. Atom(ctx, sy, One)
    BY EmptyIsElementary DEF AreSymbols, Atom
  <2> QED BY <1>1, <2>1 DEF IsList
<1>2. CASE id # One
  <2>1. /\ list \in Seq(Nat) /\ list # <<>> /\ Len(list) \in Nat \ {0} /\ DOMAIN list = 1..Len(list)
        /\ \A i \in DOMAIN list : list[i] # Zero
    BY ListedWithoutZero
  <2>2. ASSUME NEW i \in DOMAIN list PROVE list[i] # One
    <3>1. CASE Len(list) = 1
      <4>1. list = <<id>> /\ i = 1
        BY <2>1, <3>1 DEF IsList
      <4> QED BY <1>2, <4>1
    <3>2. CASE Len(list) # 1
      <4>1. Len(list) > 1
        BY <2>1, <3>2
      <4> QED BY <4>1 DEF IsList
    <3> QED BY <3>1, <3>2
  <2>3. InOrder(list)
    BY DEF IsList
  <2> QED BY <1>2, <2>1, <2>2, <2>3 DEF NoOnes
<1> QED BY <1>1, <1>2

\* The two multiplications, of symbols that have lists.
LEMMA ProductsAgree ==
  ASSUME NEW ctx, NEW N, AreSymbols(ctx, symbols, N), AreListed(ctx, symbols, entries, index, N),
         NEW a \in 0..(N - 1), a # Zero, NEW b \in 0..(N - 1), b # Zero,
         NEW joint, joint = CombineFactors(entries[a].canonical, entries[b].canonical)
  PROVE  IF joint \in DOMAIN index
         THEN TryMultiply(a, b) \in 0..(N - 1) /\ entries[TryMultiply(a, b)].canonical = joint
         ELSE TryMultiply(a, b) = Unknown
<1> DEFINE left  == entries[a].canonical
           right == entries[b].canonical
<1>1. /\ N \in Nat /\ a \in Nat /\ b \in Nat
      /\ IsList(ctx, symbols, a, left) /\ IsList(ctx, symbols, b, right)
      /\ left \in DOMAIN index /\ right \in DOMAIN index
  BY DEF AreSymbols, AreListed
<1> HIDE DEF left, right
<1>2. /\ IF a = One THEN left = <<One>> ELSE NoOnes(left)
      /\ IF b = One THEN right = <<One>> ELSE NoOnes(right)
  BY <1>1, OneOrNoOnes
<1>3. joint = Remaining(Sorted(left \o right))
  <2>1. /\ left \in Seq(Nat) /\ left # <<>> /\ \A i \in DOMAIN left : left[i] # Zero
        /\ right \in Seq(Nat) /\ right # <<>> /\ \A i \in DOMAIN right : right[i] # Zero
    BY <1>1, ListedWithoutZero
  <2> QED BY <2>1, MergedLists DEF left, right
<1>4. CASE a = One
  <2>1. joint = right
    <3>1. CASE b = One
      BY <1>2, <1>3, <1>4, <3>1, OnesAlone
    <3>2. CASE b # One
      BY <1>2, <1>3, <1>4, <3>2, OneFirst
    <3> QED BY <3>1, <3>2
  <2>2. TryMultiply(a, b) = b
    BY <1>4 DEF TryMultiply, Zero, One
  <2> QED BY <1>1, <2>1, <2>2 DEF right
<1>5. CASE a # One /\ b = One
  <2>1. joint = left
    BY <1>2, <1>3, <1>5, OneFirst, OneLast
  <2>2. TryMultiply(a, b) = a
    BY <1>5 DEF TryMultiply, Zero, One
  <2> QED BY <1>1, <2>1, <2>2 DEF left
<1>6. CASE a # One /\ b # One
  <2>1. joint = Sorted(left \o right)
    BY <1>2, <1>3, <1>6, MergedWithoutOnes
  <2>2. TryMultiply(a, b) = FindIndex(joint)
    <3>1. CASE Fundamental(a) /\ Fundamental(b)
      <4>1. left = <<a>> /\ right = <<b>>
        <5>1. Len(left) \in Nat \ {0} /\ Len(right) \in Nat \ {0}
          BY <1>1, ListedWithoutZero
        <5>2. Len(left) <= 1 /\ Len(right) <= 1
          BY <3>1 DEF Fundamental, left, right
        <5>3. \A n \in Nat \ {0} : n <= 1 => n = 1
          OBVIOUS
        <5>4. Len(left) = 1 /\ Len(right) = 1
          BY <5>1, <5>2, <5>3
        <5> QED BY <1>1, <5>4 DEF IsList
      <4>2. left \o right = <<a, b>>
        <5> DEFINE u == <<a>> \o <<b>>
        <5>1. u \in Seq({a, b}) /\ Len(u) = 2 /\ u[1] = a /\ u[2] = b
          OBVIOUS
        <5> HIDE DEF u
        <5>2. u = <<u[1], u[2]>>
          BY <5>1
        <5> QED BY <4>1, <5>1, <5>2 DEF u
      <4>3. joint = IF a < b THEN <<a, b>> ELSE <<b, a>>
        BY <1>1, <2>1, <4>2, SortedPair
      <4> QED BY <1>6, <3>1, <4>3 DEF TryMultiply
    <3>2. CASE ~(Fundamental(a) /\ Fundamental(b))
      <4>1. TryMultiply(a, b) = TryMultiplyList(<<a, b>>)
        BY <1>6, <3>2 DEF TryMultiply
      <4>2. TryMultiplyList(<<a, b>>) = FindIndex(Sorted(Fundamentals(<<a, b>>)))
        BY <1>1, <1>6, PairMultiplied
      <4>3. Fundamentals(<<a, b>>) = left \o right
        BY PairIsExpanded DEF left, right
      <4> QED BY <2>1, <4>1, <4>2, <4>3
    <3> QED BY <3>1, <3>2
  <2> QED BY <2>2 DEF FindIndex, AreListed
<1> QED BY <1>4, <1>5, <1>6

(* try_multiply and combine_symbolic_factors agree in every state: the     *)
(* short cuts for zero, one and pairs of fundamental symbols find what     *)
(* merging the lists of factors finds, or nothing if nothing is there.     *)
THEOREM MultiplicationsAlwaysAgree == Spec => []MultiplicationsAgree
<1>1. ListedInv => MultiplicationsAgree
  <2> SUFFICES ASSUME ListedInv, IsInflation PROVE MultiplicationsAgree
    BY DEF MultiplicationsAgree
  <2>1. PICK N : AreSymbols(Context, symbols, N) /\ AreListed(Context, symbols, entries, index, N)
    BY DEF ListedInv, Listed
  <2>2. Ids = 0..(N - 1)
    BY <2>1 DEF AreSymbols, Ids
  <2>3. ASSUME NEW a \in Ids \ {Zero}, NEW b \in Ids \ {Zero}
        PROVE  LET joint == CombineFactors(entries[a].canonical, entries[b].canonical)
                   id    == TryMultiply(a, b)
               IN  IF joint \in DOMAIN index
                   THEN id \in Ids /\ entries[id].canonical = joint
                   ELSE id = Unknown
    <3> DEFINE joint == CombineFactors(entries[a].canonical, entries[b].canonical)
    <3>1. a \in 0..(N - 1) /\ a # Zero /\ b \in 0..(N - 1) /\ b # Zero
      BY <2>2
    <3> QED BY <2>1, <2>2, <3>1, ProductsAgree
  <2> QED BY <2>3 DEF MultiplicationsAgree
<1> QED BY <1>1, AlwaysListed, PTL


-----------------------------------------------------------------------------
(* Symbols of any scenario.                                                *)

Numbered(sy, N) ==
  /\ N \in Nat /\ N >= 2 /\ DOMAIN sy = 0..(N - 1)
  /\ sy[Zero] = ZeroMoment
  /\ \A id, k \in 0..(N - 1) : sy[id] = sy[k] /\ sy[id] # Product => id = k

\* sy is continued by new.
Grows(sy, new) == \E N, M : Numbered(sy, N) /\ Numbered(new, M) /\ N <= M /\ Continues(sy, N, new)

LEMMA SymbolsAreNumbered == ASSUME NEW ctx, NEW sy, NEW N, AreSymbols(ctx, sy, N) PROVE Numbered(sy, N)
BY DEF AreSymbols, Numbered

LEMMA GrowsByNothing == ASSUME NEW sy, NEW N, Numbered(sy, N) PROVE Grows(sy, sy)
<1>1. N \in Nat /\ N <= N
  BY DEF Numbered
<1> QED BY <1>1 DEF Grows, Continues

LEMMA GrowsByOne ==
  ASSUME NEW sy, NEW mid, Grows(sy, mid), NEW moment
  PROVE  Grows(sy, WithSymbol(mid, moment))
<1>1. PICK N, M : Numbered(sy, N) /\ Numbered(mid, M) /\ N <= M /\ Continues(sy, N, mid)
  BY DEF Grows
<1>2. CASE moment \in Registered(mid)
  BY <1>1, <1>2 DEF Grows, WithSymbol
<1>3. CASE moment \notin Registered(mid)
  <2> DEFINE new == Pushed(mid, moment)
  <2>1. /\ M \in Nat /\ M >= 2 /\ N \in Nat /\ DOMAIN mid = 0..(M - 1) /\ M + 1 \in Nat /\ (M + 1) - 1 = M
        /\ N <= M + 1 /\ M + 1 >= 2 /\ \A id \in 0..(N - 1) : id \in 0..(M - 1)
    BY <1>1 DEF Numbered
  <2>2. new = [id \in 0..M |-> IF id = M THEN moment ELSE mid[id]]
    BY <2>1, PushedTable
  <2>3. /\ DOMAIN new = 0..M /\ new[M] = moment /\ \A id \in 0..(M - 1) : new[id] = mid[id] /\ new[id] # moment
        /\ \A id \in 0..M : id = M \/ id \in 0..(M - 1)
    BY <1>3, <2>1, <2>2 DEF Registered
  <2> HIDE DEF new
  <2>4. new[Zero] = ZeroMoment
    BY <1>1, <2>1, <2>3 DEF Numbered, Zero
  <2>5. ASSUME NEW id \in 0..M, NEW k \in 0..M, new[id] = new[k], new[id] # Product PROVE id = k
    <3>1. CASE id = M \/ k = M
      BY <2>3, <2>5, <3>1
    <3>2. CASE id \in 0..(M - 1) /\ k \in 0..(M - 1)
      BY <1>1, <2>3, <2>5, <3>2 DEF Numbered
    <3> QED BY <2>3, <3>1, <3>2
  <2>6. Numbered(new, M + 1)
    BY <2>1, <2>3, <2>4, <2>5 DEF Numbered
  <2>7. Continues(sy, N, new)
    BY <1>1, <2>1, <2>3 DEF Continues
  <2> QED BY <1>1, <1>3, <2>1, <2>6, <2>7 DEF Grows, WithSymbol, new
<1> QED BY <1>2, <1>3

LEMMA GrowsByAll ==
  ASSUME NEW sy, NEW N, Numbered(sy, N), NEW moments, Len(moments) \in Nat
  PROVE  Grows(sy, LeftFold(WithSymbol, sy, moments))
<1>1. PICK at : AreRegistered(sy, moments, at)
  BY RegistrationsRun
<1>s. /\ LeftFold(WithSymbol, sy, moments) = at[Len(moments)] /\ at[0] = sy
      /\ \A k \in 1..Len(moments) : at[k] = WithSymbol(at[k - 1], moments[k])
  BY <1>1 DEF AreRegistered
<1> DEFINE S == {k \in Nat : k <= Len(moments) => Grows(sy, at[k])}
<1>2. 0 \in S
  BY <1>s, GrowsByNothing
<1>3. ASSUME NEW k \in S PROVE k + 1 \in S
  <2> SUFFICES ASSUME k + 1 <= Len(moments) PROVE Grows(sy, at[k + 1])
    OBVIOUS
  <2>1. k + 1 \in 1..Len(moments) /\ (k + 1) - 1 = k /\ Grows(sy, at[k])
    OBVIOUS
  <2>2. at[k + 1] = WithSymbol(at[k], moments[k + 1])
    BY <1>s, <2>1
  <2> QED BY <2>1, <2>2, GrowsByOne
<1> HIDE DEF S
<1>4. S = Nat
  <2>1. S \in SUBSET Nat
    BY DEF S
  <2> QED BY <1>2, <1>3, <2>1, Induction
<1>5. Grows(sy, at[Len(moments)])
  BY <1>4 DEF S
<1> QED BY <1>s, <1>5

\* The id of a symbol of a table.
IdIn(sy, moment) == Max({NotFound} \cup {id \in DOMAIN sy : sy[id] = moment})

IsIdIn(sy, N, moment, id) ==
  IF moment \in Registered(sy) THEN id \in 0..(N - 1) /\ sy[id] = moment ELSE id = NotFound

LEMMA IdFound ==
  ASSUME NEW sy, NEW N, Numbered(sy, N), NEW moment, moment # Product
  PROVE  IsIdIn(sy, N, moment, IdIn(sy, moment)) /\ NotFound \notin 0..(N - 1)
<1> DEFINE known == {id \in DOMAIN sy : sy[id] = moment}
<1>1. N \in Nat /\ DOMAIN sy = 0..(N - 1) /\ NotFound \in Int /\ NotFound \notin 0..(N - 1)
      /\ \A id \in 0..(N - 1) : id \in Int /\ id > NotFound
  BY DEF Numbered, NotFound
<1>2. CASE moment \in Registered(sy)
  <2>1. PICK id \in 0..(N - 1) : sy[id] = moment
    BY <1>1, <1>2 DEF Registered
  <2>2. known = {id}
    BY <1>1, <2>1 DEF Numbered
  <2>3. IdIn(sy, moment) = CHOOSE x \in {NotFound, id} : \A y \in {NotFound, id} : x >= y
    <3>1. {NotFound} \cup known = {NotFound, id}
      BY <2>2
    <3> HIDE DEF known
    <3> QED BY <3>1 DEF IdIn, Max, known
  <2>4. id \in {NotFound, id} /\ \A y \in {NotFound, id} : id >= y
    BY <1>1, <2>1
  <2>5. \A x \in {NotFound, id} : (\A y \in {NotFound, id} : x >= y) => x = id
    BY <1>1, <2>1
  <2>6. IdIn(sy, moment) = id
    BY <2>3, <2>4, <2>5
  <2> QED BY <1>1, <1>2, <2>1, <2>6 DEF IsIdIn
<1>3. CASE moment \notin Registered(sy)
  <2>1. {NotFound} \cup known = {NotFound}
    BY <1>3 DEF Registered
  <2>2. IdIn(sy, moment) = CHOOSE x \in {NotFound} : \A y \in {NotFound} : x >= y
    <3> HIDE DEF known
    <3> QED BY <2>1 DEF IdIn, Max, known
  <2>3. IdIn(sy, moment) = NotFound
    BY <1>1, <2>2
  <2> QED BY <1>1, <1>3, <2>3 DEF IsIdIn
<1> QED BY <1>2, <1>3

LEMMA IdStays ==
  ASSUME NEW sy, NEW new, Grows(sy, new), NEW moment, moment # Product, IdIn(sy, moment) # NotFound
  PROVE  IdIn(new, moment) = IdIn(sy, moment)
<1>1. PICK N, M : Numbered(sy, N) /\ Numbered(new, M) /\ N <= M /\ Continues(sy, N, new)
  BY DEF Grows
<1> DEFINE id == IdIn(sy, moment)
           k  == IdIn(new, moment)
<1>2. IsIdIn(sy, N, moment, id) /\ IsIdIn(new, M, moment, k)
  BY <1>1, IdFound
<1> HIDE DEF id, k
<1>3. id \in 0..(N - 1) /\ sy[id] = moment
  BY <1>2 DEF IsIdIn, id
<1>4. id \in 0..(M - 1) /\ new[id] = moment
  BY <1>1, <1>3 DEF Numbered, Continues
<1>5. moment \in Registered(new)
  BY <1>1, <1>4 DEF Numbered, Registered
<1>6. k \in 0..(M - 1) /\ new[k] = moment
  BY <1>2, <1>5 DEF IsIdIn
<1>7. k = id
  BY <1>1, <1>4, <1>6 DEF Numbered
<1> QED BY <1>7 DEF id, k


-----------------------------------------------------------------------------
(* Tensors.                                                                *)

LEMMA OperatorsCounted ==
  ASSUME NEW q, Len(q) \in Nat, \A k \in 1..Len(q) : Len(q[k].operators) = 1
  PROVE  LeftFold(LAMBDA n, mmt : n + Len(mmt.operators), 0, q) = Len(q)
<1> DEFINE n == Len(q)
           Run(f) == f = [k \in 0..n |-> IF k = 0 THEN 0 ELSE f[k - 1] + Len(q[k].operators)]
           at == CHOOSE f : Run(f)
<1>1. LeftFold(LAMBDA m, mmt : m + Len(mmt.operators), 0, q) = at[n]
  BY DEF LeftFold
<1>2. Run(at)
  <2> DEFINE f == [k \in 0..n |-> k]
  <2>1. \A k \in 0..n : k = 0 \/ (k - 1 \in 0..n /\ k \in 1..n /\ (k - 1) + 1 = k)
    OBVIOUS
  <2>2. ASSUME NEW k \in 0..n PROVE f[k] = IF k = 0 THEN 0 ELSE f[k - 1] + Len(q[k].operators)
    <3>1. CASE k = 0
      BY <3>1
    <3>2. CASE k # 0
      BY <2>1, <3>2
    <3> QED BY <3>1, <3>2
  <2>3. f = [k \in 0..n |-> f[k]]
    OBVIOUS
  <2> HIDE DEF f
  <2>4. Run(f)
    BY <2>2, <2>3
  <2> HIDE DEF Run
  <2> QED BY <2>4
<1> HIDE DEF at
<1>3. at[0] = 0 /\ \A k \in 1..n : at[k] = at[k - 1] + Len(q[k].operators)
  BY <1>2
<1> DEFINE S == {k \in Nat : k <= n => at[k] = k}
<1>4. 0 \in S
  BY <1>3
<1>5. ASSUME NEW k \in S PROVE k + 1 \in S
  <2> SUFFICES ASSUME k + 1 <= n PROVE at[k + 1] = k + 1
    OBVIOUS
  <2>1. k + 1 \in 1..n /\ (k + 1) - 1 = k /\ at[k] = k
    OBVIOUS
  <2>2. at[k + 1] = at[k] + Len(q[k + 1].operators) /\ Len(q[k + 1].operators) = 1
    BY <1>3, <2>1
  <2> QED BY <2>1, <2>2
<1> HIDE DEF S
<1>6. S = Nat
  <2>1. S \in SUBSET Nat
    BY DEF S
  <2> QED BY <1>4, <1>5, <2>1, Induction
<1>7. at[n] = n
  BY <1>6 DEF S
<1> QED BY <1>1, <1>7

\* Where a full correlator is made each measurement has one operator.
LEMMA CorrelatorSizes ==
  ASSUME scenario \in Systems, CanHaveFullCorrelator
  PROVE  FCSizes(Layout) = CGSizes(Layout)
<1> DEFINE l == Layout
<1>1. PICK s \in Scenarios : scenario = Constructed(s)
  BY DEF Systems
<1>2. scenario.kind = s.kind /\ scenario.layout = s.layout
  BY <1>1 DEF Constructed
<1>3. /\ l \in Seq(Seq([operators : Seq(Nat), outcomes : Nat, explicit : BOOLEAN]))
      /\ \A d \in DOMAIN l : \A m \in DOMAIN l[d] : Len(l[d][m].operators) = l[d][m].outcomes - 1
      /\ \A d \in DOMAIN l : \A m \in DOMAIN l[d] : l[d][m].outcomes = 2
  <2>1. s.kind # "inflation"
    BY <1>2 DEF CanHaveFullCorrelator, IsInflation
  <2>2. l = s.layout
    BY <1>2 DEF Layout
  <2>3. \A d \in DOMAIN l : \A m \in DOMAIN l[d] : l[d][m].outcomes = 2
    BY DEF CanHaveFullCorrelator, IsBinary
  <2>4. s.layout \in Seq(Seq([operators : Seq(Nat), outcomes : Nat, explicit : BOOLEAN]))
    BY ScenariosAssumption
  <2>5. \A d \in DOMAIN s.layout : \A m \in DOMAIN s.layout[d] :
           Len(s.layout[d][m].operators) = s.layout[d][m].outcomes - 1
    BY <2>1, ScenariosAssumption
  <2> HIDE DEF l
  <2> QED BY <2>2, <2>3, <2>4, <2>5
<1> HIDE DEF l
<1>4. ASSUME NEW d \in DOMAIN l PROVE OperatorsBefore(l, d, Len(l[d]) + 1) = Len(l[d])
  <2> DEFINE q == l[d]
             T == [operators : Seq(Nat), outcomes : Nat, explicit : BOOLEAN]
  <2>1. l \in Seq(Seq(T))
    BY <1>3
  <2> HIDE DEF T
  <2>2. q \in Seq(T)
    BY <2>1
  <2>3. \A m \in DOMAIN q : Len(q[m].operators) = 1
    BY <1>3, 2 - 1 = 1 DEF q
  <2> HIDE DEF q
  <2>4. Len(q) \in Nat /\ (Len(q) + 1) - 1 = Len(q) /\ DOMAIN q = 1..Len(q)
    BY <2>2
  <2>5. SubSeq(q, 1, Len(q)) = q
    BY <2>2
  <2>6. LeftFold(LAMBDA n, mmt : n + Len(mmt.operators), 0, q) = Len(q)
    BY <2>3, <2>4, OperatorsCounted
  <2> QED BY <2>4, <2>5, <2>6 DEF OperatorsBefore, q
<1> QED BY <1>4 DEF FCSizes, CGSizes, l

\* What a polynomial is in: elements of the Collins-Gisin tensor.
ArePolynomials(polynomials, D) == \A p \in DOMAIN polynomials : DOMAIN polynomials[p] \subseteq D

LEMMA ConstructedTensors ==
  ASSUME scenario \in Systems, HasTensors(scenario)
  PROVE  /\ DOMAIN scenario.words = Indices(CGSizes(Layout)) /\ DOMAIN scenario.moments = DOMAIN scenario.words
         /\ \A x \in DOMAIN scenario.words : scenario.moments[x] = MomentOf(scenario, scenario.words[x])
         /\ DOMAIN scenario.probabilities = Indices(PTSizes(Layout))
         /\ ArePolynomials(scenario.probabilities, DOMAIN scenario.words)
         /\ DOMAIN scenario.correlators = Indices(FCSizes(Layout))
         /\ CanHaveFullCorrelator => ArePolynomials(scenario.correlators, DOMAIN scenario.words)
<1>1. PICK s \in Scenarios : scenario = Constructed(s)
  BY DEF Systems
<1>2. scenario.kind = s.kind /\ scenario.context = s.context /\ scenario.layout = s.layout
  BY <1>1 DEF Constructed
<1>3. HasTensors(s)
  BY <1>2 DEF HasTensors
<1>4. /\ scenario.words = CGWords(s)
      /\ scenario.moments = Table([x \in DOMAIN CGWords(s) |-> MomentOf(s, CGWords(s)[x])])
      /\ scenario.probabilities = PTPolynomials(s.layout) /\ scenario.correlators = FCPolynomials(s.layout)
  BY <1>1, <1>3 DEF Constructed
<1>5. \A w : MomentOf(s, w) = MomentOf(scenario, w)
  BY <1>2 DEF MomentOf
<1>6. DOMAIN scenario.words = Indices(CGSizes(Layout))
  BY <1>2, <1>4, TableIsFunction DEF CGWords, Layout
<1>7. scenario.moments = [x \in DOMAIN scenario.words |-> MomentOf(scenario, scenario.words[x])]
  BY <1>4, <1>5, TableIsFunction
<1>8. /\ DOMAIN scenario.probabilities = Indices(PTSizes(Layout))
      /\ \A p \in Indices(PTSizes(Layout)) : scenario.probabilities[p] = PTPolynomial(Layout, p)
  BY <1>2, <1>4, TableIsFunction DEF PTPolynomials, Layout
<1>9. ArePolynomials(scenario.probabilities, DOMAIN scenario.words)
  <2>1. \A p : DOMAIN PTPolynomial(Layout, p) \subseteq Indices(CGSizes(Layout))
    BY DEF PTPolynomial
  <2> QED BY <1>6, <1>8, <2>1 DEF ArePolynomials
<1>10. /\ DOMAIN scenario.correlators = Indices(FCSizes(Layout))
       /\ \A p \in Indices(FCSizes(Layout)) : scenario.correlators[p] = FCPolynomial(Layout, p)
  BY <1>2, <1>4, TableIsFunction DEF FCPolynomials, Layout
<1>11. ASSUME CanHaveFullCorrelator PROVE ArePolynomials(scenario.correlators, DOMAIN scenario.words)
  <2>1. \A p : DOMAIN FCPolynomial(Layout, p) \subseteq Indices(FCSizes(Layout))
    BY DEF FCPolynomial
  <2>2. FCSizes(Layout) = CGSizes(Layout)
    BY <1>11, CorrelatorSizes
  <2> QED BY <1>6, <1>10, <2>1, <2>2 DEF ArePolynomials
<1> QED BY <1>6, <1>7, <1>8, <1>9, <1>10, <1>11

\* The moment of an element of the Collins-Gisin tensor.
IsMoment(moment) == \E v : moment = Moment(v)

LEMMA MomentsAreMoments ==
  ASSUME NEW s, NEW word
  PROVE  IsMoment(MomentOf(s, word)) /\ MomentOf(s, word) # Product /\ MomentOf(s, word) # ZeroMoment
<1>1. IsMoment(MomentOf(s, word))
  BY KindsDiffer DEF MomentOf, CanonicalMoment, IsMoment
<1> QED BY <1>1, KindsDiffer DEF IsMoment

\* A search finds the symbol of the moment.
LEMMA FindIsId ==
  ASSUME ListedInv, NEW word
  PROVE  Find(word) = IdIn(symbols, MomentOf(scenario, word))
<1>1. \A moment : IdOf(moment) = IdIn(symbols, moment)
  BY DEF IdOf, IdIn, Ids
<1>2. CASE IsInflation /\ CanHaveAliases(Context) /\ Moment(word) \in Registered(symbols)
  <2>1. IsContext(Context)
    BY <1>2, SystemFacts DEF ListedInv
  <2>2. PICK N : AreSymbols(Context, symbols, N)
    BY <1>2 DEF ListedInv, Listed
  <2>3. PICK id \in 0..(N - 1) : symbols[id] = Moment(word)
    BY <1>2, <2>2 DEF AreSymbols, Registered
  <2>4. IsCanonical(Context, Moment(word))
    <3>1. id # Zero /\ symbols[id] # Product
      BY <2>2, <2>3, KindsDiffer DEF AreSymbols
    <3> QED BY <2>2, <2>3, <3>1 DEF AreSymbols
  <2>5. CanonicalMoment(Context, Moment(word)) = Moment(word)
    BY <2>1, <2>4, CanonicalMomentStays DEF IsCanonical
  <2> QED BY <1>1, <1>2, <2>5 DEF Find, MomentOf, IsInflation, Context
<1>3. CASE ~(IsInflation /\ CanHaveAliases(Context) /\ Moment(word) \in Registered(symbols))
  BY <1>1, <1>3 DEF Find, MomentOf, IsInflation, Context
<1> QED BY <1>2, <1>3


\* The polynomial in symbols, when each moment has one.
SymbolsOf(sy, moments, polynomial) == [x \in DOMAIN polynomial |-> IdIn(sy, moments[x])]
Resolution(sy, moments, polynomial) ==
  IF \E x \in DOMAIN polynomial : IdIn(sy, moments[x]) = NotFound THEN Missing
  ELSE Combined(polynomial, SymbolsOf(sy, moments, polynomial))

(* What is stored of a tensor: nothing that is wrong.                      *)
CGStored(t, sy, words, moments) ==
  /\ t.storage \in {"absent", "explicit", "virtual"}
  /\ t.storage = "explicit" =>
       DOMAIN t.at = DOMAIN words /\ \A x \in DOMAIN words : t.at[x] \in {NotFound, IdIn(sy, moments[x])}
Stored(t, sy, moments, polynomials) ==
  /\ t.storage \in {"absent", "explicit", "virtual"}
  /\ t.storage = "explicit" =>
       /\ DOMAIN t.at = DOMAIN polynomials
       /\ \A p \in DOMAIN polynomials : t.at[p] \in {Missing, Resolution(sy, moments, polynomials[p])}

TensorsStored ==
  HasTensors(scenario) =>
    /\ CGStored(cg, symbols, scenario.words, scenario.moments)
    /\ Stored(pt, symbols, scenario.moments, scenario.probabilities)
    /\ CanHaveFullCorrelator => Stored(fc, symbols, scenario.moments, scenario.correlators)

LEMMA CGStoredStays ==
  ASSUME NEW t, NEW sy, NEW new, Grows(sy, new), NEW words, NEW moments, CGStored(t, sy, words, moments),
         \A x \in DOMAIN words : moments[x] # Product
  PROVE  CGStored(t, new, words, moments)
<1>1. ASSUME NEW x \in DOMAIN words, t.at[x] \in {NotFound, IdIn(sy, moments[x])}
      PROVE  t.at[x] \in {NotFound, IdIn(new, moments[x])}
  BY <1>1, IdStays
<1> QED BY <1>1 DEF CGStored

LEMMA ResolutionStays ==
  ASSUME NEW sy, NEW new, Grows(sy, new), NEW moments, NEW polynomial,
         \A x \in DOMAIN polynomial : moments[x] # Product,
         Resolution(sy, moments, polynomial) # Missing
  PROVE  Resolution(new, moments, polynomial) = Resolution(sy, moments, polynomial)
<1>1. \A x \in DOMAIN polynomial : IdIn(sy, moments[x]) # NotFound
  BY DEF Resolution
<1>2. \A x \in DOMAIN polynomial : IdIn(new, moments[x]) = IdIn(sy, moments[x])
  BY <1>1, IdStays
<1>3. SymbolsOf(new, moments, polynomial) = SymbolsOf(sy, moments, polynomial)
  BY <1>2 DEF SymbolsOf
<1> QED BY <1>1, <1>2, <1>3 DEF Resolution

LEMMA StoredStays ==
  ASSUME NEW t, NEW sy, NEW new, Grows(sy, new), NEW moments, NEW polynomials, NEW D, ArePolynomials(polynomials, D),
         \A x \in D : moments[x] # Product, Stored(t, sy, moments, polynomials)
  PROVE  Stored(t, new, moments, polynomials)
<1>1. ASSUME NEW p \in DOMAIN polynomials, t.at[p] \in {Missing, Resolution(sy, moments, polynomials[p])}
      PROVE  t.at[p] \in {Missing, Resolution(new, moments, polynomials[p])}
  <2>1. \A x \in DOMAIN polynomials[p] : moments[x] # Product
    BY DEF ArePolynomials
  <2> QED BY <1>1, <2>1, ResolutionStays
<1> QED BY <1>1 DEF Stored

\* A refreshed Collins-Gisin tensor has every symbol there is.
IsComplete(t, sy, words, moments) == \A x \in DOMAIN words : SymbolIn(t, x) = IdIn(sy, moments[x])

LEMMA CGRefreshed ==
  ASSUME ListedInv, TensorsStored, HasTensors(scenario)
  PROVE  /\ CGStored(RefreshedCG, symbols, scenario.words, scenario.moments)
         /\ IsComplete(RefreshedCG, symbols, scenario.words, scenario.moments)
<1> DEFINE words   == scenario.words
           moments == scenario.moments
           id(x)   == IdIn(symbols, moments[x])
<1>1. \A x \in DOMAIN words : Find(words[x]) = id(x)
  BY ConstructedTensors, FindIsId DEF ListedInv
<1>2. DOMAIN words = Indices(CGSizes(Layout))
  BY ConstructedTensors DEF ListedInv
<1>3. CGStored(cg, symbols, words, moments)
  BY DEF TensorsStored
<1>4. \A elements : Explicitly(elements).storage = "explicit" /\ Explicitly(elements).at = elements
  BY TableIsFunction DEF Explicitly
<1>5. Virtual.storage = "virtual" /\ Virtual.storage # "explicit"
  BY DEF Virtual
<1> HIDE DEF words, moments, id
<1>6. \/ RefreshedCG = Virtual
      \/ \E f : RefreshedCG = Explicitly(f) /\ DOMAIN f = DOMAIN words /\ \A x \in DOMAIN words : f[x] = id(x)
  <2>1. CASE cg.storage = "explicit"
    <3> DEFINE f == [x \in DOMAIN cg.at |-> IF cg.at[x] = NotFound THEN Find(words[x]) ELSE cg.at[x]]
    <3>1. RefreshedCG = Explicitly(f)
      BY <2>1 DEF RefreshedCG, FillMissingSymbols, words
    <3>2. DOMAIN cg.at = DOMAIN words /\ \A x \in DOMAIN words : cg.at[x] \in {NotFound, id(x)}
      BY <1>3, <2>1 DEF CGStored, id
    <3>3. DOMAIN f = DOMAIN words /\ \A x \in DOMAIN words : f[x] = id(x)
      BY <1>1, <3>2
    <3> QED BY <3>1, <3>3
  <2>2. CASE cg.storage = "virtual"
    BY <2>2 DEF RefreshedCG
  <2>3. CASE cg.storage = "absent" /\ Storage(CGSizes(Layout)) = "virtual"
    BY <2>3 DEF RefreshedCG
  <2>4. CASE cg.storage = "absent" /\ Storage(CGSizes(Layout)) # "virtual"
    <3> DEFINE f == [x \in Indices(CGSizes(Layout)) |-> Find(words[x])]
    <3>1. RefreshedCG = Explicitly(f)
      BY <2>4 DEF RefreshedCG, InitialSymbolSearch, words
    <3>2. DOMAIN f = DOMAIN words /\ \A x \in DOMAIN words : f[x] = id(x)
      BY <1>1, <1>2
    <3> QED BY <3>1, <3>2
  <2>5. cg.storage \in {"absent", "explicit", "virtual"}
    BY <1>3 DEF CGStored
  <2> QED BY <2>1, <2>2, <2>3, <2>4, <2>5
<1>7. CASE RefreshedCG = Virtual
  <2>1. CGStored(RefreshedCG, symbols, words, moments)
    BY <1>5, <1>7 DEF CGStored
  <2>2. \A x \in DOMAIN words : SymbolIn(RefreshedCG, x) = id(x)
    BY <1>1, <1>5, <1>7 DEF SymbolIn, words
  <2> QED BY <2>1, <2>2 DEF IsComplete, words, moments, id
<1>8. CASE RefreshedCG # Virtual
  <2>1. PICK f : RefreshedCG = Explicitly(f) /\ DOMAIN f = DOMAIN words /\ \A x \in DOMAIN words : f[x] = id(x)
    BY <1>6, <1>8
  <2>2. RefreshedCG.storage = "explicit" /\ RefreshedCG.at = f /\ RefreshedCG.storage # "virtual"
    BY <1>4, <2>1
  <2>3. CGStored(RefreshedCG, symbols, words, moments)
    BY <2>1, <2>2 DEF CGStored, id
  <2>4. \A x \in DOMAIN words : SymbolIn(RefreshedCG, x) = id(x)
    BY <2>1, <2>2 DEF SymbolIn
  <2> QED BY <2>3, <2>4 DEF IsComplete, words, moments, id
<1> QED BY <1>7, <1>8

\* And a refreshed tensor of polynomials every polynomial there is.
LEMMA TensorRefreshed ==
  ASSUME NEW t, NEW sy, NEW words, NEW moments, IsComplete(t, sy, words, moments),
         NEW tensor, NEW polynomials, NEW sizes, DOMAIN polynomials = Indices(sizes),
         ArePolynomials(polynomials, DOMAIN words), Stored(tensor, sy, moments, polynomials)
  PROVE  LET new == Refreshed(tensor, sizes, polynomials, t)
         IN  /\ Stored(new, sy, moments, polynomials)
             /\ \A p \in DOMAIN polynomials : Element(new, p, polynomials, t) = Resolution(sy, moments, polynomials[p])
<1> DEFINE new    == Refreshed(tensor, sizes, polynomials, t)
           res(p) == Resolution(sy, moments, polynomials[p])
<1>1. ASSUME NEW p \in DOMAIN polynomials PROVE Resolved(polynomials[p], t) = res(p)
  <2> DEFINE poly == polynomials[p]
             id   == [x \in DOMAIN poly |-> SymbolIn(t, x)]
  <2>1. \A x \in DOMAIN poly : SymbolIn(t, x) = IdIn(sy, moments[x])
    BY DEF ArePolynomials, IsComplete
  <2>2. id = SymbolsOf(sy, moments, poly)
    BY <2>1 DEF SymbolsOf
  <2>3. Resolved(poly, t) = IF \E x \in DOMAIN id : id[x] = NotFound THEN Missing ELSE Combined(poly, id)
    BY TableIsFunction DEF Resolved
  <2>4. (\E x \in DOMAIN id : id[x] = NotFound) <=> \E x \in DOMAIN poly : IdIn(sy, moments[x]) = NotFound
    BY <2>1
  <2> HIDE DEF id
  <2> QED BY <2>2, <2>3, <2>4 DEF Resolution
<1>2. \A elements : Explicitly(elements).storage = "explicit" /\ Explicitly(elements).at = elements
  BY TableIsFunction DEF Explicitly
<1>3. Virtual.storage = "virtual" /\ Virtual.storage # "explicit"
  BY DEF Virtual
<1> HIDE DEF res
<1>4. \/ new = Virtual
      \/ \E f : new = Explicitly(f) /\ DOMAIN f = DOMAIN polynomials /\ \A p \in DOMAIN polynomials : f[p] = res(p)
  <2>1. CASE tensor.storage = "explicit"
    <3> DEFINE f == [p \in DOMAIN tensor.at |->
                       IF tensor.at[p] = Missing THEN Resolved(polynomials[p], t) ELSE tensor.at[p]]
    <3>1. new = Explicitly(f)
      BY <2>1 DEF Refreshed
    <3>2. DOMAIN tensor.at = DOMAIN polynomials /\ \A p \in DOMAIN polynomials : tensor.at[p] \in {Missing, res(p)}
      BY <2>1 DEF Stored, res
    <3>3. DOMAIN f = DOMAIN polynomials /\ \A p \in DOMAIN polynomials : f[p] = res(p)
      BY <1>1, <3>2
    <3> QED BY <3>1, <3>3
  <2>2. CASE tensor.storage = "virtual"
    BY <2>2 DEF Refreshed
  <2>3. CASE tensor.storage = "absent" /\ Storage(sizes) = "virtual"
    BY <2>3 DEF Refreshed
  <2>4. CASE tensor.storage = "absent" /\ Storage(sizes) # "virtual"
    <3> DEFINE f == [p \in Indices(sizes) |-> Resolved(polynomials[p], t)]
    <3>1. new = Explicitly(f)
      BY <2>4 DEF Refreshed
    <3>2. DOMAIN f = DOMAIN polynomials /\ \A p \in DOMAIN polynomials : f[p] = res(p)
      BY <1>1
    <3> QED BY <3>1, <3>2
  <2>5. tensor.storage \in {"absent", "explicit", "virtual"}
    BY DEF Stored
  <2> QED BY <2>1, <2>2, <2>3, <2>4, <2>5
<1> HIDE DEF new
<1>5. CASE new = Virtual
  <2>1. Stored(new, sy, moments, polynomials)
    BY <1>3, <1>5 DEF Stored
  <2>2. \A p \in DOMAIN polynomials : Element(new, p, polynomials, t) = res(p)
    BY <1>1, <1>3, <1>5 DEF Element
  <2> QED BY <2>1, <2>2 DEF new, res
<1>6. CASE new # Virtual
  <2>1. PICK f : new = Explicitly(f) /\ DOMAIN f = DOMAIN polynomials /\ \A p \in DOMAIN polynomials : f[p] = res(p)
    BY <1>4, <1>6
  <2>2. new.storage = "explicit" /\ new.at = f /\ new.storage # "virtual"
    BY <1>2, <2>1
  <2>3. Stored(new, sy, moments, polynomials)
    BY <2>1, <2>2 DEF Stored, res
  <2>4. \A p \in DOMAIN polynomials : Element(new, p, polynomials, t) = res(p)
    BY <2>1, <2>2 DEF Element
  <2> QED BY <2>3, <2>4 DEF new, res
<1> QED BY <1>5, <1>6


\* A polynomial in symbols is the polynomial in moments.
LEMMA ResolutionMeans ==
  ASSUME NEW N, Numbered(symbols, N), NEW polynomial, DOMAIN polynomial \subseteq DOMAIN scenario.moments,
         \A x \in DOMAIN polynomial : /\ scenario.moments[x] \in Registered(symbols)
                                      /\ scenario.moments[x] # Product /\ scenario.moments[x] # ZeroMoment
  PROVE  /\ Resolution(symbols, scenario.moments, polynomial) # Missing
         /\ InMoments(Resolution(symbols, scenario.moments, polynomial)) = Meaning(polynomial)
<1> DEFINE D       == DOMAIN polynomial
           moments == scenario.moments
           id      == SymbolsOf(symbols, moments, polynomial)
           TermsOf(i)    == {x \in D : id[x] = i}
           MeansOf(w)    == {x \in D : moments[x] = w}
           J == {i \in {id[x] : x \in D} : i # Zero /\ Total(polynomial, TermsOf(i)) # 0}
           W == {w \in {moments[x] : x \in D} : Total(polynomial, MeansOf(w)) # 0}
           element == Combined(polynomial, id)
<1>1. DOMAIN id = D /\ \A x \in D : id[x] = IdIn(symbols, moments[x])
  BY DEF SymbolsOf
<1> HIDE DEF id, moments, D
<1>2. \A x \in D : /\ id[x] \in 0..(N - 1) /\ symbols[id[x]] = moments[x] /\ id[x] # NotFound /\ id[x] # Zero
  <2> TAKE x \in D
  <2>1. moments[x] \in Registered(symbols) /\ moments[x] # Product /\ moments[x] # ZeroMoment
    BY DEF D, moments
  <2>2. IsIdIn(symbols, N, moments[x], id[x]) /\ NotFound \notin 0..(N - 1)
    BY <1>1, <2>1, IdFound
  <2>3. id[x] \in 0..(N - 1) /\ symbols[id[x]] = moments[x]
    BY <2>1, <2>2 DEF IsIdIn
  <2> QED BY <2>1, <2>2, <2>3 DEF Numbered
<1>3. \A x, y \in D : id[x] = id[y] <=> moments[x] = moments[y]
  <2> TAKE x, y \in D
  <2>1. id[x] = id[y] => moments[x] = moments[y]
    BY <1>2
  <2>2. moments[x] = moments[y] => id[x] = id[y]
    BY <1>1
  <2> QED BY <2>1, <2>2
<1>4. \A y \in D : TermsOf(id[y]) = MeansOf(moments[y])
  BY <1>3
<1>5. element = [i \in J |-> Total(polynomial, TermsOf(i))]
  <2> DEFINE sums == [i \in {id[x] : x \in D} |-> Total(polynomial, TermsOf(i))]
  <2>1. Combined(polynomial, id) = Restrict(sums, {i \in DOMAIN sums : i # Zero /\ sums[i] # 0})
    BY <1>1, TableIsFunction DEF Combined
  <2>2. {i \in DOMAIN sums : i # Zero /\ sums[i] # 0} = J
    OBVIOUS
  <2>3. Restrict(sums, J) = [i \in J |-> sums[i]]
    BY DEF Restrict
  <2>4. \A i \in J : sums[i] = Total(polynomial, TermsOf(i))
    OBVIOUS
  <2> HIDE DEF sums, J
  <2> QED BY <2>1, <2>2, <2>3, <2>4
<1>6. Meaning(polynomial) = [w \in W |-> Total(polynomial, MeansOf(w))]
  <2> DEFINE sums == [w \in {moments[x] : x \in D} |-> Total(polynomial, MeansOf(w))]
  <2>1. Meaning(polynomial) = Restrict(sums, {w \in DOMAIN sums : sums[w] # 0})
    BY DEF Meaning, moments, D
  <2>2. {w \in DOMAIN sums : sums[w] # 0} = W
    OBVIOUS
  <2>3. Restrict(sums, W) = [w \in W |-> sums[w]]
    BY DEF Restrict
  <2>4. \A w \in W : sums[w] = Total(polynomial, MeansOf(w))
    OBVIOUS
  <2> HIDE DEF sums, W
  <2> QED BY <2>1, <2>2, <2>3, <2>4
<1>7. \A i \in J : \E y \in D : i = id[y] /\ symbols[i] = moments[y] /\ TermsOf(i) = MeansOf(symbols[i])
  BY <1>2, <1>4
<1>8. W = {symbols[i] : i \in J}
  <2>1. ASSUME NEW w \in W PROVE \E i \in J : symbols[i] = w
    <3>1. PICK y \in D : w = moments[y]
      OBVIOUS
    <3>2. id[y] \in J
      BY <1>2, <1>4, <3>1
    <3> QED BY <1>2, <3>1, <3>2
  <2>2. ASSUME NEW i \in J PROVE symbols[i] \in W
    <3>1. PICK y \in D : i = id[y]
      OBVIOUS
    <3>2. symbols[i] = moments[y] /\ Total(polynomial, MeansOf(moments[y])) # 0
      BY <1>2, <1>4, <3>1
    <3> QED BY <3>2
  <2> HIDE DEF J, W
  <2> QED BY <2>1, <2>2
<1>9. \A i, k \in J : symbols[i] = symbols[k] => i = k
  BY <1>2, <1>3
<1> HIDE DEF J, W, TermsOf, MeansOf, element
<1>10. DOMAIN element = J /\ \A i \in J : element[i] = Total(polynomial, MeansOf(symbols[i]))
  BY <1>5, <1>7
<1>11. InMoments(element) = [w \in {symbols[i] : i \in J} |-> element[CHOOSE i \in J : symbols[i] = w]]
  BY <1>10 DEF InMoments
<1>12. \A w \in W : element[CHOOSE i \in J : symbols[i] = w] = Total(polynomial, MeansOf(w))
  <2> TAKE w \in W
  <2>1. \E i \in J : symbols[i] = w
    BY <1>8
  <2> DEFINE i == CHOOSE k \in J : symbols[k] = w
  <2>2. i \in J /\ symbols[i] = w
    BY <2>1
  <2> HIDE DEF i
  <2>3. element[i] = Total(polynomial, MeansOf(w))
    BY <1>10, <2>2
  <2> QED BY <2>3 DEF i
<1>13. InMoments(element) = Meaning(polynomial)
  BY <1>6, <1>8, <1>11, <1>12
<1>14. Resolution(symbols, moments, polynomial) = element
  BY <1>1, <1>2 DEF Resolution, element, id, D
<1>15. element # Missing
  <2>1. DOMAIN Missing = {NotFound}
    BY DEF Missing
  <2>2. NotFound \notin J
    BY <1>2 DEF J
  <2> QED BY <1>10, <2>1, <2>2
<1> QED BY <1>13, <1>14, <1>15 DEF moments

LEMMA ElementIsCurrent ==
  ASSUME NEW N, Numbered(symbols, N), NEW polynomial, DOMAIN polynomial \subseteq DOMAIN scenario.moments,
         \A x \in DOMAIN polynomial : scenario.moments[x] # Product /\ scenario.moments[x] # ZeroMoment,
         NEW stored, stored \in {Missing, Resolution(symbols, scenario.moments, polynomial)}
  PROVE  CurrentElement(stored, Resolution(symbols, scenario.moments, polynomial), polynomial)
<1> DEFINE res == Resolution(symbols, scenario.moments, polynomial)
<1>1. CASE \A x \in DOMAIN polynomial : scenario.moments[x] \in Registered(symbols)
  <2>1. res # Missing /\ InMoments(res) = Meaning(polynomial)
    BY <1>1, ResolutionMeans
  <2> HIDE DEF res
  <2> QED BY <1>1, <2>1 DEF CurrentElement, res
<1>2. CASE ~(\A x \in DOMAIN polynomial : scenario.moments[x] \in Registered(symbols))
  <2>1. PICK x \in DOMAIN polynomial : scenario.moments[x] \notin Registered(symbols)
    BY <1>2
  <2>2. IdIn(symbols, scenario.moments[x]) = NotFound
    BY <2>1, IdFound DEF IsIdIn
  <2>3. res = Missing
    BY <2>2 DEF Resolution
  <2> HIDE DEF res
  <2> QED BY <1>2, <2>3 DEF CurrentElement, res
<1> QED BY <1>1, <1>2

(* The tables and the tensors, in every state.                             *)
TensorInv == /\ ListedInv
             /\ \E N : Numbered(symbols, N)
             /\ TensorsStored

LEMMA MomentsHaveKinds ==
  ASSUME ListedInv, HasTensors(scenario)
  PROVE  \A x \in DOMAIN scenario.words : scenario.moments[x] # Product /\ scenario.moments[x] # ZeroMoment
BY ConstructedTensors, MomentsAreMoments DEF ListedInv

LEMMA TensorsStay ==
  ASSUME TensorInv, Grows(symbols, symbols'), scenario' = scenario, tensors' = tensors
  PROVE  TensorsStored'
<1> SUFFICES ASSUME HasTensors(scenario)
             PROVE  /\ CGStored(cg, symbols', scenario.words, scenario.moments)
                    /\ Stored(pt, symbols', scenario.moments, scenario.probabilities)
                    /\ CanHaveFullCorrelator => Stored(fc, symbols', scenario.moments, scenario.correlators)
  BY DEF TensorsStored, tensors, CanHaveFullCorrelator, IsInflation, Layout
<1>1. \A x \in DOMAIN scenario.words : scenario.moments[x] # Product
  BY MomentsHaveKinds DEF TensorInv
<1>2. /\ ArePolynomials(scenario.probabilities, DOMAIN scenario.words)
      /\ CanHaveFullCorrelator => ArePolynomials(scenario.correlators, DOMAIN scenario.words)
  BY ConstructedTensors DEF TensorInv, ListedInv
<1>3. CGStored(cg, symbols', scenario.words, scenario.moments)
  BY <1>1, CGStoredStays DEF TensorInv, TensorsStored
<1>4. Stored(pt, symbols', scenario.moments, scenario.probabilities)
  BY <1>1, <1>2, StoredStays DEF TensorInv, TensorsStored
<1>5. CanHaveFullCorrelator => Stored(fc, symbols', scenario.moments, scenario.correlators)
  BY <1>1, <1>2, StoredStays DEF TensorInv, TensorsStored
<1> QED BY <1>3, <1>4, <1>5

LEMMA SymbolsGrow ==
  ASSUME TensorInv, (\E words \in scenario.matrices : NewMatrix(words))
                    \/ (\E a \in Ids, b \in Ids \cap Operands : NewProduct(a, b))
  PROVE  Grows(symbols, symbols') /\ scenario' = scenario /\ tensors' = tensors
<1>1. ASSUME NEW words \in scenario.matrices, NewMatrix(words) PROVE Grows(symbols, symbols')
  <2>1. CASE IsInflation
    BY <1>1, <2>1, MatrixListed, SymbolsAreNumbered DEF Grows, TensorInv
  <2>2. CASE ~IsInflation
    <3> DEFINE moments == [i \in DOMAIN words |-> Moment(words[i])]
    <3>1. Len(moments) \in Nat
      <4>1. words \in Seq(Seq(Nat))
        BY SystemFacts DEF TensorInv, ListedInv
      <4> QED BY <4>1
    <3>2. RegisterMoments(moments)
      BY <1>1, <2>2 DEF NewMatrix
    <3> HIDE DEF moments
    <3>3. symbols' = LeftFold(WithSymbol, symbols, moments)
      BY <2>2, <3>2, RegisterMomentsUnfolds
    <3> QED BY <3>1, <3>3, GrowsByAll DEF TensorInv
  <2> QED BY <2>1, <2>2
<1>2. ASSUME NEW a \in Ids, NEW b \in Ids \cap Operands, NewProduct(a, b) PROVE Grows(symbols, symbols')
  BY <1>2, ProductIsListed, SymbolsAreNumbered DEF Grows, TensorInv
<1> QED BY <1>1, <1>2 DEF NewMatrix, NewProduct

LEMMA RefreshKeepsTensors ==
  ASSUME TensorInv, HasTensors(scenario),
         RefreshCollinsGisin \/ RefreshProbabilityTensor \/ RefreshFullCorrelator
  PROVE  TensorsStored'
<1> DEFINE words   == scenario.words
           moments == scenario.moments
<1>1. symbols' = symbols /\ scenario' = scenario /\ cg' = RefreshedCG
  BY DEF RefreshCollinsGisin, RefreshProbabilityTensor, RefreshFullCorrelator, tables
<1>2. CGStored(cg', symbols, words, moments) /\ IsComplete(cg', symbols, words, moments)
  BY <1>1, CGRefreshed DEF TensorInv
<1>3. /\ DOMAIN scenario.probabilities = Indices(PTSizes(Layout)) /\ ArePolynomials(scenario.probabilities, DOMAIN words)
      /\ DOMAIN scenario.correlators = Indices(FCSizes(Layout))
      /\ CanHaveFullCorrelator => ArePolynomials(scenario.correlators, DOMAIN words)
  BY ConstructedTensors DEF TensorInv, ListedInv
<1>4. /\ Stored(pt, symbols, moments, scenario.probabilities)
      /\ CanHaveFullCorrelator => Stored(fc, symbols, moments, scenario.correlators)
  BY DEF TensorInv, TensorsStored
<1> HIDE DEF words, moments
<1>5. Stored(pt', symbols, moments, scenario.probabilities)
  <2>1. pt' = pt \/ pt' = Refreshed(pt, PTSizes(Layout), scenario.probabilities, cg')
    BY DEF RefreshCollinsGisin, RefreshProbabilityTensor, RefreshFullCorrelator
  <2>2. CASE pt' = pt
    BY <1>4, <2>2
  <2>3. CASE pt' = Refreshed(pt, PTSizes(Layout), scenario.probabilities, cg')
    BY <1>2, <1>3, <1>4, <2>3, TensorRefreshed
  <2> QED BY <2>1, <2>2, <2>3
<1>6. ASSUME CanHaveFullCorrelator PROVE Stored(fc', symbols, moments, scenario.correlators)
  <2>1. fc' = fc \/ fc' = Refreshed(fc, FCSizes(Layout), scenario.correlators, cg')
    BY DEF RefreshCollinsGisin, RefreshProbabilityTensor, RefreshFullCorrelator
  <2>2. CASE fc' = fc
    BY <1>4, <1>6, <2>2
  <2>3. CASE fc' = Refreshed(fc, FCSizes(Layout), scenario.correlators, cg')
    BY <1>2, <1>3, <1>4, <1>6, <2>3, TensorRefreshed
  <2> QED BY <2>1, <2>2, <2>3
<1> QED BY <1>1, <1>2, <1>5, <1>6 DEF TensorsStored, CanHaveFullCorrelator, IsInflation, Layout, words, moments

(* In whatever order tensors are made, filled and refreshed and symbols    *)
(* registered: an explicit Collins-Gisin tensor has one entry for each of  *)
(* its words, which is the id of the word's symbol or unknown; an explicit *)
(* tensor of probabilities or correlators has one entry for each of its    *)
(* polynomials, which is what the symbols there are make of it or missing. *)
THEOREM TensorsAlwaysStored == Spec => []TensorInv
<1>1. Init => \E N : Numbered(symbols, N)
  <2> SUFFICES ASSUME Init PROVE \E N : Numbered(symbols, N)
    OBVIOUS
  <2>1. CASE IsInflation
    <3> DEFINE t == OnNewSymbolsAdded(InitialSymbols, <<>>, <<>>)
    <3>1. IsContext(Context)
      BY <2>1, SystemFacts DEF Init
    <3>2. AllListed(Context, InitialSymbols, 2, t)
      BY <3>1, InitialListed
    <3>3. symbols = t.symbols
      BY <2>1 DEF Init, InitialTables
    <3> HIDE DEF t
    <3> QED BY <3>2, <3>3, SymbolsAreNumbered DEF AllListed, Completes
  <2>2. CASE ~IsInflation
    <3>1. symbols = [id \in {Zero, One} |-> IF id = Zero THEN ZeroMoment ELSE Moment(<<>>)]
      BY <2>2 DEF Init, InitialTables, InitialSymbols
    <3>2. {Zero, One} = 0..(2 - 1) /\ Zero # One /\ 2 \in Nat /\ 2 >= 2
      BY DEF Zero, One
    <3>3. DOMAIN symbols = 0..(2 - 1) /\ symbols[Zero] = ZeroMoment /\ symbols[One] = Moment(<<>>)
          /\ \A id \in 0..(2 - 1) : id = Zero \/ id = One
      BY <3>1, <3>2
    <3>4. Numbered(symbols, 2)
      BY <3>2, <3>3, KindsDiffer DEF Numbered
    <3> QED BY <3>4
  <2> QED BY <2>1, <2>2
<1>2. Init => TensorsStored
  BY DEF Init, TensorsStored, CGStored, Stored, Absent
<1>3. TensorInv /\ [Next]_vars => (\E N : Numbered(symbols, N))' /\ TensorsStored'
  <2> SUFFICES ASSUME TensorInv, [Next]_vars PROVE (\E N : Numbered(symbols, N))' /\ TensorsStored'
    OBVIOUS
  <2>1. CASE \/ \E words \in scenario.matrices : NewMatrix(words)
             \/ \E a \in Ids, b \in Ids \cap Operands : NewProduct(a, b)
    <3>1. Grows(symbols, symbols') /\ scenario' = scenario /\ tensors' = tensors
      BY <2>1, SymbolsGrow
    <3> QED BY <3>1, TensorsStay DEF Grows
  <2>2. CASE HasTensors(scenario) /\ (RefreshCollinsGisin \/ RefreshProbabilityTensor \/ RefreshFullCorrelator)
    <3>1. symbols' = symbols
      BY <2>2 DEF RefreshCollinsGisin, RefreshProbabilityTensor, RefreshFullCorrelator, tables
    <3>2. (\E N : Numbered(symbols, N))'
      BY <3>1 DEF TensorInv
    <3> QED BY <2>2, <3>2, RefreshKeepsTensors
  <2>3. CASE UNCHANGED vars
    BY <2>3 DEF vars, tables, tensors, TensorInv, TensorsStored, CanHaveFullCorrelator, IsInflation, Layout
  <2> QED BY <2>1, <2>2, <2>3 DEF Next
<1> QED BY <1>1, <1>2, <1>3, AlwaysListed, PTL DEF Spec, TensorInv

(* A tensor of probabilities or correlators that is refreshed has each     *)
(* polynomial whose moments are registered, as the right polynomial in     *)
(* moments, and no others; what is stored is that or still missing.        *)
THEOREM RefreshedTensorsStayCurrent == Spec => []RefreshedTensorsAreCurrent
<1>1. TensorInv => RefreshedTensorsAreCurrent
  <2> SUFFICES ASSUME TensorInv, HasTensors(scenario) PROVE RefreshedTensorsAreCurrent
    BY DEF RefreshedTensorsAreCurrent
  <2> DEFINE t       == RefreshedCG
             words   == scenario.words
             moments == scenario.moments
  <2>1. PICK N : Numbered(symbols, N)
    BY DEF TensorInv
  <2>2. IsComplete(t, symbols, words, moments)
    BY CGRefreshed DEF TensorInv
  <2>3. /\ DOMAIN moments = DOMAIN words
        /\ \A x \in DOMAIN words : moments[x] # Product /\ moments[x] # ZeroMoment
    BY ConstructedTensors, MomentsHaveKinds DEF TensorInv, ListedInv
  <2> HIDE DEF t, words
  <2>4. ASSUME NEW tensor, NEW polynomials, NEW sizes, DOMAIN polynomials = Indices(sizes),
               ArePolynomials(polynomials, DOMAIN words), Stored(tensor, symbols, moments, polynomials)
        PROVE  Current(tensor, Refreshed(tensor, sizes, polynomials, t), polynomials, t)
    <3> DEFINE new == Refreshed(tensor, sizes, polynomials, t)
    <3>1. \A p \in DOMAIN polynomials : Element(new, p, polynomials, t) = Resolution(symbols, moments, polynomials[p])
      BY <2>2, <2>4, TensorRefreshed
    <3> HIDE DEF new
    <3>2. ASSUME NEW p \in DOMAIN polynomials
          PROVE  CurrentElement(IF tensor.storage = "explicit" THEN tensor.at[p] ELSE Missing,
                                Element(new, p, polynomials, t), polynomials[p])
      <4> DEFINE stored == IF tensor.storage = "explicit" THEN tensor.at[p] ELSE Missing
      <4>1. stored \in {Missing, Resolution(symbols, moments, polynomials[p])}
        BY <2>4 DEF Stored
      <4>2. DOMAIN polynomials[p] \subseteq DOMAIN moments
            /\ \A x \in DOMAIN polynomials[p] : moments[x] # Product /\ moments[x] # ZeroMoment
        BY <2>3, <2>4 DEF ArePolynomials
      <4> HIDE DEF stored
      <4>3. CurrentElement(stored, Resolution(symbols, moments, polynomials[p]), polynomials[p])
        BY <2>1, <4>1, <4>2, ElementIsCurrent
      <4> QED BY <3>1, <4>3 DEF stored
    <3> QED BY <3>2 DEF Current, new
  <2>5. Current(pt, Refreshed(pt, PTSizes(Layout), scenario.probabilities, t), scenario.probabilities, t)
    BY <2>4, ConstructedTensors DEF TensorInv, ListedInv, TensorsStored, words
  <2>6. ASSUME CanHaveFullCorrelator
        PROVE  Current(fc, Refreshed(fc, FCSizes(Layout), scenario.correlators, t), scenario.correlators, t)
    BY <2>4, <2>6, ConstructedTensors DEF TensorInv, ListedInv, TensorsStored, words
  <2> QED BY <2>5, <2>6 DEF RefreshedTensorsAreCurrent, t
<1> QED BY <1>1, TensorsAlwaysStored, PTL
=============================================================================
