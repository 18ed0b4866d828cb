---------------------- MODULE MCOperatorMatrixFactory ----------------------
(* Four columns for three workers, so that one of them has two. *)
EXTENDS OperatorMatrixFactory

CONSTANTS h, k, a, b,   \* two self-conjugate sequences and two conjugate ones
          i, j          \* i is one of the same operators as j = -i, its conjugate

MCValues   == {h, k, a, b, i, j}
MCConj     == [v \in MCValues |-> CASE v = a -> b [] v = b -> a [] v = i -> j [] v = j -> i [] OTHER -> v]
MCHash     == [v \in MCValues |-> CASE v = h -> 1 [] v = k -> 2 [] v = a -> 3 [] v = b -> 4 [] OTHER -> 5]
MCSimplify == [v \in MCValues |-> IF v = k THEN h ELSE v]

HermitianMatrix == [c \in Cells |-> CASE c[1] = c[2] -> k [] c[1] > c[2] -> a [] OTHER -> b]

\* A Hermitian matrix with one cell changed.
Spoilt(c, v) == [HermitianMatrix EXCEPT ![c] = v]

Task(aliases, generic, product, osThrows, aliasThrows) ==
  [aliases |-> aliases, generic |-> generic, product |-> product,
   osThrows |-> osThrows, aliasThrows |-> aliasThrows]

(* Who throws, and in which phase: the last worker, whose future is read   *)
(* last, or one before it, or two.                                         *)
MCTasks ==
  {Task(al, FALSE, HermitianMatrix, {}, {}) : al \in BOOLEAN} \cup
  {Task(al, TRUE, m, {}, {}) :
     al \in BOOLEAN,
     m \in {HermitianMatrix, Spoilt(<<1, 3>>, h), Spoilt(<<2, 2>>, a), Spoilt(<<1, 1>>, i),
            [c \in Cells |-> IF c[1] = 3 \/ c[2] = 1 THEN a ELSE h]}} \cup
  {Task(FALSE, TRUE, HermitianMatrix, {<<2, 2>>}, {}), Task(FALSE, FALSE, HermitianMatrix, {<<2, 0>>, <<3, 2>>}, {}),
   Task(TRUE, FALSE, HermitianMatrix, {}, {<<3, 2>>}), Task(TRUE, FALSE, HermitianMatrix, {}, {<<1, 1>>}),
   Task(TRUE, TRUE, HermitianMatrix, {<<3, 3>>}, {}), Task(TRUE, TRUE, HermitianMatrix, {<<2, 2>>}, {})}
=============================================================================
