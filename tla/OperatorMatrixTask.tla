------------------------- MODULE OperatorMatrixTask -------------------------
(***************************************************************************)
(* What an operator matrix is made from.  Operator sequences are opaque    *)
(* values; a task says what the element functor returns for each cell      *)
(* <<row, col>> and for which pairs of cells the work throws.              *)
(***************************************************************************)
EXTENDS Integers

CONSTANTS Dim,         \* factory.dimension
          Values,      \* operator sequences, with their signs
          Conj,        \* OperatorSequence::conjugate
          Hash,        \* OperatorSequence::hash, which ignores the sign
          Simplify,    \* context.simplify_as_moment
          Tasks,       \* the calls to be made
          NoMatrix

Index == 0..(Dim - 1)
Cells == Index \X Index
Pairs == {c \in Cells : c[2] <= c[1]}      \* a cell stands for its pair with Mirror(c)
Mirror(c) == <<c[2], c[1]>>

\* Conjugation is an involution, and the operators of the conjugate depend on
\* the operators only; "simplify_as_moment must commute with Hermitian
\* conjugation".
ASSUME ValuesAssumption ==
  /\ Dim \in Nat \ {0}
  /\ Conj \in [Values -> Values] /\ Simplify \in [Values -> Values]
  /\ \A v \in Values : Conj[Conj[v]] = v /\ Simplify[Conj[v]] = Conj[Simplify[v]]
  /\ \A u, v \in Values : Hash[u] = Hash[v] => Hash[Conj[u]] = Hash[Conj[v]]
  /\ NoMatrix \notin [Cells -> Values]

Hermitian(matrix) == \A c \in Cells : matrix[c] = Conj[matrix[Mirror(c)]]
HermitianUpToSign(matrix) == \A c \in Cells : Hash[matrix[c]] = Hash[Conj[matrix[Mirror(c)]]]

\* Whether the context can have aliases, whether the factory could make a
\* non-Hermitian matrix, the matrix it is to make, and the pairs of cells for
\* which the functor (osThrows) or the simplification (aliasThrows) throws.
ASSUME TasksAssumption ==
  \A t \in Tasks :
    /\ t.aliases \in BOOLEAN /\ t.generic \in BOOLEAN
    /\ t.product \in [Cells -> Values]
    /\ ~t.generic => Hermitian(t.product)
    /\ t.osThrows \subseteq Pairs /\ t.aliasThrows \subseteq Pairs

Simplified(matrix) == [c \in Cells |-> Simplify[matrix[c]]]
=============================================================================
