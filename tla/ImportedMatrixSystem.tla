-------------------------- MODULE ImportedMatrixSystem --------------------------
(***************************************************************************)
(* ImportedMatrixSystem: matrices of symbols given by the user. What the   *)
(* symmetry of a matrix implies for its symbols, that one is real or       *)
(* imaginary, is entered into the symbol table, and matrices that are      *)
(* there already are adapted.                                              *)
(***************************************************************************)
EXTENDS MonomialMatrixSystem

VARIABLES imported,  \* history: the matrices as they were given
          refused    \* history: an import was refused after it had set flags

AboveDiagonal(input) == {c \in DOMAIN input : c[1] < c[2]}

\* Elements across the diagonal have to have one symbol, with one factor up to
\* its sign. All factors given are real.
Matching(input) ==
  \A c \in AboveDiagonal(input) :
    LET upper == input[c]
        lower == input[Mirror(c)]
    IN  upper.id = lower.id /\ lower.factor \in {upper.factor, Minus(upper.factor)}

SameConj(input, c)   == input[c].conjugated = input[Mirror(c)].conjugated
SameFactor(input, c) == input[c].factor = input[Mirror(c)].factor

IdsOf(input, cells) == {input[c].id : c \in cells}

\* checkIMHermitian: a* = -a, or a = -a.
NotRealHermitian(input) ==
  IdsOf(input, {c \in AboveDiagonal(input) : ~SameFactor(input, c)})

\* The diagonal is real; a* = a, or a = -a. (Complex matrices come in complex contexts.)
NotImaginaryHermitian(input) ==
  IdsOf(input, {c \in DOMAIN input :
      c[1] = c[2] \/ (c[1] < c[2] /\ SameConj(input, c) = SameFactor(input, c))})

\* checkIMSymmetric: a = -a*, or a = -a.
NotRealSymmetric(input) == NotRealHermitian(input)

\* a = a*, or a = -a.
NotImaginarySymmetric(input) ==
  IdsOf(input, {c \in AboveDiagonal(input) : SameConj(input, c) # SameFactor(input, c)})

NotReal(input, is_complex, is_hermitian) ==
  IF ~is_hermitian THEN {} ELSE IF is_complex THEN NotRealHermitian(input) ELSE NotRealSymmetric(input)

NotImaginary(input, is_complex, is_hermitian) ==
  IF ~is_complex THEN IdsOf(input, DOMAIN input)
  ELSE IF is_hermitian THEN NotImaginaryHermitian(input)
  ELSE {}

\* import_matrix. In a real context no symbol can be imaginary.
ImportMatrix(input, is_complex, is_hermitian) ==
  /\ is_complex => ~context.real_only
  /\ is_hermitian => Matching(input)
  /\ LET elems == Max(IdsOf(input, DOMAIN input) \cup {Len(table.symbols) - 1}) + 1
         ids   == 0..(elems - 1)
         merge == MergeFlags(table, elems, ids \ NotReal(input, is_complex, is_hermitian),
                             IF context.real_only THEN {}
                             ELSE ids \ NotImaginary(input, is_complex, is_hermitian))
     IN  /\ table' = merge.table
         /\ refused' = (refused \/ merge.zero)
         /\ IF merge.zero THEN UNCHANGED <<matrices, imported>>
            ELSE /\ matrices' = Append([n \in DOMAIN matrices |->
                                          IF merge.changed THEN MatrixRenumerated(merge.table, matrices[n])
                                          ELSE matrices[n]],
                                       NewMatrix(merge.table, input, is_hermitian, NoWords, One))
                 /\ imported' = Append(imported, input)
  /\ UNCHANGED <<context, bases, call>>
=============================================================================
