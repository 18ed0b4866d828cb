------------------------ MODULE MonomialMatrixSystem ------------------------
(***************************************************************************)
(* A matrix system as far as its symbol table and monomial matrices go.    *)
(*                                                                         *)
(* First, MonomialMatrix: a matrix of symbols with factors, made from a    *)
(* matrix of operator sequences, the keys of its symbols in the bases of   *)
(* the symbol table, and the bases of matrices made from it; and the       *)
(* converter that makes the symbols of an operator matrix with a single    *)
(* thread (OpSeqToSymbolConverter). Matrices are functions on cells        *)
(* <<row, column>> counted from 0. Factors are complex integers <<re, im>>. *)
(*                                                                         *)
(* Then, the calls that register words, make a matrix, multiply one by a   *)
(* monomial, and read a basis of one. A call holds the write lock of the   *)
(* system; those here work with a single thread and are one step each.     *)
(***************************************************************************)
EXTENDS SymbolTable

Scalar(sign)      == <<<<1, 0>>, <<0, 1>>, <<-1, 0>>, <<0, -1>>>>[sign + 1]
TimesScalar(a, b) == <<a[1] * b[1] - a[2] * b[2], a[1] * b[2] + a[2] * b[1]>>
ConjScalar(a)     == <<a[1], -a[2]>>
One               == Scalar(0)
Minus(a)          == TimesScalar(Scalar(2), a)

Mirror(c)    == <<c[2], c[1]>>
Dimension(m) == Max({c[1] : c \in DOMAIN m}) + 1

\* The cells in the order they are stored, and those of the lower triangle.
ColumnMajor(m)   == [n \in 1..Cardinality(DOMAIN m) |-> <<(n - 1) % Dimension(m), (n - 1) \div Dimension(m)>>]
LowerTriangle(m) == SelectSeq(ColumnMajor(m), LAMBDA c : c[1] >= c[2])

IsHermitian(ctx, os) == \A c \in DOMAIN os : os[c] = ctx.conjugate[os[Mirror(c)]]

-----------------------------------------------------------------------------
(* The symbols that an operator matrix needs.                              *)

\* Of two words that are each other's conjugates, the one of lower hash comes first.
SymbolFor(elem, conj) ==
  IF CompareSameNegation(elem, conj) = 1 THEN HermitianSymbol(elem)
  ELSE IF elem.hash < conj.hash THEN SymbolOf(elem, conj) ELSE SymbolOf(conj, elem)

NothingFound == [symbols |-> <<SymbolZero, SymbolIdentity>>, known |-> {0, 1}]

FindSymbol(found, elem, conj) ==
  IF \/ elem.hash \in found.known
     \/ CompareSameNegation(elem, conj) # 1 /\ conj.hash \in found.known
  THEN found
  ELSE [symbols |-> Append(found.symbols, SymbolFor(elem, conj)),
        known   |-> found.known \cup {elem.hash, conj.hash}]

FindHermitianSymbol(found, elem) ==
  IF elem.hash \in found.known THEN found
  ELSE [symbols |-> Append(found.symbols, PositiveSymbol(elem)), known |-> found.known \cup {elem.hash}]

\* A Hermitian matrix is read from the conjugates of its lower triangle, unless
\* all words of the scenario are Hermitian.
IdentifyUniqueSequences(ctx, os, hermitian) ==
  LET cells == IF hermitian THEN LowerTriangle(os) ELSE ColumnMajor(os)
      Find(found, c) ==
        IF ~ctx.nonhermitian THEN FindHermitianSymbol(found, os[c])
        ELSE IF hermitian THEN FindSymbol(found, ctx.conjugate[os[c]], os[c])
        ELSE FindSymbol(found, os[c], ctx.conjugate[os[c]])
  IN  FoldLeft(Find, NothingFound, cells).symbols

-----------------------------------------------------------------------------
(* The symbolic matrix.                                                    *)

\* The monomial of a word, and, read from it, that of the cell across the diagonal.
MonomialOf(table, elem, prefactor) ==
  LET found == HashToIndex(table, elem.hash)
  IN  [id |-> found.id, factor |-> TimesScalar(prefactor, Scalar(elem.sign)), conjugated |-> found.conjugated]

MirrorMonomialOf(table, elem, prefactor) ==
  LET found == HashToIndex(table, elem.hash)
  IN  [id |-> found.id, factor |-> TimesScalar(prefactor, ConjScalar(Scalar(elem.sign))),
       conjugated |-> ~SymbolAt(table, found.id).hermitian /\ ~found.conjugated]

BuildSymbolMatrix(table, os, prefactor, hermitian) ==
  [c \in DOMAIN os |-> IF hermitian /\ c[1] > c[2] THEN MirrorMonomialOf(table, os[Mirror(c)], prefactor)
                       ELSE MonomialOf(table, os[c], prefactor)]

\* Mutant of Canonical: the sign of a conjugated anti-Hermitian symbol is left alone.
CanonicalUnsigned(table, monomial) ==
  LET symbol == SymbolAt(table, monomial.id)
      flips  == monomial.conjugated /\ (symbol.hermitian \/ symbol.antihermitian)
  IN  IF monomial.factor = <<0, 0>> THEN [id |-> 0, factor |-> <<0, 0>>, conjugated |-> FALSE]
      ELSE IF flips THEN [monomial EXCEPT !.conjugated = FALSE]
      ELSE monomial

\* renumerate_bases: only symbols that have both parts are conjugated.
Canonical(table, monomial) ==
  LET symbol == SymbolAt(table, monomial.id)
      flips  == monomial.conjugated /\ (symbol.hermitian \/ symbol.antihermitian)
  IN  IF monomial.factor = <<0, 0>> THEN [id |-> 0, factor |-> <<0, 0>>, conjugated |-> FALSE]
      ELSE IF flips
      THEN [monomial EXCEPT !.conjugated = FALSE, !.factor = IF symbol.hermitian THEN @ ELSE Minus(@)]
      ELSE monomial

\* The places of a matrix's symbols in the bases, as they are at the moment.
KeysOf(table, cells) ==
  [id \in {cells[c].id : c \in DOMAIN cells} |-> <<SymbolAt(table, id).re, SymbolAt(table, id).im>>]

MatrixRenumerated(table, matrix) ==
  LET cells == [c \in DOMAIN matrix.cells |-> Canonical(table, matrix.cells[c])]
  IN  [matrix EXCEPT !.cells = cells, !.key = KeysOf(table, cells)]

\* The constructor. Words are kept to multiply with; matrices that were imported
\* have none.
NoWords == <<>>

NewMatrix(table, cells, hermitian, words, factor) ==
  MatrixRenumerated(table, [cells |-> cells, hermitian |-> hermitian, words |-> words,
                            factor |-> factor, key |-> <<>>])

ZeroMatrix(table, domain) ==
  NewMatrix(table, [c \in domain |-> [id |-> 0, factor |-> <<0, 0>>, conjugated |-> FALSE]], TRUE,
            [c \in domain |-> Sequence(0, 0)], One)

\* The moments of a matrix of words.
AsMoments(ctx, os) == IF ctx.aliases THEN [c \in DOMAIN os |-> ctx.moment[os[c]]] ELSE os

\* register_symbols_and_create_matrix with one thread: the symbol table and the matrix.
CreateSinglethread(ctx, table, os, prefactor) ==
  LET moments   == AsMoments(ctx, os)
      hermitian == IsHermitian(ctx, moments)
      grown     == MergeSymbols(table, IdentifyUniqueSequences(ctx, moments, hermitian))
  IN  [table  |-> grown,
       matrix |-> NewMatrix(grown, BuildSymbolMatrix(grown, moments, prefactor, hermitian), hermitian, os, prefactor)]

-----------------------------------------------------------------------------
(* Multiplication by a monomial.                                           *)

SequenceConj(symbol) == IF symbol.hermitian THEN symbol.seq ELSE symbol.conj

\* The sequence that the matrix is multiplied by: that of the conjugate symbol.
MultiplierOf(table, monomial) ==
  LET symbol == SymbolAt(table, monomial.id)
  IN  IF monomial.conjugated THEN symbol.seq ELSE SequenceConj(symbol)

\* The words of the product: multiplied from the left or from the right.
MultipliedWords(ctx, table, words, monomial, left) ==
  LET by == MultiplierOf(table, monomial)
  IN  [c \in DOMAIN words |-> IF left THEN ctx.product[<<by, words[c]>>] ELSE ctx.product[<<words[c], by>>]]

IsZeroProduct(table, monomial) == monomial.id = 0 \/ MultiplierOf(table, monomial).hash = 0
IsClone(monomial)              == monomial.id = 1 /\ monomial.factor = One

-----------------------------------------------------------------------------
(* The bases: for each symbol that has a real part, and for each that has  *)
(* an imaginary part, the matrix that multiplies this part.                *)

\* Mutant of BasisTerm: below the diagonal the imaginary part keeps its sign.
BasisTermUnmirrored(matrix, c) ==
  LET below == matrix.hermitian /\ c[1] > c[2]
      e     == matrix.cells[IF below THEN Mirror(c) ELSE c]
      f     == IF below THEN ConjScalar(e.factor) ELSE e.factor
  IN  [id |-> e.id, real |-> f, imaginary |-> TimesScalar(Scalar(IF e.conjugated THEN 3 ELSE 1), f)]

\* What a cell is made of. Of a Hermitian matrix only the upper triangle is read.
BasisTerm(matrix, c) ==
  LET below == matrix.hermitian /\ c[1] > c[2]
      e     == matrix.cells[IF below THEN Mirror(c) ELSE c]
      f     == IF below THEN ConjScalar(e.factor) ELSE e.factor
  IN  [id |-> e.id, real |-> f,
       imaginary |-> TimesScalar(Scalar(IF e.conjugated # below THEN 3 ELSE 1), f)]

HasComplexBasis(matrix) == \E id \in DOMAIN matrix.key : matrix.key[id][2] >= 0

\* Dense and sparse bases alike; the imaginary one is filled if some symbol of
\* the matrix had an imaginary part.
CreateBasis(table, matrix) ==
  LET re(c) == SymbolAt(table, BasisTerm(matrix, c).id).re
      im(c) == SymbolAt(table, BasisTerm(matrix, c).id).im
  IN  [real |-> [n \in 1..Len(table.real) |->
                   [c \in DOMAIN matrix.cells |-> IF re(c) = n - 1 THEN BasisTerm(matrix, c).real ELSE <<0, 0>>]],
       imaginary |-> [n \in 1..Len(table.imaginary) |->
                   [c \in DOMAIN matrix.cells |-> IF HasComplexBasis(matrix) /\ im(c) = n - 1
                                                  THEN BasisTerm(matrix, c).imaginary ELSE <<0, 0>>]]]

-----------------------------------------------------------------------------
(* The matrix system.                                                      *)

CONSTANT Contexts     \* the scenarios: what they know of their words

VARIABLES context,
          table,     \* the symbol table
          matrices,  \* the monomial matrices, in the order of their indices
          bases,     \* MatrixBasis: matrix -> its bases, once they were asked for
          call       \* the operator matrix and the factor a multi-threaded call works on

systemVars == <<context, table, matrices, bases, call>>

NoCall == [words |-> NoWords, moments |-> NoWords, factor |-> One, hermitian |-> FALSE]

InitSystem ==
  /\ context \in Contexts
  /\ table = NewTable
  /\ matrices = <<>>
  /\ bases = <<>>
  /\ call = NoCall

AddMatrix(made) ==
  /\ table' = made.table
  /\ matrices' = Append(matrices, made.matrix)
  /\ UNCHANGED <<context, bases, call>>

\* A moment matrix, localizing matrix or other matrix of words.
CreateMatrix(words) ==
  /\ call = NoCall
  /\ AddMatrix(CreateSinglethread(context, table, words, One))

\* pre_multiply or post_multiply where nothing has to be made by a factory.
MultiplyTrivially(n, monomial) ==
  /\ call = NoCall
  /\ \/ /\ monomial.id = 0 \/ (~IsClone(monomial) /\ IsZeroProduct(table, monomial))
        /\ AddMatrix([table |-> table, matrix |-> ZeroMatrix(table, DOMAIN matrices[n].cells)])
     \/ /\ IsClone(monomial)
        /\ AddMatrix([table |-> table, matrix |-> MatrixRenumerated(table, matrices[n])])

\* The factor of the product's matrix.
ProductFactor(n, monomial) == TimesScalar(matrices[n].factor, monomial.factor)

Multiply(n, monomial, left) ==
  /\ call = NoCall
  /\ ~IsZeroProduct(table, monomial) /\ ~IsClone(monomial)
  /\ AddMatrix(CreateSinglethread(context, table,
                 MultipliedWords(context, table, matrices[n].words, monomial, left), ProductFactor(n, monomial)))

\* generate_dictionary, and the update of the dictionary map that follows where
\* words are mapped.
GenerateDictionary(length) ==
  /\ call = NoCall
  /\ table' = UpdateDictionaryMap(context, FillToWordLength(context, table, length), length)
  /\ UNCHANGED <<context, matrices, bases, call>>

\* merge_in of the words of an imported polynomial.
RegisterSequence(seq) ==
  /\ call = NoCall
  /\ table' = MergeSequence(context, table, seq)
  /\ UNCHANGED <<context, matrices, bases, call>>

\* A basis is made at its first use.
ReadBasis(n) ==
  /\ n \notin DOMAIN bases
  /\ call = NoCall
  /\ bases' = bases @@ (n :> CreateBasis(table, matrices[n]))
  /\ UNCHANGED <<context, table, matrices, call>>
=============================================================================
