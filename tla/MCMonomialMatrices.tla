--------------------------- MODULE MCMonomialMatrices ---------------------------
(***************************************************************************)
(* Scenarios of one qubit; of a nilpotent operator and its adjoint; of two *)
(* anticommuting reflections, of which the product is anti-Hermitian; of   *)
(* two copies of a projector, whose moments are equal; and of matrices     *)
(* that are imported. Matrices are of dimension 3, in one scenario 4, and  *)
(* imported ones of 2.                                                     *)
(*                                                                         *)
(* Left out, because the code gets them wrong (see the README): complex    *)
(* factors of matrices of words that are Hermitian, anti-Hermitian words   *)
(* in Hermitian matrices made by several threads, multipliers that are not *)
(* Hermitian, imports after a basis was read, and dictionaries with        *)
(* anti-Hermitian words.                                                   *)
(***************************************************************************)
EXTENDS MonomialMatrixFactory, ImportedMatrixSystem, OperatorContexts

CONSTANTS MaxCalls,      \* bound: calls made in a scenario of operators (1, where matrices are of dimension 4)
          MaxImports     \* bound: matrices imported

VARIABLE calls

allVars == <<matrixVars, imported, refused, calls>>

-----------------------------------------------------------------------------
(* Operators and rules.                                                    *)
RuleWords(mode, n) == INSTANCE OperatorRule WITH NumOperators <- n, conj_mode <- mode

RuleOf(mode, lhs, rhs, sign) ==
  RuleWords(mode, 2)!Rule(RuleWords(mode, 2)!Sequence(lhs, 0), RuleWords(mode, 2)!Sequence(rhs, sign))
Vanishes(mode, lhs) == RuleWords(mode, 2)!Rule(RuleWords(mode, 2)!Sequence(lhs, 0), RuleWords(mode, 2)!Zero)

Book(rules) == [k \in {r.lhs.hash : r \in rules} |-> CHOOSE r \in rules : r.lhs.hash = k]

Qubit1 == Pauli(1)
Ladder ==
  Algebraic(2, "Bunched", Book({Vanishes("Bunched", <<0, 0>>), Vanishes("Bunched", <<1, 1>>),
                                RuleOf("Bunched", <<0, 1, 0>>, <<0>>, 0), RuleOf("Bunched", <<1, 0, 1>>, <<1>>, 0)}))
Reflections ==
  Algebraic(2, "SelfAdjoint", Book({RuleOf("SelfAdjoint", <<0, 0>>, <<>>, 0), RuleOf("SelfAdjoint", <<1, 1>>, <<>>, 0),
                                    RuleOf("SelfAdjoint", <<1, 0>>, <<0, 1>>, 2)}))
Copies == Locality(<<1, 2>>, <<1, 1>>)

-----------------------------------------------------------------------------
(* Tables of a context: all words it has, and what becomes of them.        *)
Trim(seq) == [hash |-> seq.hash, sign |-> seq.sign]

TablesOf(ctx, list, moment(_)) ==
  LET words == {w \in UNION {{[list[n] EXCEPT !.sign = s] : s \in 0..3} : n \in DOMAIN list} : TRUE}
                 \cup {Words(ctx)!Zero}
      full  == [s \in {Trim(w) : w \in words} |-> CHOOSE w \in words : Trim(w) = s]
  IN  [conjugate |-> [s \in DOMAIN full |-> Trim(ConjugateSequence(ctx, full[s]))],
       product   |-> [p \in (DOMAIN full) \X (DOMAIN full) |-> Trim(MultiplySequences(ctx, full[p[1]], full[p[2]]))],
       moment    |-> [s \in DOMAIN full |-> Sequence(moment(s.hash), s.sign)]]

SameHash(hash) == hash

QubitTables      == TablesOf(Qubit1, GenericSequences(Qubit1, 1), SameHash)
LadderTables     == TablesOf(Ladder, GenericSequences(Ladder, 2), SameHash)
ReflectionTables == TablesOf(Reflections, GenericSequences(Reflections, 2), SameHash)
CopiesTables     == TablesOf(Copies, GenericSequences(Copies, 2), LAMBDA hash : IF hash = 3 THEN 2 ELSE hash)

\* conj(g) * h, or conj(g) * w * h, for generators g and h.
MatrixAround(tables, generators, hash) ==
  [c \in (0..(Len(generators) - 1)) \X (0..(Len(generators) - 1)) |->
     tables.product[<<tables.product[<<tables.conjugate[Sequence(generators[c[1] + 1], 0)], Sequence(hash, 0)>>],
                      Sequence(generators[c[2] + 1], 0)>>]]

ContextOf(ctx, tables, nonhermitian, aliases, given, max_calls) ==
  [kind |-> "words", conjugate |-> tables.conjugate, product |-> tables.product, moment |-> tables.moment,
   nonhermitian |-> nonhermitian, aliases |-> aliases,
   words |-> [length \in 0..2 |-> [n \in DOMAIN GenericSequences(ctx, length) |-> Trim(GenericSequences(ctx, length)[n])]],
   given |-> given, max_calls |-> max_calls]

\* What can be asked of a context: dictionaries, factors, words to register.
Asking(lengths, factors, sequences) == [lengths |-> lengths, factors |-> factors, sequences |-> sequences]

Importing(real_only) == [kind |-> "import", real_only |-> real_only, aliases |-> FALSE, max_calls |-> MaxImports]

Three == <<1, 2, 3>>

MCContexts ==
  {ContextOf(Qubit1, QubitTables, FALSE, FALSE, {MatrixAround(QubitTables, Three, 1)}, MaxCalls)
     @@ Asking(1..2, {One, Scalar(1)}, {Sequence(4, 2)}),
   ContextOf(Qubit1, QubitTables, FALSE, FALSE, {MatrixAround(QubitTables, <<1, 2, 3, 4>>, 1)}, 1)
     @@ Asking({}, {One}, {}),
   ContextOf(Ladder, LadderTables, TRUE, FALSE, {MatrixAround(LadderTables, Three, n) : n \in {1, 2}}, MaxCalls)
     @@ Asking(1..2, {One, Scalar(1)}, {Sequence(6, 0)}),
   ContextOf(Reflections, ReflectionTables, TRUE, FALSE, {MatrixAround(ReflectionTables, Three, 1)}, MaxCalls)
     @@ Asking({1}, {One, Scalar(2)}, {Sequence(5, 2)}),
   ContextOf(Copies, CopiesTables, FALSE, TRUE, {MatrixAround(CopiesTables, Three, 1)}, MaxCalls)
     @@ Asking(1..2, {One}, {Sequence(3, 0)}),
   Importing(FALSE), Importing(TRUE)}

-----------------------------------------------------------------------------
(* Matrices to import.                                                     *)
S(id) == [id |-> id, factor |-> One, conjugated |-> FALSE]
C(id) == [S(id) EXCEPT !.conjugated = TRUE]
N(monomial) == [monomial EXCEPT !.factor = Minus(@)]

Square(a, b, c, d) == [x \in (0..1) \X (0..1) |-> (<<0, 0>> :> a @@ <<0, 1>> :> b @@ <<1, 0>> :> c @@ <<1, 1>> :> d)[x]]

Imports ==
  {[input |-> Square(S(1), S(2), C(2), S(3)),    complex |-> TRUE,  hermitian |-> TRUE],
   [input |-> Square(S(1), S(2), N(S(2)), N(S(3))), complex |-> TRUE, hermitian |-> TRUE],
   [input |-> Square(S(2), C(2), S(3), N(C(3))), complex |-> TRUE,  hermitian |-> FALSE],
   [input |-> Square(S(3), N(S(2)), N(S(2)), S(1)), complex |-> FALSE, hermitian |-> TRUE],
   [input |-> Square(S(1), S(3), C(3), S(0)),    complex |-> FALSE, hermitian |-> TRUE]}

-----------------------------------------------------------------------------
Init ==
  /\ InitSystem
  /\ InitFactory
  /\ imported = <<>> /\ refused = FALSE
  /\ calls = 0

OperatorCall == calls < context.max_calls /\ calls' = calls + 1 /\ context.kind = "words" /\ UNCHANGED <<imported, refused>>
SingleThread == OperatorCall /\ UNCHANGED factoryVars

\* Monomials of Hermitian symbols.
Multipliers ==
  {[id |-> id, factor |-> f, conjugated |-> FALSE] :
      id \in {n \in 0..(Len(table.symbols) - 1) : SymbolAt(table, n).hermitian}, f \in context.factors}

\* The factor is real, or the matrix of words is not Hermitian.
GoodFactor(words, factor) == factor[2] = 0 \/ ~IsHermitian(context, AsMoments(context, words))

\* No two threads write the same anti-Hermitian element.
AntiHermitian(seq) == CompareSameNegation(seq, context.conjugate[seq]) = -1 /\ seq.sign % 2 = 0
GoodForThreads(words) ==
  LET os == AsMoments(context, words) IN IsHermitian(context, os) => \A c \in DOMAIN os : ~AntiHermitian(os[c])

Product(n, monomial, left) == MultipliedWords(context, table, matrices[n].words, monomial, left)

Proper(n, monomial) == ~IsZeroProduct(table, monomial) /\ ~IsClone(monomial)

CreateCall == \E words \in context.given : CreateMatrix(words)

MultiplyCall ==
  \E n \in DOMAIN matrices, monomial \in Multipliers, left \in BOOLEAN :
     /\ Proper(n, monomial) => GoodFactor(Product(n, monomial, left), ProductFactor(n, monomial))
     /\ MultiplyTrivially(n, monomial) \/ Multiply(n, monomial, left)

CreateThreads == \E words \in context.given : GoodForThreads(words) /\ StartMultithread(words, One)

MultiplyThreads ==
  \E n \in DOMAIN matrices, monomial \in Multipliers, left \in BOOLEAN :
     /\ Proper(n, monomial)
     /\ GoodFactor(Product(n, monomial, left), ProductFactor(n, monomial))
     /\ GoodForThreads(Product(n, monomial, left))
     /\ StartMultithread(Product(n, monomial, left), ProductFactor(n, monomial))

ImportCall ==
  /\ context.kind = "import" /\ calls < context.max_calls /\ calls' = calls + 1
  /\ \E i \in Imports : ImportMatrix(i.input, i.complex, i.hermitian)
  /\ UNCHANGED factoryVars

ReadCall ==
  /\ context.kind = "import" => calls = context.max_calls
  /\ \E n \in DOMAIN matrices : ReadBasis(n)
  /\ UNCHANGED <<factoryVars, imported, refused, calls>>

\* All calls were made and all bases read.
Finished ==
  /\ calls = context.max_calls
  /\ call = NoCall
  /\ DOMAIN bases = DOMAIN matrices
  /\ UNCHANGED allVars

Next ==
  \/ SingleThread /\ (CreateCall \/ MultiplyCall)
  \/ SingleThread /\ \E length \in context.lengths : GenerateDictionary(length)
  \/ SingleThread /\ \E seq \in context.sequences : RegisterSequence(seq)
  \/ OperatorCall /\ (CreateThreads \/ MultiplyThreads)
  \/ FactoryStep /\ UNCHANGED <<imported, refused, calls>>
  \/ ImportCall
  \/ ReadCall
  \/ Finished

Spec == Init /\ [][Next]_allVars
-----------------------------------------------------------------------------

\* Every symbol is where the bases, the hashes and the dictionary map say, and the
\* flags are what its words imply; of a word and its conjugate one is the symbol's,
\* and the other is found as its conjugate (merge_in, push_back, renumerate_bases,
\* fill_to_word_length, DictionaryMap). No two symbols are one moment. An import
\* that is refused half-way is excepted (merge_in throws before it renumbers).
SymbolsListed(t) ==
  \A id \in 0..(Len(t.symbols) - 1) :
    LET s == SymbolAt(t, id)
    IN  /\ s.re = -1 <=> s.antihermitian
        /\ s.im = -1 <=> s.hermitian
        /\ s.re # -1 => t.real[s.re + 1] = id /\ t.imOfReal[s.re + 1] = s.im
        /\ s.im # -1 => t.imaginary[s.im + 1] = id /\ t.reOfImaginary[s.im + 1] = s.re

WordsFound(t) ==
  /\ \A hash \in DOMAIN t.hashes :
      LET conj  == context.conjugate[Sequence(hash, 0)]
          found == HashToIndex(t, hash)
      IN  /\ context.aliases => context.moment[Sequence(hash, 0)].hash = hash
          /\ conj.hash = hash => SymbolAt(t, found.id).hermitian = (conj.sign = 0) /\ ~found.conjugated
          /\ conj.hash # hash => HashToIndex(t, conj.hash) = [found EXCEPT !.conjugated = ~@]
  /\ \A n \in DOMAIN t.osg :
      LET word == context.words[t.osgLength][n]
      IN  \/ context.aliases /\ context.moment[word] # word
          \/ t.osg[n] = t.hashes[word.hash]

TableConsistent ==
  ~refused => SymbolsListed(table) /\ (context.kind = "words" => WordsFound(table))

-----------------------------------------------------------------------------
\* The matrix whose elements the bases of matrix n are to give back.
Given(n) == IF context.kind = "import" THEN imported[n] ELSE matrices[n].cells

\* A symbol is x + iy, where one part may be missing: with the keys of the symbols
\* that the matrix has recorded, a basis that was read gives back each element,
\* whatever x and y are, also after symbols were added (create_dense_basis,
\* create_sparse_basis, identify_symbols_and_basis_indices; for imported matrices
\* also renumerate_bases), unless an import was refused half-way.
BasesReproduceMatrix ==
  ~refused => \A n \in DOMAIN bases : \A c \in DOMAIN matrices[n].cells :
    LET e      == Given(n)[c]
        symbol == SymbolAt(table, e.id)
        i      == Scalar(IF e.conjugated THEN 3 ELSE 1)
        Part(k, list, value) == IF k = list THEN value ELSE <<0, 0>>
    IN  /\ e.id # 0 => matrices[n].key[e.id] = <<symbol.re, symbol.im>>
        /\ \A k \in DOMAIN bases[n].real :
              bases[n].real[k][c] = Part(k - 1, symbol.re, e.factor)
        /\ \A k \in DOMAIN bases[n].imaginary :
              bases[n].imaginary[k][c] = Part(k - 1, symbol.im, TimesScalar(i, e.factor))

-----------------------------------------------------------------------------
\* The meaning of a monomial: a factor and a word.
NormalValue(factor, seq) ==
  IF seq.hash = 0 THEN [hash |-> 0, factor |-> <<0, 0>>]
  ELSE [hash |-> seq.hash, factor |-> TimesScalar(factor, Scalar(seq.sign))]

ValueOf(t, monomial) ==
  LET word == Sequence(SymbolAt(t, monomial.id).seq.hash, 0)
  IN  NormalValue(monomial.factor, IF monomial.conjugated THEN context.conjugate[word] ELSE word)

FactorOfWords(words, factor) == IF \A c \in DOMAIN words : words[c].hash = 0 THEN One ELSE factor

Meaning(matrix) ==
  [words |-> matrix.words, factor |-> matrix.factor,
   elements |-> [c \in DOMAIN matrix.cells |-> ValueOf(table, matrix.cells[c])]]

Promised ==
  INSTANCE MonomialMatrices
    WITH Value <- NormalValue, NormalFactor <- FactorOfWords,
         known <- DOMAIN table.hashes,
         matrices <- IF context.kind = "import" THEN <<>> ELSE [n \in DOMAIN matrices |-> Meaning(matrices[n])],
         pending <- IF phase = "generate" THEN <<call.words, FactorOfWords(call.words, call.factor)>> ELSE <<>>

\* The symbols and their table are one way to name moments: whatever calls are
\* made in whatever order, by one thread or by several, each matrix has the
\* moments of its words (OpSeqToSymbolConverter, MonomialMatrixFactoryMultithreaded).
ImplementsMonomialMatrices == Promised!Spec
=============================================================================
