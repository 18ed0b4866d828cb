------------------------------ MODULE SymbolTable ------------------------------
(***************************************************************************)
(* SymbolTable: the moments of a scenario, each with a sequence of         *)
(* operators and its conjugate, found by hash; the numbering of their real *)
(* and imaginary parts (BasisView); and the map from positions in the      *)
(* dictionary of words to symbols (DictionaryMap).                         *)
(*                                                                         *)
(* A sequence is a record of its hash (0 for zero, 1 for the identity) and *)
(* the power of i it is multiplied by. What a context knows of sequences   *)
(* is a record: `conjugate` and `moment` (simplify_as_moment) are          *)
(* functions, `words` are the dictionaries for each length, `aliases`      *)
(* tells whether moments of different words can be equal.                  *)
(*                                                                         *)
(* Symbols are numbered from 0; a table's symbol n is its (n + 1)st.       *)
(***************************************************************************)
EXTENDS Integers, TLC, FiniteSets, FiniteSetsExt, SequencesExt

Sequence(hash, sign) == [hash |-> hash, sign |-> sign]
NoSequence           == Sequence(-1, 0)

\* 1: the same; -1: one is the negative of the other; 0: neither.
CompareSameNegation(s, t) ==
  IF s.hash # t.hash \/ s.sign % 2 # t.sign % 2 THEN 0
  ELSE IF s.sign \div 2 = t.sign \div 2 THEN 1 ELSE -1

Blank == [seq |-> NoSequence, conj |-> NoSequence, hermitian |-> FALSE, antihermitian |-> FALSE,
          re |-> -1, im |-> -1]

HermitianSymbol(s) == [Blank EXCEPT !.seq = s, !.hermitian = TRUE]
PositiveSymbol(s)  == HermitianSymbol([s EXCEPT !.sign = 0])

\* The sign of the sequence moves to its conjugate.
SymbolOf(s, conj) ==
  LET moved   == [conj EXCEPT !.sign = (conj.sign + s.sign) % 4]
      compare == CompareSameNegation([s EXCEPT !.sign = 0], moved)
  IN  [Blank EXCEPT !.seq = [s EXCEPT !.sign = 0], !.conj = moved,
                    !.hermitian = (compare = 1), !.antihermitian = (compare = -1)]

SymbolZero     == [HermitianSymbol(Sequence(0, 0)) EXCEPT !.antihermitian = TRUE]
SymbolIdentity == [HermitianSymbol(Sequence(1, 0)) EXCEPT !.re = 0]

HashConj(symbol) == IF symbol.conj = NoSequence THEN symbol.seq.hash ELSE symbol.conj.hash

NewTable ==
  [symbols |-> <<SymbolZero, SymbolIdentity>>, hashes |-> (0 :> 0) @@ (1 :> 1),
   real |-> <<1>>, imaginary |-> <<>>, imOfReal |-> <<-1>>, reOfImaginary |-> <<>>,
   osg |-> <<1>>, osgLength |-> 0]

SymbolAt(table, id) == table.symbols[id + 1]

-----------------------------------------------------------------------------
(* New symbols.                                                            *)

\* Mutant of PushBack: the real part is entered without its imaginary part.
PushBackAlone(table, symbol, has_real, has_im) ==
  LET id == Len(table.symbols)
      re == IF has_real THEN Len(table.real) ELSE -1
      im == IF has_im THEN Len(table.imaginary) ELSE -1
  IN  [table EXCEPT !.symbols       = Append(@, [symbol EXCEPT !.re = re, !.im = im]),
                    !.real          = IF has_real THEN Append(@, id) ELSE @,
                    !.imaginary     = IF has_im THEN Append(@, id) ELSE @,
                    !.imOfReal      = IF has_real THEN Append(@, -1) ELSE @,
                    !.reOfImaginary = IF has_im THEN Append(@, re) ELSE @]

\* The symbol gets the next id, and its parts the next places in the bases.
PushBack(table, symbol, has_real, has_im) ==
  LET id == Len(table.symbols)
      re == IF has_real THEN Len(table.real) ELSE -1
      im == IF has_im THEN Len(table.imaginary) ELSE -1
  IN  [table EXCEPT !.symbols       = Append(@, [symbol EXCEPT !.re = re, !.im = im]),
                    !.real          = IF has_real THEN Append(@, id) ELSE @,
                    !.imaginary     = IF has_im THEN Append(@, id) ELSE @,
                    !.imOfReal      = IF has_real THEN Append(@, im) ELSE @,
                    !.reOfImaginary = IF has_im THEN Append(@, re) ELSE @]

\* Symbols without a sequence.
Create(table, count) ==
  FoldLeft(LAMBDA t, n : PushBack(t, Blank, TRUE, TRUE), table, [n \in 1..count |-> n])

\* A symbol is new unless its sequence's hash is known; its conjugate's hash
\* does not matter, and does not replace one that is known.
MergeSymbol(table, elem) ==
  LET id == Len(table.symbols)
  IN  IF elem.seq.hash \in DOMAIN table.hashes THEN table
      ELSE [PushBack(table, elem, ~elem.antihermitian, ~elem.hermitian)
              EXCEPT !.hashes = @ @@ (elem.seq.hash :> id)
                                  @@ (IF elem.hermitian THEN <<>> ELSE HashConj(elem) :> -id)]

MergeSymbols(table, elems) == FoldLeft(MergeSymbol, table, elems)

\* A sequence: its moment, without its sign.
MergeSequence(ctx, table, seq) ==
  LET s == [seq EXCEPT !.sign = 0]
      m == IF ctx.aliases THEN ctx.moment[s] ELSE s
  IN  MergeSymbol(table, SymbolOf(m, ctx.conjugate[m]))

-----------------------------------------------------------------------------
(* Look-up. What is not found has the id -1.                               *)
NotFound == [id |-> -1, conjugated |-> FALSE]

HashToIndex(table, hash) ==
  IF hash \notin DOMAIN table.hashes THEN NotFound
  ELSE LET n == table.hashes[hash] IN [id |-> IF n < 0 THEN -n ELSE n, conjugated |-> n < 0]

Where(ctx, table, seq) ==
  IF seq.hash \in DOMAIN table.hashes \/ ~ctx.aliases THEN HashToIndex(table, seq.hash)
  ELSE HashToIndex(table, ctx.moment[seq].hash)

-----------------------------------------------------------------------------
(* Dictionaries.                                                           *)

\* Of a word and its conjugate the one of lower hash makes the symbol; words
\* whose moments are those of other words make none.
WordSymbols(ctx, word) ==
  LET conj == ctx.conjugate[word]
  IN  CASE ctx.aliases /\ ctx.moment[word].hash # word.hash -> <<>>
        [] ~(ctx.aliases /\ ctx.moment[word].hash # word.hash) /\ word.hash = conj.hash ->
             <<HermitianSymbol(word)>>
        [] OTHER -> IF word.hash < conj.hash THEN <<SymbolOf(word, conj)>> ELSE <<>>

FillToWordLength(ctx, table, length) ==
  IF table.osgLength > length THEN table
  ELSE MergeSymbols(table, FlattenSeq([n \in DOMAIN ctx.words[length] |->
                                          WordSymbols(ctx, ctx.words[length][n])]))

\* The dictionary map grows by the words it has not got yet.
MapEntry(ctx, table, word) ==
  LET found == Where(ctx, table, word)
  IN  IF SymbolAt(table, found.id).seq # word THEN -found.id ELSE found.id

UpdateDictionaryMap(ctx, table, length) ==
  IF length <= table.osgLength THEN table
  ELSE [table EXCEPT !.osg = @ \o [n \in 1..(Len(ctx.words[length]) - Len(@)) |->
                                     MapEntry(ctx, table, ctx.words[length][Len(@) + n])],
                     !.osgLength = length]

-----------------------------------------------------------------------------
(* Flags that arrive later.                                                *)

\* The bases are made anew from the symbols' flags.
RenumerateBases(table) ==
  LET bare == [table EXCEPT !.symbols = <<>>, !.real = <<>>, !.imaginary = <<>>,
                            !.imOfReal = <<>>, !.reOfImaginary = <<>>]
  IN  FoldLeft(LAMBDA t, s : PushBack(t, s, ~s.antihermitian, ~s.hermitian), bare, table.symbols)

\* A symbol that must be real becomes Hermitian, one that must be imaginary
\* anti-Hermitian.
Flagged(symbol, can_be_real, can_be_imaginary) ==
  [symbol EXCEPT !.hermitian = @ \/ ~can_be_imaginary, !.antihermitian = @ \/ ~can_be_real]

\* Flags for the ids in two sets of those that can be real and imaginary: in the
\* order of the ids, up to the first symbol that would become zero; then the
\* bases are left as they are.
MergeFlags(table, elems, can_be_real, can_be_imaginary) ==
  LET larger  == Create(table, Max({0, elems - Len(table.symbols)}))
      ids     == 1..(Len(larger.symbols) - 1)
      flagged == [id \in ids |-> Flagged(SymbolAt(larger, id), id \in can_be_real, id \in can_be_imaginary)]
      both    == can_be_real \cap can_be_imaginary
      zero    == {id \in ids \ both : flagged[id].hermitian /\ flagged[id].antihermitian}
      reached == IF zero = {} THEN ids ELSE 1..Min(zero)
      \* Neither part allowed: thrown before a flag is set.
      set     == {id \in reached : id \in can_be_real \cup can_be_imaginary}
      after   == [larger EXCEPT !.symbols =
                    [n \in DOMAIN @ |-> IF n - 1 \in set THEN flagged[n - 1] ELSE @[n]]]
  IN  [table   |-> IF zero = {} THEN RenumerateBases(after) ELSE after,
       changed |-> \E id \in ids : flagged[id] # SymbolAt(larger, id),
       zero    |-> zero # {}]
=============================================================================
