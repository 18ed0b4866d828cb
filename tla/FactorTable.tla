---------------------------- MODULE FactorTable ----------------------------
(***************************************************************************)
(* The factor table of an inflation system beside the symbol table whose   *)
(* ids it follows (scenarios/inflation/factor_table.cpp), and the          *)
(* single-threaded registration of products (extended_matrix.cpp).         *)
(*                                                                         *)
(* A symbol is the moment of a word; one made for a product of known       *)
(* symbols has no word.  Other scenarios have no factor table.             *)
(***************************************************************************)
EXTENDS InflationContext

CONSTANTS Scenarios,      \* records of a name, a kind, a context, a layout and matrices
          MaxProducts,    \* bound: products that extended matrices register
          MaxFactors,     \* bound: factors of a registered product
          Operands        \* ids of symbols offered as matrix extensions

(* The symbol of zero is not offered: its products get lists that are out  *)
(* of order, of several zeros.                                             *)
ASSUME BoundsAssumption ==
  /\ MaxProducts \in Nat /\ MaxFactors \in Nat
  /\ Operands \subseteq Nat \ {Zero}

VARIABLES scenario,  \* which of the scenarios
          symbols,   \* SymbolTable: id |-> what the symbol stands for
          entries,   \* FactorTable::entries: id |-> canonical factors, appearances
          index      \* FactorTable::index_tree: list of factors |-> id
tables == <<symbols, entries, index>>

Context     == scenario.context
IsInflation == scenario.kind = "inflation"

Product == [kind |-> "product", word |-> <<>>]

Ids == DOMAIN symbols

(* The table, or any partial map, with one more value.                     *)
With(f, x, value) == [y \in DOMAIN f \cup {x} |-> IF y = x THEN value ELSE f[y]]
NextId(table)     == Cardinality(DOMAIN table)
Pushed(table, value) == With(table, NextId(table), value)

Entry(list) == [canonical |-> list, appearances |-> 0]

-----------------------------------------------------------------------------
(* FactorTable::check_for_new_factors                                      *)

(* Mutant of LookUpFactor: a missing factor gets the id that follows the   *)
(* entries of the factor table, not the one that follows the symbols.      *)
LookUpFactorByEntries(t, factor) ==
  LET known == {id \in DOMAIN t.symbols : t.symbols[id] = factor}
      id    == IF known = {} THEN NextId(t.entries) ELSE CHOOSE k \in known : TRUE
  IN  [t EXCEPT !.symbols = IF known = {} THEN Pushed(@, factor) ELSE @,
                !.found   = Append(@, id)]

(* The state t of the two tables after factor is looked up, and registered *)
(* as a symbol when it is missing.                                         *)
LookUpFactor(t, factor) ==
  LET known == {id \in DOMAIN t.symbols : t.symbols[id] = factor}
      id    == IF known = {} THEN NextId(t.symbols) ELSE CHOOSE k \in known : TRUE
  IN  [t EXCEPT !.symbols = IF known = {} THEN Pushed(@, factor) ELSE @,
                !.found   = Append(@, id)]

CanonicalFactors(symbol) ==
  LET raw == Factorize(Context, symbol) IN [i \in DOMAIN raw |-> CanonicalMoment(Context, raw[i])]

AddEntry(t, list) ==
  [t EXCEPT !.entries = Pushed(@, Entry(list)),
            !.index   = With(@, list, NextId(t.entries))]

(* Mutant of EntryForSymbol: the canonical factors are left in the order   *)
(* in which the operators appear.                                          *)
EntryForSymbolUnsorted(t, id) ==
  LET looked == LeftFold(LookUpFactor, [t EXCEPT !.found = <<>>], CanonicalFactors(t.symbols[id]))
  IN  AddEntry(looked, looked.found)

EntryForSymbol(t, id) ==
  LET looked == LeftFold(LookUpFactor, [t EXCEPT !.found = <<>>], CanonicalFactors(t.symbols[id]))
  IN  AddEntry(looked, Sorted(looked.found))

EntryForFactor(t, id) == AddEntry(t, <<id>>)

IdsFrom(first, end) == [i \in 1..(end - first) |-> first + i - 1]

(* How often f is a factor in the non-trivial entries with these ids.      *)
Appearances(table, ids, f) ==
  MapThenSumSet(LAMBDA id : LET list == table[id].canonical
                            IN  IF Len(list) > 1
                                THEN Cardinality({i \in DOMAIN list : list[i] = f}) ELSE 0,
                ids)

CountAppearances(table, first) ==
  [f \in DOMAIN table |->
     [table[f] EXCEPT !.appearances = @ + Appearances(table, first..(NextId(table) - 1), f)]]

OnNewSymbolsAdded(newSymbols, oldEntries, oldIndex) ==
  LET first == NextId(oldEntries)
      upTo  == NextId(newSymbols)
      t0    == [symbols |-> newSymbols, entries |-> oldEntries, index |-> oldIndex, found |-> <<>>]
      t1    == LeftFold(EntryForSymbol, t0, IdsFrom(first, upTo))
      t2    == LeftFold(EntryForFactor, t1, IdsFrom(upTo, NextId(t1.symbols)))
  IN  [t2 EXCEPT !.entries = CountAppearances(@, first)]

InitialSymbols == [id \in {Zero, One} |-> IF id = Zero THEN ZeroMoment ELSE Moment(<<>>)]
InitialTables  == IF IsInflation THEN OnNewSymbolsAdded(InitialSymbols, <<>>, <<>>)
                  ELSE [symbols |-> InitialSymbols, entries |-> <<>>, index |-> <<>>]

Registered(table) == {table[id] : id \in DOMAIN table}

(* A new matrix registers those of its moments that the symbol table       *)
(* lacks; then the factor table is brought up to date, under the same      *)
(* write lock.                                                             *)
RegisterMoments(moments) ==
  LET Register(table, moment) == IF moment \in Registered(table) THEN table ELSE Pushed(table, moment)
      pushed == LeftFold(Register, symbols, moments)
      t      == IF IsInflation THEN OnNewSymbolsAdded(pushed, entries, index)
                ELSE [symbols |-> pushed, entries |-> entries, index |-> index]
  IN  /\ pushed # symbols
      /\ symbols' = t.symbols
      /\ entries' = t.entries
      /\ index'   = t.index

-----------------------------------------------------------------------------
(* combine_and_register_factors, FactorTable::register_new: b is a symbol  *)
(* by which a matrix is extended, a the moment of one of its rows or       *)
(* another such symbol.                                                    *)

RegisterProduct(a, b) ==
  LET joint == CombineFactors(entries[a].canonical, entries[b].canonical)
      id    == NextId(symbols)
  IN  /\ Cardinality({k \in Ids : symbols[k] = Product}) < MaxProducts
      /\ a \in Operands \/ symbols[a].kind = "moment"
      /\ Len(joint) <= MaxFactors
      /\ joint \notin DOMAIN index
      /\ symbols' = Pushed(symbols, Product)
      /\ entries' = Pushed(entries, Entry(joint))
      /\ index'   = With(index, joint, id)

-----------------------------------------------------------------------------
(* FactorTable::try_multiply                                               *)

Unknown == -1      \* errors::unknown_symbol is thrown

FindIndex(list) == IF list \in DOMAIN index THEN index[list] ELSE Unknown

Fundamental(id) == Len(entries[id].canonical) <= 1

Fundamentals(list) ==
  LET Expand(expanded, id) == expanded \o (IF Fundamental(id) THEN <<id>> ELSE entries[id].canonical)
  IN  LeftFold(Expand, <<>>, list)

(* A list of multiplicands.                                                *)
TryMultiplyList(list) ==
  LET rest == WithoutOnes(list)
  IN  CASE list = <<>>                                    -> Zero
        [] Len(list) = 1                                  -> list[1]
        [] Len(list) > 1 /\ Contains(list, Zero)          -> Zero
        [] Len(list) > 1 /\ ~Contains(list, Zero) /\ rest = <<>>    -> One
        [] Len(list) > 1 /\ ~Contains(list, Zero) /\ Len(rest) = 1  -> rest[1]
        [] OTHER -> FindIndex(Sorted(Fundamentals(rest)))

(* Mutant of TryMultiply: two fundamental factors are looked up in the     *)
(* order in which they are given.                                          *)
TryMultiplyUnordered(lhs, rhs) ==
  CASE lhs = Zero \/ rhs = Zero                             -> Zero
    [] lhs # Zero /\ rhs # Zero /\ lhs = One                -> rhs
    [] lhs \notin {Zero, One} /\ rhs = One                  -> lhs
    [] OTHER -> IF Fundamental(lhs) /\ Fundamental(rhs)
                THEN FindIndex(<<lhs, rhs>>)
                ELSE TryMultiplyList(<<lhs, rhs>>)

(* Two multiplicands.                                                      *)
TryMultiply(lhs, rhs) ==
  CASE lhs = Zero \/ rhs = Zero                             -> Zero
    [] lhs # Zero /\ rhs # Zero /\ lhs = One                -> rhs
    [] lhs \notin {Zero, One} /\ rhs = One                  -> lhs
    [] OTHER -> IF Fundamental(lhs) /\ Fundamental(rhs)
                THEN FindIndex(IF lhs < rhs THEN <<lhs, rhs>> ELSE <<rhs, lhs>>)
                ELSE TryMultiplyList(<<lhs, rhs>>)

-----------------------------------------------------------------------------
(* Every symbol has an entry; its list is sorted, holds fundamental        *)
(* symbols only, and its index entry is a symbol with this very list: what *)
(* CombineFactors (which merges without sorting) and every later search    *)
(* rely on, whatever was registered before, in whatever order.  The word   *)
(* of a symbol is one that no relabelling simplifies further, and no two   *)
(* symbols share it.                                                       *)
ListsAreCanonical ==
  IsInflation =>
    /\ DOMAIN entries = Ids
    /\ \A id \in Ids :
         LET list == entries[id].canonical
         IN  /\ IsSorted(list, =<)
             /\ \A i \in DOMAIN list : entries[list[i]].canonical = <<list[i]>>
             /\ list \in DOMAIN index /\ entries[index[list]].canonical = list
             /\ ~CanBeSimplified(Context, symbols[id].word)
             /\ symbols[id].kind = "product" \/ \A k \in Ids \ {id} : symbols[k] # symbols[id]

\* All the ways of relabelling the copies of the sources.
Relabellings(ctx) == [Explicit(ctx) -> {f \in [0..(ctx.level - 1) -> 0..(ctx.level - 1)] : IsInjective(f)}]

Image(ctx, op, relabelling) ==
  LET old == ctx.operators[op]
      new == [s \in DOMAIN old.copies |->
                IF s \in Explicit(ctx) THEN relabelling[s][old.copies[s]] ELSE old.copies[s]]
  IN  CHOOSE n \in DOMAIN ctx.operators : IsOperator(ctx, n, old.observable, new, old.outcome)

\* The words that are the same moment.
Orbit(ctx, word) ==
  {Sorted([i \in DOMAIN word |-> Image(ctx, word[i], r)]) : r \in Relabellings(ctx)}

\* The parts of a word that no source connects, and that cannot be divided.
IndependentParts(ctx, word) ==
  LET Heard(part) == UNION {Connected(ctx, word[i]) : i \in part}
      Closed == {part \in SUBSET DOMAIN word : Heard(part) \cap Heard(DOMAIN word \ part) = {}}
  IN  {part \in Closed \ {{}} : \A other \in Closed \ {{}, part} : ~(other \subseteq part)}

(* The symbol a word is looked up by has the word's independent parts as   *)
(* its factors, each up to a relabelling of the copies of the sources: an  *)
(* entry made while its factors were missing from the symbol table names   *)
(* the right ones, and neither canonical_moment, applied to the word and   *)
(* to each factor on its own, nor the greedy factorize changes a moment.   *)
FactorsMakeTheMoment ==
  IsInflation =>
    \A raw \in UNION {ToSet(words) : words \in scenario.matrices} :
      LET moment == SimplifyWord(Context, raw)
          found  == {id \in Ids : symbols[id] = CanonicalMoment(Context, moment)}
          parts  == IndependentParts(Context, moment.word)
      IN  moment.kind = "moment" /\ moment.word # <<>> =>
            \A id \in found :
              LET list == entries[id].canonical
                  OfOrbit(words) == Cardinality({i \in DOMAIN list : symbols[list[i]].word \in words})
              IN  /\ Len(list) = Cardinality(parts)
                  /\ \A p \in parts :
                       LET words == Orbit(Context, Subsequence(moment.word, p))
                       IN  OfOrbit(words) = Cardinality({q \in parts : Subsequence(moment.word, q) \in words})

(* The two multiplications of the code agree: try_multiply, which special- *)
(* cases 0, 1 and pairs of fundamental symbols, finds the symbol registered *)
(* for the merged lists of combine_symbolic_factors, or neither knows one. *)
MultiplicationsAgree ==
  IsInflation =>
    \A a, b \in Ids \ {Zero} :
      LET joint == CombineFactors(entries[a].canonical, entries[b].canonical)
          id    == TryMultiply(a, b)
      IN  IF joint \in DOMAIN index
          THEN id \in Ids /\ entries[id].canonical = joint
          ELSE id = Unknown
=============================================================================
