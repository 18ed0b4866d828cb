-------------------------- MODULE RulebookStorage ---------------------------
(***************************************************************************)
(* The rulebooks of a matrix system, the matrices made with them, and, for *)
(* an inflation system, the rules inferred from factorization.             *)
(*                                                                         *)
(* In an inflation system a symbol may be the product of others: a rule    *)
(* for a factor then implies one for the product.  Such rules are added    *)
(* when a rulebook joins the system or is merged into, and for the new     *)
(* symbols whenever a moment matrix or a dictionary registers some.  A     *)
(* rulebook that has made a matrix accepts no other rules.                 *)
(*                                                                         *)
(* Every operation runs under the system's write lock.  A rulebook is made *)
(* and completed by its caller before it is added or merged.               *)
(***************************************************************************)
EXTENDS MomentRulebook

CONSTANTS
  Systems,            \* the matrix systems considered, see below
  MaxBooks,           \* bound on the rulebooks stored
  MaxMerges,          \* bound on the merges that succeed
  MaxMatrices         \* bound on the matrices made

(***************************************************************************)
(* A matrix system is a record:                                            *)
(*   inflation   whether it is an inflation system,                        *)
(*   kinds       the kind of each symbol (of 1 .. MaxSymbol),              *)
(*   initial     how many symbols are registered at first,                 *)
(*   last        how many will ever be,                                    *)
(*   factors     the factor list of each symbol that is a product,         *)
(*   rawRules    the lists of equations its rulebooks are made from.       *)
(***************************************************************************)

VARIABLES
  system,    \* which of Systems it is
  books,     \* the rulebooks, by index
  given,     \* history: the equations each of them was made from
  symbols,   \* how many symbols are registered
  matrices,  \* the substituted matrices made, in order
  merges,    \* how many merges there were
  refused    \* history: the equations the last operation found contradictory

vars == <<system, books, given, symbols, matrices, merges, refused>>

Inflation == Systems[system].inflation
Kinds == Systems[system].kinds
Factors == Systems[system].factors
RawRules == Systems[system].rawRules
LastSymbol == Systems[system].last

Product == DOMAIN Factors
FactorsOf(id) == IF id \in Product THEN Factors[id] ELSE << id >>
SymbolsWithFactors(list, last) ==
  {id \in 1 .. last : SortSeq(FactorsOf(id), <) = SortSeq(list, <)}

\* FactorTable::try_multiply of two terms: a conjugate, or a product that none of
\* the symbols up to "last" stands for, is an unknown symbol.
Multiplicable(k, l, last) ==
  /\ ~Conjugated(k) /\ ~Conjugated(l)
  /\ \/ SymbolOf(k) = 1 \/ SymbolOf(l) = 1
     \/ SymbolsWithFactors(FactorsOf(SymbolOf(k)) \o FactorsOf(SymbolOf(l)), last) # {}

ProductSymbol(id1, id2, last) ==
  IF id1 = 1 THEN id2 ELSE IF id2 = 1 THEN id1
  ELSE CHOOSE id \in SymbolsWithFactors(FactorsOf(id1) \o FactorsOf(id2), last) : TRUE

IsScalar(p) == Terms(p) = {SlotOf(1, FALSE)}
CanMultiply(p, q, last) ==
  IsScalar(q) \/ \A k \in Terms(p), l \in Terms(q) : Multiplicable(k, l, last)

RECURSIVE SumOfProducts(_, _, _, _)
SumOfProducts(p, q, pairs, last) ==
  IF pairs = {} THEN Zero
  ELSE LET pair == CHOOSE pair \in pairs : TRUE
       IN Sum(Monomial(Times(p[pair[1]], q[pair[2]]),
                       ProductSymbol(SymbolOf(pair[1]), SymbolOf(pair[2]), last), FALSE),
              SumOfProducts(p, q, pairs \ {pair}, last))

TryMultiply(p, q, last) ==
  IF IsScalar(q) THEN Scale(q[SlotOf(1, FALSE)], p)
  ELSE SumOfProducts(p, q, Terms(p) \X Terms(q), last)

\* Mutant of FactorImage: a factor that no rule is about is left out.
FactorImageOrOne(rules, id) == IF id \in DOMAIN rules THEN rules[id].rhs ELSE Monomial(1, 1, FALSE)

\* What a rulebook's rules make of the factors of a product symbol.
FactorImage(rules, id) == IF id \in DOMAIN rules THEN rules[id].rhs ELSE Monomial(1, id, FALSE)

\* The multiplications stop once the product is zero.
RECURSIVE ProductOfFactors(_, _, _, _)
ProductOfFactors(rules, list, product, last) ==
  CASE list = << >> \/ product = Zero -> Returned(product)
    [] list # << >> /\ product # Zero ->
         LET image == FactorImage(rules, Head(list))
         IN IF CanMultiply(product, image, last)
            THEN ProductOfFactors(rules, Tail(list), TryMultiply(product, image, last), last)
            ELSE Thrown(product, "unknown_symbol")

ProductOf(rules, id, last) ==
  ProductOfFactors(rules, Tail(Factors[id]), FactorImage(rules, Head(Factors[id])), last)

\* Mutant of Expandable: the products that are not new are looked at again.
ExpandableFromFirst(rules, from, last) ==
  {id \in Product \cap (1 .. last) : \E n \in DOMAIN Factors[id] : Factors[id][n] \in DOMAIN rules}

\* The registered product symbols from "from" on that a rule has a factor of.
Expandable(rules, from, last) ==
  {id \in Product \cap (from .. last) : \E n \in DOMAIN Factors[id] : Factors[id][n] \in DOMAIN rules}

\* InflationMatrixSystem::expand_rulebook, with "last" symbols registered.  A
\* rulebook without rules, and one whose expansion throws, stays in expansion mode.
ExpansionOver(done) ==
  IF done.thrown = "nothing" THEN Returned([done.book EXCEPT !.expanding = FALSE]) ELSE done
ExpandBy(book, ids, products) ==
  IF \E n \in DOMAIN ids : products[n].thrown # "nothing" THEN Thrown(book, "unknown_symbol")
  ELSE ExpansionOver(Complete(Kinds, AddRawRules(book,
         [n \in DOMAIN ids |-> Sum(products[n].book, Monomial(MinusOne, ids[n], FALSE))]).book))
ExpandInOrder(book, ids, last) ==
  ExpandBy(book, ids, [n \in DOMAIN ids |-> ProductOf(book.rules, ids[n], last)])

ExpandRulebook(book, from, last) ==
  IF ~Inflation \/ ~book.allow THEN Returned(book)
  ELSE IF DOMAIN book.rules = {} THEN Returned([book EXCEPT !.expanding = TRUE])
  ELSE ExpandInOrder([book EXCEPT !.expanding = TRUE],
                     InOrder(Expandable(book.rules, from, last)), last)
-----------------------------------------------------------------------------
\* Equations are made of registered symbols.
Known(raw) == \A n \in DOMAIN raw : LastId(raw[n]) <= symbols

\* A caller's new rulebook, completed: a function of the list it is made from.
NewRulebooks ==
  [n \in DOMAIN Systems |->
     [raw \in Systems[n].rawRules |-> [allow \in BOOLEAN |->
        Complete(Systems[n].kinds, AddRawRules(EmptyBook(allow), raw).book)]]]
NewRulebook(raw, allow) == NewRulebooks[system][raw][allow]

Refuse(equations, expansion) ==
  refused' = [equations |-> equations, expansion |-> expansion]
NothingRefused == refused' = [equations |-> {}, expansion |-> FALSE]
RefuseIfContradictory(thrown, equations, expansion) ==
  IF thrown = "invalid_moment_rule" THEN Refuse(equations, expansion) ELSE NothingRefused

Init ==
  /\ system \in DOMAIN Systems
  /\ books = << >>
  /\ given = << >>
  /\ symbols = Systems[system].initial
  /\ matrices = << >>
  /\ merges = 0
  /\ refused = [equations |-> {}, expansion |-> FALSE]

\* RulebookStorage::add: a rulebook whose expansion throws is taken out again.
KeepIfExpanded(raw, expanded) ==
  /\ RefuseIfContradictory(expanded.thrown, Range(raw), TRUE)
  /\ IF expanded.thrown = "nothing"
     THEN /\ books' = Append(books, expanded.book)
          /\ given' = Append(given, Range(raw))
     ELSE UNCHANGED <<books, given>>
AddNew(raw, new) ==
  IF new.thrown # "nothing"
  THEN /\ RefuseIfContradictory(new.thrown, Range(raw), FALSE)
       /\ UNCHANGED <<books, given>>
  ELSE KeepIfExpanded(raw, ExpandRulebook(new.book, 1, symbols))

Add(raw, allow) ==
  /\ Len(books) < MaxBooks
  /\ Known(raw)
  /\ AddNew(raw, NewRulebook(raw, allow))
  /\ UNCHANGED <<system, symbols, matrices, merges>>

\* RulebookStorage::merge_in: what combine_and_complete did stays, even if the
\* expansion that follows throws.
KeepExpanded(b, equations, expanded) ==
  /\ RefuseIfContradictory(expanded.thrown, equations, TRUE)
  /\ books' = [books EXCEPT ![b] = expanded.book]
  /\ given' = [given EXCEPT ![b] = equations]
  /\ merges' = merges + 1
MergeCombined(b, equations, combined) ==
  IF combined.thrown # "nothing"
  THEN /\ RefuseIfContradictory(combined.thrown, equations, FALSE)
       /\ books' = [books EXCEPT ![b] = combined.book]
       /\ UNCHANGED <<given, merges>>
  ELSE KeepExpanded(b, equations, ExpandRulebook(combined.book, 1, symbols))
MergeNew(b, raw, new) ==
  /\ new.thrown = "nothing"
  /\ MergeCombined(b, given[b] \cup Range(raw), CombineAndComplete(Kinds, books[b], new.book))

MergeIn(b, raw) ==
  /\ merges < MaxMerges
  /\ Known(raw)
  /\ MergeNew(b, raw, NewRulebook(raw, TRUE))
  /\ UNCHANGED <<system, symbols, matrices>>

\* The entries of a matrix of all the system's terms, reduced by a rulebook.
SourceTerms == {k \in Slots : SymbolOf(k) <= symbols /\
                              (Conjugated(k) => Kinds[SymbolOf(k)] = "complex")}
Entry(book, k) ==
  IF book.monomial THEN ReduceMonomial(Kinds, book.rules, k)
  ELSE Reduce(Kinds, book.rules, Monomial(1, SymbolOf(k), Conjugated(k)))

\* MomentRulebook::create_substituted_matrix, once for every rulebook: the matrix
\* system keeps the matrix.  The rulebook counts as used from here on, even when
\* a rule turns out not to be the monomial it is flagged to be.
CreateSubstitutedMatrix(b) ==
  LET notMonomial == books[b].monomial /\ \E k \in SourceTerms :
                       SymbolOf(k) \in DOMAIN books[b].rules /\
                       ~IsMonomial(books[b].rules[SymbolOf(k)].rhs)
  IN /\ Len(matrices) < MaxMatrices
     /\ \A n \in DOMAIN matrices : matrices[n].book # b
     /\ books' = [books EXCEPT ![b].usages = 1]
     /\ matrices' = IF notMonomial THEN matrices
                    ELSE Append(matrices,
                           [book |-> b, merges |-> merges,
                            entries |-> [k \in SourceTerms |-> Entry(books[b], k)]])
     /\ NothingRefused
     /\ UNCHANGED <<system, given, symbols, merges>>

\* refreshAll: the rulebooks are expanded in turn, until one throws.
Refreshed(refresh, expanded) ==
  [books |-> [refresh.books EXCEPT ![refresh.next] = expanded.book],
   next |-> refresh.next + 1, thrown |-> expanded.thrown]

RECURSIVE RefreshAll(_, _)
RefreshAll(refresh, last) ==
  IF refresh.thrown # "nothing" \/ refresh.next > Len(refresh.books) THEN refresh
  ELSE RefreshAll(Refreshed(refresh,
                            ExpandRulebook(refresh.books[refresh.next], symbols + 1, last)),
                  last)

\* A new moment matrix or dictionary registers symbols, up to "last".
KeepRefreshed(refresh) ==
  /\ books' = refresh.books
  /\ IF refresh.thrown = "invalid_moment_rule" THEN Refuse(given[refresh.next - 1], TRUE)
     ELSE NothingRefused
RegisterSymbols(last) ==
  /\ Inflation
  /\ symbols' = last
  /\ KeepRefreshed(RefreshAll([books |-> books, next |-> 1, thrown |-> "nothing"], last))
  /\ UNCHANGED <<system, given, matrices, merges>>

\* An extended matrix registers a product; no rulebook is told.
ExtendMatrix ==
  /\ Inflation
  /\ symbols < LastSymbol
  /\ symbols' = symbols + 1
  /\ NothingRefused
  /\ UNCHANGED <<system, books, given, matrices, merges>>

Next ==
  \/ \E raw \in RawRules, allow \in IF Inflation THEN BOOLEAN ELSE {TRUE} : Add(raw, allow)
  \/ \E b \in DOMAIN books, raw \in RawRules : MergeIn(b, raw)
  \/ \E b \in DOMAIN books : CreateSubstitutedMatrix(b)
  \/ \E last \in symbols + 1 .. LastSymbol : RegisterSymbols(last)
  \/ ExtendMatrix

Spec == Init /\ [][Next]_vars
=============================================================================
