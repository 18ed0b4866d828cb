------------------------- MODULE MCRulebookStorage --------------------------
(***************************************************************************)
(* Three small matrix systems.  The first has a Hermitian symbol h, an     *)
(* antihermitian a and a complex x, the second two complex symbols and a   *)
(* Hermitian one above them; the third is an inflation system with         *)
(* symbols A and B and the products AB and AA to be registered.            *)
(***************************************************************************)
EXTENDS RulebookStorage

CONSTANT SystemNumbers

\* A polynomial from its terms, each <<factor, symbol, conjugated>>.
RECURSIVE Poly(_)
Poly(terms) ==
  IF terms = << >> THEN Zero
  ELSE Sum(Monomial(Head(terms)[1], Head(terms)[2], Head(terms)[3]), Poly(Tail(terms)))

i == ImaginaryUnit
F == FALSE
T == TRUE

\* The lists of at most two of the equations.  The order of a list matters only
\* where its equations have the same terms.
Lists(equations) ==
  {SetToSeq(chosen) : chosen \in {c \in SUBSET equations : Cardinality(c) <= 2}}

MixedRules ==
  {Poly(<< <<1, 4, F>>, <<1, 4, T>>, <<1, 3, F>> >>),        \* x + x* = -a
   Poly(<< <<1, 4, F>>, <<2, 4, T>>, <<2, 2, F>> >>),        \* x - x* = h
   Poly(<< <<1, 4, F>>, <<4, 4, T>>, <<2, 2, F>> >>),        \* x + (1+i) x* = h
   Poly(<< <<1, 3, F>>, <<i, 2, F>>, <<1, 1, F>> >>),        \* a = -ih - 1
   Poly(<< <<1, 2, F>>, <<2, 1, F>> >>)}                     \* h = 1

ComplexRules ==
  {Poly(<< <<1, 3, T>>, <<1, 2, F>> >>),                     \* y* = -x
   Poly(<< <<1, 3, F>>, <<1, 3, T>>, <<i, 2, F>> >>),        \* y + y* = -ix
   Poly(<< <<1, 4, F>>, <<i, 3, F>>, <<1, 1, F>> >>),        \* h = -iy - 1
   Poly(<< <<1, 2, F>>, <<1, 2, T>>, <<2, 1, F>> >>)}        \* x + x* = 1

FactorizedLists ==
  LET AIsOne == Poly(<< <<1, 2, F>>, <<2, 1, F>> >>)
      AIsMinusOne == Poly(<< <<1, 2, F>>, <<1, 1, F>> >>)
      BIsZero == Poly(<< <<1, 3, F>> >>)
      BIsMinusAMinusOne == Poly(<< <<1, 3, F>>, <<1, 2, F>>, <<1, 1, F>> >>)
      ABIsMinusOne == Poly(<< <<1, 4, F>>, <<1, 1, F>> >>)
  IN {<< >>, <<AIsOne>>, <<BIsMinusAMinusOne>>, <<ABIsMinusOne>>,
      <<AIsOne, ABIsMinusOne>>, <<AIsMinusOne, BIsZero>>}

h == "hermitian"
SystemSeq ==
  << [inflation |-> FALSE, kinds |-> <<h, h, "antihermitian", "complex", h>>,
      initial |-> 4, last |-> 4, factors |-> << >>, rawRules |-> Lists(MixedRules)],
     [inflation |-> FALSE, kinds |-> <<h, "complex", "complex", h, h>>,
      initial |-> 4, last |-> 4, factors |-> << >>, rawRules |-> Lists(ComplexRules)],
     [inflation |-> TRUE, kinds |-> <<h, h, h, h, h>>, initial |-> 3, last |-> 5,
      factors |-> (4 :> <<2, 3>>) @@ (5 :> <<2, 2>>),
      rawRules |-> FactorizedLists] >>
MCSystems == [n \in SystemNumbers |-> SystemSeq[n]]
-----------------------------------------------------------------------------
(***************************************************************************)
(* The values the symbols may have: real, imaginary, or any.               *)
(***************************************************************************)
ValuesOf(kind) ==
  CASE kind = "hermitian" -> {z \in Complex : Im(z) = 0}
    [] kind = "antihermitian" -> {z \in Complex : Re(z) = 0}
    [] kind = "complex" -> Complex

RECURSIVE ValuesUpTo(_, _)
ValuesUpTo(kinds, last) ==
  IF last = 1 THEN {<<1>>}
  ELSE {Append(values, z) : values \in ValuesUpTo(kinds, last - 1), z \in ValuesOf(kinds[last])}

RECURSIVE ValueOf(_, _, _)
ValueOf(p, ks, values) ==
  IF ks = {} THEN 0
  ELSE LET k == CHOOSE k \in ks : TRUE
           value == values[SymbolOf(k)]
       IN Plus(Times(p[k], IF Conjugated(k) THEN Conj(value) ELSE value),
               ValueOf(p, ks \ {k}, values))
Value(p, values) == ValueOf(p, Terms(p), values)

Factorized(factors, values) ==
  \A id \in DOMAIN factors : values[id] = Times(values[factors[id][1]], values[factors[id][2]])

ValuesTable == [n \in SystemNumbers |-> ValuesUpTo(SystemSeq[n].kinds, SystemSeq[n].last)]
FactorizedTable == [n \in SystemNumbers |->
                      {values \in ValuesTable[n] : Factorized(SystemSeq[n].factors, values)}]

Satisfies(values, equations) == \A p \in equations : Value(p, values) = 0
Obeys(values, rules) == \A id \in DOMAIN rules : values[id] = Value(rules[id].rhs, values)
Solutions(rules) == {values \in ValuesTable[system] : Obeys(values, rules)}
-----------------------------------------------------------------------------
\* The rules of a rulebook have the solutions of the equations it was made from:
\* whatever obeys them satisfies the equations, and whatever satisfies the
\* equations, with products that are the products of their factors, obeys them.
SameSolutions ==
  \A b \in DOMAIN books :
    LET solutions == Solutions(books[b].rules)
    IN /\ \A values \in solutions : Satisfies(values, given[b])
       /\ \A values \in FactorizedTable[system] :
            Satisfies(values, given[b]) => values \in solutions

\* compare_rulebooks: one rulebook is found to contain another exactly if it
\* implies the other's rules.  That asks for rules that are fully reduced.
ComparisonIsRight ==
  \A b \in DOMAIN books :
    LET solutions == Solutions(books[b].rules)
    IN \A c \in DOMAIN books :
         ContainsRules(Kinds, books[b].rules, books[c].rules) <=>
           \A values \in solutions : Obeys(values, books[c].rules)

\* The rules that later symbols bring leave the matrices made before as they are:
\* every entry is still what the rulebook makes of its source.
MatricesStayReduced ==
  \A n \in DOMAIN matrices :
    LET matrix == matrices[n]
    IN merges = matrix.merges =>
         \A k \in DOMAIN matrix.entries :
           matrix.entries[k] =
             Reduce(Kinds, books[matrix.book].rules, Monomial(1, SymbolOf(k), Conjugated(k)))

\* Equations are refused as contradictory only if they have no solution
\* in which products are the products of their factors.
RefusedAreContradictory ==
  refused.equations # {} =>
    \A values \in FactorizedTable[system] : ~Satisfies(values, refused.equations)

\* A merge refused as contradictory leaves the rulebook as it was.
FailedMergeUndone ==
  [][refused'.equations # {} /\ ~refused'.expansion => books' = books]_vars
=============================================================================
