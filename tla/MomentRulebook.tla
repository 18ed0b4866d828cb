--------------------------- MODULE MomentRulebook ---------------------------
(***************************************************************************)
(* A moment rulebook turns polynomial equations into rules, one per        *)
(* symbol, such that applying every rule once brings a polynomial to its   *)
(* normal form.  complete() works through the raw equations one by one:    *)
(* each is reduced by the rules so far, oriented into a rule, and used to  *)
(* reduce the rules of later symbols.  The operators here are the          *)
(* functions on polynomials (Polynomial), on one rule (MomentRule) and on  *)
(* one rulebook (MomentRulebook); RulebookStorage is the system that calls *)
(* them.                                                                   *)
(***************************************************************************)
EXTENDS Integers, FiniteSets, FiniteSetsExt, Sequences, SequencesExt

-----------------------------------------------------------------------------
(* Polynomials over the symbols 1 .. MaxSymbol, 1 being the identity.  A   *)
(* polynomial is the row of its coefficients over the terms X1, X1*, X2,   *)
(* X2*, ... in the order of the factory, a coefficient 0 standing for a    *)
(* term that is not stored: the code's sorted vector without duplicates or *)
(* zeros.  The kind of a symbol says whether it equals its conjugate, minus*)
(* its conjugate, or neither; "kinds" is the symbol table.                 *)

CONSTANT MaxSymbol

(***************************************************************************)
(* The coefficients of polynomials.  The code computes with                *)
(* std::complex<double> and compares up to a tolerance; what its algebra   *)
(* uses of them is a field with a conjugation, a square root i of -1 and   *)
(* an inverse of 2.  The smallest such field stands for them: the nine     *)
(* numbers a + bi with a and b modulo 3, written a + 3b.                   *)
(***************************************************************************)
Complex == 0 .. 8
ImaginaryUnit == 3
MinusOne == 2
Half == 2                                    \* 2 * 2 = 1 modulo 3

Re(z) == z % 3
Im(z) == z \div 3
Number(re, im) == (re % 3) + 3 * (im % 3)

Conj(z) == Number(Re(z), -Im(z))
Norm(z) == (Re(z) * Re(z) + Im(z) * Im(z)) % 3
Reciprocal(z) == Number(Re(z) * Norm(z), -Im(z) * Norm(z))

PlusTable == [z \in Complex |-> [w \in Complex |-> Number(Re(z) + Re(w), Im(z) + Im(w))]]
TimesTable == [z \in Complex |-> [w \in Complex |->
                 Number(Re(z) * Re(w) - Im(z) * Im(w), Re(z) * Im(w) + Im(z) * Re(w))]]
Plus(z, w) == PlusTable[z][w]
Times(z, w) == TimesTable[z][w]

-----------------------------------------------------------------------------

Slots == 1 .. 2 * MaxSymbol
SymbolOf(k) == (k + 1) \div 2
Conjugated(k) == k % 2 = 0
SlotOf(id, conjugated) == IF conjugated THEN 2 * id ELSE 2 * id - 1
Twin(k) == SlotOf(SymbolOf(k), ~Conjugated(k))

Zero == [k \in Slots |-> 0]
Monomial(factor, id, conjugated) ==
  [k \in Slots |-> IF k = SlotOf(id, conjugated) THEN factor ELSE 0]

\* The same row with its coefficients worked out: TLC computes those of a function
\* expression anew at every use, until it has compared the function with another.
Row(p) == IF p = Zero THEN Zero ELSE p

Terms(p) == {k \in Slots : p[k] # 0}
IsMonomial(p) == Cardinality(Terms(p)) <= 1
LastTerm(p) == Max(Terms(p))
LastId(p) == IF p = Zero THEN 0 ELSE SymbolOf(LastTerm(p))
PopBack(p) == [p EXCEPT ![LastTerm(p)] = 0]

Sum(p, q) == Row([k \in Slots |-> Plus(p[k], q[k])])
Scale(factor, p) == Row([k \in Slots |-> Times(factor, p[k])])

\* X* of a Hermitian symbol is X, of an antihermitian one -X.
FixCC(kinds, p) ==
  Row([k \in Slots |->
     LET kind == kinds[SymbolOf(k)]
     IN CASE kind = "complex" -> p[k]
          [] kind = "hermitian" -> IF Conjugated(k) THEN 0 ELSE Plus(p[k], p[Twin(k)])
          [] kind = "antihermitian" ->
               IF Conjugated(k) THEN 0 ELSE Plus(p[k], Times(MinusOne, p[Twin(k)]))])

Conjugate(kinds, p) == FixCC(kinds, Row([k \in Slots |-> Conj(p[Twin(k)])]))
IsHermitian(kinds, p) == Conjugate(kinds, p) = p
IsAntihermitian(kinds, p) == Conjugate(kinds, p) = Scale(MinusOne, p)

RealPart(kinds, p) == Scale(Half, Sum(p, Conjugate(kinds, p)))
ImaginaryPart(kinds, p) ==
  Scale(Times(Times(MinusOne, ImaginaryUnit), Half),
        Sum(p, Scale(MinusOne, Conjugate(kinds, p))))

\* The order in which complete() sorts the raw rules: by the greatest term in
\* which two polynomials differ; coefficients do not count.
Less(p, q) ==
  LET differing == (Terms(p) \ Terms(q)) \cup (Terms(q) \ Terms(p))
  IN differing # {} /\ Max(differing) \in Terms(q)

-----------------------------------------------------------------------------
(* A moment rule replaces a symbol by a polynomial.  It is made from an    *)
(* equation "polynomial = 0": if the leading symbol X occurs without its   *)
(* conjugate, or can be freed of it, the rule is X -> P; otherwise the     *)
(* equation fixes only the part of X in one direction d of the complex     *)
(* plane, and the partial rule X -> d R + X/2 - d^2 X*/2 keeps the other   *)
(* part.  What an equation says beyond its rule (the imaginary part, when  *)
(* the left side is real) comes out as a second polynomial, "split".       *)
(*                                                                         *)
(* The directions are 1 and i: the square roots that lie between them do   *)
(* not exist among the nine coefficients.                                  *)

Difficulty(p) ==
  CASE p = Zero -> "Trivial"
    [] LastId(p) = 1 -> "Contradiction"
    [] LastId(p) > 1 /\ LastId(PopBack(p)) # LastId(p) -> "Simple"
    [] LastId(p) > 1 /\ LastId(PopBack(p)) = LastId(p) ->
         IF Norm(p[LastTerm(p)]) # Norm(p[Twin(LastTerm(p))])
         THEN "NeedsReorienting" ELSE "NonorientableRule"

PopBackAndNormalize(kinds, p) ==
  LET last == LastTerm(p)
      rest == Scale(Times(MinusOne, Reciprocal(p[last])), PopBack(p))
  IN IF Conjugated(last) THEN Conjugate(kinds, rest) ELSE rest

Reorient(kinds, p) ==
  Sum(PopBackAndNormalize(kinds, p),
      Scale(MinusOne, PopBackAndNormalize(kinds, Conjugate(kinds, p))))

FullRule(lhs, rhs, split) ==
  [lhs |-> lhs, rhs |-> rhs, partial |-> FALSE, direction |-> 0, split |-> split]

\* Mutant of SplitRegularRule: what the other part of the equation says is lost.
SplitRegularRuleSilent(kinds, lhs, rhs) ==
  CASE kinds[lhs] = "hermitian" -> FullRule(lhs, RealPart(kinds, rhs), Zero)
    [] kinds[lhs] = "antihermitian" ->
         FullRule(lhs, Scale(ImaginaryUnit, ImaginaryPart(kinds, rhs)), Zero)
    [] kinds[lhs] = "complex" -> FullRule(lhs, rhs, Zero)

SplitRegularRule(kinds, lhs, rhs) ==
  CASE kinds[lhs] = "hermitian" /\ ~IsHermitian(kinds, rhs) ->
         FullRule(lhs, RealPart(kinds, rhs), ImaginaryPart(kinds, rhs))
    [] kinds[lhs] = "antihermitian" /\ ~IsAntihermitian(kinds, rhs) ->
         FullRule(lhs, Scale(ImaginaryUnit, ImaginaryPart(kinds, rhs)), RealPart(kinds, rhs))
    [] OTHER -> FullRule(lhs, rhs, Zero)

\* The direction e with e * e = ratio, in the upper half plane.
Direction(ratio) == CASE ratio = 1 -> 1 [] ratio = MinusOne -> ImaginaryUnit

ResolveNonorientable(kinds, p) ==
  LET lhs == LastId(p)
      k == p[SlotOf(lhs, FALSE)]
      direction == Direction(Times(p[SlotOf(lhs, TRUE)], Reciprocal(k)))
      factor == Times(MinusOne, Times(Conj(direction), Times(Half, Reciprocal(k))))
      rotated == Scale(factor, PopBack(PopBack(p)))
      free == Sum(Monomial(Half, lhs, FALSE),
                  Monomial(Times(MinusOne, Times(Half, Times(direction, direction))), lhs, TRUE))
  IN [lhs |-> lhs,
      rhs |-> Sum(Scale(direction, RealPart(kinds, rotated)), free),
      partial |-> TRUE, direction |-> direction,
      split |-> ImaginaryPart(kinds, rotated)]

\* The rule of a polynomial that is neither trivial nor a contradiction.
Rule(kinds, p) ==
  IF Difficulty(p) = "NonorientableRule" THEN ResolveNonorientable(kinds, p)
  ELSE SplitRegularRule(kinds, LastId(p),
         PopBackAndNormalize(kinds,
           IF Difficulty(p) = "NeedsReorienting" THEN Reorient(kinds, p) ELSE p))

\* Two partial rules of one symbol, in perpendicular directions, make it whole.
MergePartial(rule, other) ==
  FullRule(rule.lhs, Sum(PopBack(PopBack(rule.rhs)), PopBack(PopBack(other.rhs))), Zero)

AsPolynomial(rule) == Sum(rule.rhs, Monomial(MinusOne, rule.lhs, FALSE))

Transformed(kinds, rule, factor, conjugated) ==
  Scale(factor, IF conjugated THEN Conjugate(kinds, rule.rhs) ELSE rule.rhs)

\* The polynomial with the rule's symbol, and its conjugate, replaced.
ReduceWith(kinds, rule, p) ==
  LET plain == SlotOf(rule.lhs, FALSE)
      conj == SlotOf(rule.lhs, TRUE)
  IN IF p[plain] = 0 /\ p[conj] = 0
     THEN p
     ELSE FixCC(kinds, Sum([p EXCEPT ![plain] = 0, ![conj] = 0],
                           Sum(Transformed(kinds, rule, p[plain], FALSE),
                               Transformed(kinds, rule, p[conj], TRUE))))

-----------------------------------------------------------------------------
(* The rulebook.                                                           *)

EmptyBook(allowSafeUpdates) ==
  [rules |-> << >>, raw |-> << >>, monomial |-> TRUE, hermitian |-> TRUE,
   allow |-> allowSafeUpdates, expanding |-> FALSE, usages |-> 0]

InUse(book) == book.usages > 0
MayAddRules(book) == book.expanding \/ ~InUse(book)

RECURSIVE ReduceTerms(_, _, _, _)
ReduceTerms(kinds, rules, ids, p) ==
  IF ids = {} THEN Zero
  ELSE LET id == CHOOSE id \in ids : TRUE
           image == Sum(Transformed(kinds, rules[id], p[SlotOf(id, FALSE)], FALSE),
                        Transformed(kinds, rules[id], p[SlotOf(id, TRUE)], TRUE))
       IN Sum(image, ReduceTerms(kinds, rules, ids \ {id}, p))

\* Every term is looked up once; what the rules put in is not looked up again.
Reduce(kinds, rules, p) ==
  LET matched == {SymbolOf(k) : k \in Terms(p)} \cap DOMAIN rules
      rest == [k \in Slots |-> IF SymbolOf(k) \in matched THEN 0 ELSE p[k]]
  IN IF matched = {} THEN p
     ELSE FixCC(kinds, Sum(rest, ReduceTerms(kinds, rules, matched, p)))

\* A rule with one term, or none, applied to a single term.
ReduceMonomial(kinds, rules, k) ==
  LET id == SymbolOf(k)
  IN IF id \notin DOMAIN rules THEN [j \in Slots |-> IF j = k THEN 1 ELSE 0]
     ELSE IF rules[id].rhs = Zero THEN Zero
     ELSE LET last == LastTerm(rules[id].rhs)
              factor == rules[id].rhs[last]
          IN FixCC(kinds, Monomial(IF Conjugated(k) THEN Conj(factor) ELSE factor,
                                   SymbolOf(last), Conjugated(k) # Conjugated(last)))

\* A polynomial with at most one term is stored inside the object, and is still
\* there after its contents have been moved away.
MovedFrom(p) == IF IsMonomial(p) THEN p ELSE Zero

WithRule(rules, rule) == [id \in DOMAIN rules \cup {rule.lhs} |->
                            IF id = rule.lhs THEN rule ELSE rules[id]]

\* Mutant of Insert: the rules of later symbols keep the new rule's symbol.
InsertOnly(kinds, rules, rule) ==
  IF rule.lhs \in DOMAIN rules
  THEN WithRule(rules, MergePartial(rules[rule.lhs], rule))
  ELSE WithRule(rules, rule)

\* A rule for a new symbol is added; a partial one is joined to the partial rule
\* that has its symbol already.  The rules of later symbols are reduced by it.
Insert(kinds, rules, rule) ==
  LET new == IF rule.lhs \in DOMAIN rules THEN MergePartial(rules[rule.lhs], rule) ELSE rule
  IN [id \in DOMAIN rules \cup {rule.lhs} |->
        CASE id = rule.lhs -> new
          [] id < rule.lhs -> rules[id]
          [] id > rule.lhs -> [rules[id] EXCEPT !.rhs = ReduceWith(kinds, new, @)]]

\* One turn of the loop of complete(): the state of the loop is the rules, the raw
\* rules and the index of the one to process, and "reduced" is what that one
\* reduces to.
WithNewRule(kinds, loop, moved, rule) ==
  [loop EXCEPT !.rules = Insert(kinds, @, [rule EXCEPT !.split = Zero]),
               !.raw = IF rule.split = Zero THEN moved ELSE Append(moved, rule.split),
               !.index = @ + 1]
Processed(kinds, loop, reduced) ==
  LET moved == [loop.raw EXCEPT ![loop.index] = MovedFrom(@)]
  IN IF reduced = Zero THEN [loop EXCEPT !.raw = moved, !.index = @ + 1]
     ELSE IF Difficulty(reduced) = "Contradiction"
          THEN [loop EXCEPT !.raw = moved, !.thrown = TRUE]
          ELSE WithNewRule(kinds, loop, moved, Rule(kinds, reduced))

RECURSIVE Process(_, _)
Process(kinds, loop) ==
  IF loop.thrown \/ loop.index > Len(loop.raw) THEN loop
  ELSE Process(kinds, Processed(kinds, loop,
                                Reduce(kinds, loop.rules, loop.raw[loop.index])))

MonomialRules(rules) == \A id \in DOMAIN rules : IsMonomial(rules[id].rhs)
HermitianRules(kinds, rules) ==
  \A id \in DOMAIN rules : kinds[id] = "hermitian" => IsHermitian(kinds, rules[id].rhs)

\* The outcome of a call that may throw: the rulebook after it, and what it threw.
Returned(book) == [book |-> book, thrown |-> "nothing"]
Thrown(book, error) == [book |-> book, thrown |-> error]

AddRawRules(book, raw) ==
  IF MayAddRules(book) THEN Returned([book EXCEPT !.raw = @ \o raw])
  ELSE Thrown(book, "already_in_use")

Completed(kinds, book, loop) ==
  IF loop.thrown
  THEN Thrown([book EXCEPT !.rules = loop.rules, !.raw = loop.raw], "invalid_moment_rule")
  ELSE Returned([book EXCEPT !.rules = loop.rules, !.raw = << >>,
                   !.monomial = MonomialRules(loop.rules),
                   !.hermitian = HermitianRules(kinds, loop.rules)])

Complete(kinds, book) ==
  IF ~MayAddRules(book) THEN Thrown(book, "already_in_use")
  ELSE IF book.raw = << >> THEN Returned(book)
  ELSE Completed(kinds, book,
                 Process(kinds, [rules |-> book.rules, raw |-> SortSeq(book.raw, Less),
                                 index |-> 1, thrown |-> FALSE]))

InOrder(ids) == SelectSeq([id \in 1 .. MaxSymbol |-> id], LAMBDA id : id \in ids)
PolynomialsOf(rules) ==
  LET ids == InOrder(DOMAIN rules) IN [n \in DOMAIN ids |-> AsPolynomial(rules[ids[n]])]

\* Mutant of RestoredIfThrown: a contradiction leaves what it has come to.
KeptIfThrown(book, done) == done

RestoredIfThrown(book, done) ==
  IF done.thrown = "nothing" THEN done ELSE Thrown(book, done.thrown)

\* The other rulebook's rules become raw rules of this one.  A contradiction
\* restores the rules and forgets the raw ones.
CombineAndComplete(kinds, book, other) ==
  CASE ~MayAddRules(book) \/ InUse(other) -> Thrown(book, "already_in_use")
    [] MayAddRules(book) /\ ~InUse(other) /\ (book.raw # << >> \/ other.raw # << >>) ->
         Thrown(book, "rules_pending")
    [] OTHER ->
         IF DOMAIN book.rules = {}
         THEN Returned([book EXCEPT !.rules = other.rules, !.monomial = other.monomial,
                          !.hermitian = other.hermitian])
         ELSE IF DOMAIN other.rules = {} THEN Returned(book)
         ELSE RestoredIfThrown(book,
                Complete(kinds, [book EXCEPT !.raw = PolynomialsOf(other.rules)]))

\* The symbols of the rules of "other" that the rulebook's own rules do not imply.
NoncontainedRules(kinds, rules, other) ==
  IF DOMAIN rules = {} THEN DOMAIN other
  ELSE {id \in DOMAIN other : Reduce(kinds, rules, AsPolynomial(other[id])) # Zero}

ContainsRules(kinds, rules, other) == NoncontainedRules(kinds, rules, other) = {}
=============================================================================
