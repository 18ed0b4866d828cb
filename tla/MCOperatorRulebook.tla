--------------------------- MODULE MCOperatorRulebook ---------------------------
(***************************************************************************)
(* Two operators, or one and its adjoint; the rules given to the book are  *)
(* all the rules between words of at most two operators, in families  *)
(* from which no -1 can be derived.                                        *)
(***************************************************************************)
EXTENDS OperatorRulebook

CONSTANT FamilyNames

(***************************************************************************)
(* The meaning of rewrite rules, against which a rulebook is checked: the  *)
(* 2 x 2 matrices with at most one entry, 1 or -1, in each row and each    *)
(* column. They contain projectors, anticommuting reflections and          *)
(* nilpotent matrices, and are closed under products and adjoints.         *)
(***************************************************************************)

Rows == 1..2

\* A row is the column of its entry and its sign, as a power of i, or nothing.
NoEntry == <<0, 0>>
Matrices ==
    {m \in [Rows -> {NoEntry} \cup (Rows \X {0, 2})] : m[1][1] # m[2][1] \/ m[1] = NoEntry}

Product(m, n) ==
    [r \in Rows |-> IF m[r] = NoEntry \/ n[m[r][1]] = NoEntry THEN NoEntry
                    ELSE <<n[m[r][1]][1], Times(m[r][2], n[m[r][1]][2])>>]

Adjoint(m) ==
    [c \in Rows |-> IF \E r \in Rows : m[r][1] = c
                    THEN LET r == CHOOSE q \in Rows : m[q][1] = c
                         IN  <<r, ConjugateSign(m[r][2])>>
                    ELSE NoEntry]

Unit(sign) == [r \in Rows |-> <<r, sign>>]
Null       == [r \in Rows |-> NoEntry]

RECURSIVE Listed(_)
Listed(S) == IF S = {} THEN <<>> ELSE LET x == CHOOSE y \in S : TRUE IN Append(Listed(S \ {x}), x)

\* What the operators may stand for, adjoints for the adjoints: a list for each mode.
Interpretations ==
    [mode \in ConjugateModes |->
        Listed({f \in [0..(NumOperators - 1) -> Matrices] :
            \A op \in DOMAIN f : f[ConjugateOperator(mode, op)] = Adjoint(f[op])})]

RECURSIVE MatrixOf(_, _)
MatrixOf(f, w) == IF w = <<>> THEN Unit(0) ELSE Product(f[Head(w)], MatrixOf(f, Tail(w)))

WordsUpTo(n) == UNION {[1..k -> 0..(NumOperators - 1)] : k \in 0..n}

\* The matrices of short words, in every interpretation.
TableLength == 3
Table ==
    [mode \in ConjugateModes |->
        [w \in WordsUpTo(TableLength) |->
            [n \in DOMAIN Interpretations[mode] |-> MatrixOf(Interpretations[mode][n], w)]]]

RECURSIVE WordMeaning(_, _)
WordMeaning(mode, w) ==
    IF Len(w) <= TableLength THEN Table[mode][w]
    ELSE LET head == Table[mode][SubSeq(w, 1, TableLength)]
             tail == WordMeaning(mode, SubSeq(w, TableLength + 1, Len(w)))
         IN  [n \in DOMAIN head |-> Product(head[n], tail[n])]

Meaning(mode, seq) ==
    LET word == WordMeaning(mode, seq.ops)
    IN  IF seq.hash = 0 THEN [n \in DOMAIN word |-> Null]
        ELSE IF seq.sign = 0 THEN word
        ELSE [n \in DOMAIN word |-> Product(Unit(seq.sign), word[n])]

\* The interpretations in which both sides of a rule are one matrix.
Models(mode, rule) ==
    LET l == Meaning(mode, rule.lhs)
        r == Meaning(mode, rule.rhs)
    IN  {n \in DOMAIN l : l[n] = r[n]}

ModelsOfAll(mode, set) ==
    FoldSet(LAMBDA rule, S : S \cap Models(mode, rule), DOMAIN Interpretations[mode], set)

-----------------------------------------------------------------------------

RulesBetween(words, signs) ==
    {Rule(Sequence(p[1], 0), Sequence(p[2], p[3])) :
        p \in {q \in words \X words \X signs : Hash(q[1]) > Hash(q[2])}}
    \cup {Rule(Sequence(w, 0), Zero) : w \in words \ {<<>>}}

Families ==
    [Signed         |-> RulesBetween(WordsUpTo(2) \ {<<>>}, {0, 2}),
     WithIdentity   |-> RulesBetween(WordsUpTo(2), {0}),
     Anticommuting  |-> {Rule(Sequence(<<0, 0>>, 0), Identity), Rule(Sequence(<<1, 1>>, 0), Identity),
                         Rule(Sequence(<<1, 0>>, 0), Sequence(<<0, 1>>, 2))}]

AddRule ==
    \E F \in {Families[name] : name \in FamilyNames} : \E rule \in F :
        given \subseteq F /\ AddRules(<<rule>>)

\* Everybody has finished.
Finished ==
    /\ phase = "idle" /\ adds = MaxAdds /\ calls = MaxCalls
    /\ UNCHANGED vars

Next ==
    \/ AddRule
    \/ AddCommutators
    \/ AddNormal
    \/ TestCompletion
    \/ \E n \in Limits : StartCompletion(n)
    \/ CompletionStep
    \/ Finished

Spec == Init /\ [][Next]_vars

-----------------------------------------------------------------------------

\* Neither adding rules that compete for a left-hand side, nor reducing the book,
\* nor conjugates and critical pairs change what the equations mean: the matrices
\* that satisfy what was put into the book are those that satisfy what is in it
\* (do_add_rule, reduce_ruleset and complete).
SameAlgebra ==
    ModelsOfAll(conj_mode, given) = ModelsOfAll(conj_mode, Range(rules))

\* 1 = 0 was derived: every word is zero, but the empty one is never reduced.
Collapsed == 1 \in DOMAIN rules

\* The overlaps that combine() and its callers pass over: of a rule with itself,
\* and all but the longest.
Overlaps(p) == SuffixPrefixOverlaps(rules[p[1]].lhs.ops, rules[p[2]].lhs.ops)

Joins(p, n) ==
    LET pair == CriticalPair(rules[p[1]], rules[p[2]], n)
    IN  ReduceViaIteration(rules, pair[1]) = ReduceViaIteration(rules, pair[2])

PassedOverJoin ==
    \A p \in (DOMAIN rules) \X (DOMAIN rules) :
        \A n \in Overlaps(p) : p[1] = p[2] \/ n # Max(Overlaps(p)) => Joins(p, n)

\* When completion has succeeded, the overlaps that it never looks at join, and the
\* algebra did not collapse, normal forms are unique: both ways of reducing, of which
\* reduction_method chooses by the sizes of book and word, give the same result.
MethodsAgree ==
    completed = "complete" /\ ~Collapsed /\ PassedOverJoin =>
        \A w \in WordsUpTo(4) :
            ReduceViaIteration(rules, Sequence(w, 0)) = ReduceViaSearch(rules, Sequence(w, 0))

Reducible(w, book) == \E k \in DOMAIN book : Matches(book[k].lhs.ops, w) # {}

\* While complete() runs, words that reduce keep reducing, and each iteration that
\* it counts makes some irreducible word reducible: it never finds again what it
\* has found before (conjugate_ruleset, try_new_combination and reduce_ruleset).
Progress ==
    [][phase # "idle" /\ ~Collapsed =>
        /\ \A k \in DOMAIN rules : Reducible(rules[k].lhs.ops, rules')
        /\ phase' # "idle" /\ rules' # rules =>
            \E k \in DOMAIN rules' : ~Reducible(rules'[k].lhs.ops, rules)]_vars
=============================================================================

