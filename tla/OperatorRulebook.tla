---------------------------- MODULE OperatorRulebook ----------------------------
(***************************************************************************)
(* OperatorRulebook: rewrite rules keyed by the hash of their left-hand    *)
(* side, and their completion by the Knuth-Bendix procedure, as            *)
(* AlgebraicContext and the function `complete` of the MATLAB interface    *)
(* call them. A call of complete() is taken apart into the steps of its    *)
(* two loops. How long completion may go on is bounded by its argument;    *)
(* the loop over conjugates is bounded by nothing.                         *)
(***************************************************************************)
EXTENDS OperatorRule, FiniteSets, TLC

CONSTANTS MaxAdds,    \* bound: rules given to the book, one at a time
          MaxCalls,   \* bound: calls of complete() and is_complete()
          Limits      \* arguments max_iterations

VARIABLES rules,      \* monomialRules: hash of the left-hand side -> rule
          mag,        \* magnitude of the book when it was last calculated
          phase,      \* "idle", "conjugating", "combining"
          cursor,     \* conjugating: the hash of the last rule looked at
          remaining,  \* max_iterations less the iterations done
          completed,  \* the verdict of the last call: rules_completed of the context
          given,      \* history: the equations put into the book
          adds, calls

vars == <<conj_mode, rules, mag, phase, cursor, remaining, completed, given, adds, calls>>

\* ceil(log2(count))
Magnitude(count) == IF count < 2 THEN count ELSE Min({m \in 1..count : 2^m >= count})

-----------------------------------------------------------------------------
(* Reduction of a sequence.                                                *)

\* The rules of which the left-hand side occurs in the word, by iteration: the
\* lowest one is applied at its first place.
RECURSIVE ReduceViaIteration(_, _)
ReduceViaIteration(book, seq) ==
    LET hits == {k \in DOMAIN book : Matches(book[k].lhs.ops, seq.ops) # {}}
        rule == book[Min(hits)]
    IN  IF hits = {} THEN seq
        ELSE ReduceViaIteration(book, ApplyMatch(rule, seq, Min(Matches(rule.lhs.ops, seq.ops))))

\* SubstringHashIter: the substrings <<last, first>> that are left-hand sides;
\* those that end last come first, then those that are shortest.
KnownSubstrings(book, seq) ==
    {p \in (DOMAIN seq.ops) \X (DOMAIN seq.ops) :
        p[2] <= p[1] /\ Hash(SubSeq(seq.ops, p[2], p[1])) \in DOMAIN book}

RECURSIVE ReduceViaSearch(_, _)
ReduceViaSearch(book, seq) ==
    LET hits  == KnownSubstrings(book, seq)
        last  == Max({p[1] : p \in hits})
        first == Max({p[2] : p \in {q \in hits : q[1] = last}})
    IN  IF hits = {} THEN seq
        ELSE ReduceViaSearch(book, ApplyMatch(book[Hash(SubSeq(seq.ops, first, last))], seq, first))

\* reduction_method: the magnitude it uses is not kept up to date in between.
IterateRules(book, seq) == Cardinality(DOMAIN book) <= ((Len(seq.ops) + 1) * mag) \div 2

\* An empty sequence is made again from whether it is zero: its sign is lost.
Reduce(book, seq) ==
    IF seq.ops = <<>> THEN (IF seq.hash = 0 THEN Zero ELSE Identity)
    ELSE IF IterateRules(book, seq) THEN ReduceViaIteration(book, seq)
    ELSE ReduceViaSearch(book, seq)

\* Both sides are reduced; a sequence that is its own negative is zero.
ReduceRule(book, rule) ==
    LET l == Reduce(book, rule.lhs)
        r == Reduce(book, rule.rhs)
    IN  IF l.hash = r.hash /\ Difference(l.sign, r.sign) = 2 THEN Rule([l EXCEPT !.sign = 0], Zero)
        ELSE IF l.hash > r.hash THEN Rule(l, r) ELSE Rule(r, l)

-----------------------------------------------------------------------------
(* Changes of the book. std::map::insert leaves an entry that is there.    *)

\* Mutant of DoAddRule: of two rules with one left-hand side the lower one is
\* kept, and what they imply for their right-hand sides is forgotten.
DoAddRuleForgetting(book, rule) ==
    LET key == rule.lhs.hash
    IN  IF Trivial(rule) \/ (key \in DOMAIN book /\ book[key].rhs.hash <= rule.rhs.hash) THEN book
        ELSE (key :> rule) @@ book

RECURSIVE DoAddRule(_, _)
DoAddRule(book, rule) ==
    LET key == rule.lhs.hash
        old == book[key]
    IN  CASE Trivial(rule) -> book
          [] ~Trivial(rule) /\ key \notin DOMAIN book -> book @@ (key :> rule)
          [] OTHER ->
             IF old.rhs.hash = rule.rhs.hash
             THEN IF old.rhs.sign = rule.rhs.sign THEN book
                  ELSE DoAddRule((key :> Rule(rule.lhs, Zero)) @@ book,
                                 Rule([rule.rhs EXCEPT !.sign = 0], Zero))
             ELSE IF old.rhs.hash < rule.rhs.hash
             THEN DoAddRule(book, Rule(rule.rhs, old.rhs))
             ELSE DoAddRule((key :> rule) @@ book, Rule(old.rhs, rule.rhs))

RECURSIVE DoAddRules(_, _)
DoAddRules(book, list) ==
    IF list = <<>> THEN book ELSE DoAddRules(DoAddRule(book, Head(list)), Tail(list))

\* One pass in ascending order of the hash: each rule is taken out, reduced by
\* the others, and put back, at a lower place if its left-hand side got lower.
RECURSIVE ReduceRulesAfter(_, _)
ReduceRulesAfter(book, key) ==
    LET rest    == {k \in DOMAIN book : k > key}
        next    == Min(rest)
        others  == [k \in DOMAIN book \ {next} |-> book[k]]
        reduced == ReduceRule(others, book[next])
    IN  IF rest = {} THEN book
        ELSE ReduceRulesAfter(IF Trivial(reduced) THEN others
                              ELSE others @@ (reduced.lhs.hash :> reduced), next)

ReduceRuleset(book) == ReduceRulesAfter(book, -1)

InsertAndReduce(book, rule) == ReduceRuleset(book @@ (rule.lhs.hash :> rule))

\* What a pair of rules implies beyond the book.
CombinedRule(book, p) == ReduceRule(book, Combine(book[p[1]], book[p[2]]))

\* Mutant of NewCombinations: only a lower rule before a higher one is looked at.
NewCombinationsUpwards(book) ==
    {p \in (DOMAIN book) \X (DOMAIN book) :
        /\ p[1] < p[2]
        /\ CanCombine(book[p[1]], book[p[2]])
        /\ ~Trivial(CombinedRule(book, p))}

NewCombinations(book) ==
    {p \in (DOMAIN book) \X (DOMAIN book) :
        /\ p[1] # p[2]
        /\ CanCombine(book[p[1]], book[p[2]])
        /\ ~Trivial(CombinedRule(book, p))}

FirstPair(pairs) ==
    LET a == Min({p[1] : p \in pairs})
    IN  <<a, Min({p[2] : p \in {q \in pairs : q[1] = a}})>>

ConjugatedRule(book, key) == ReduceRule(book, ConjugateRule(book[key]))

MockConjugate(book) == \E k \in DOMAIN book : ~Trivial(ConjugatedRule(book, k))

IsComplete(book, test_cc) ==
    /\ test_cc => ~MockConjugate(book)
    /\ NewCombinations(book) = {}

-----------------------------------------------------------------------------
(* Rules that every commuting, or normal, set of operators obeys.          *)

SwapRule(b, a) == Rule(Sequence(<<b, a>>, 0), Sequence(<<a, b>>, 0))

CommutatorRules ==
    FlattenSeq([i \in 1..(NumOperators - 1) |->
        LET b == NumOperators - i IN [j \in 1..b |-> SwapRule(b, b - j)]])

NormalRules ==
    IF conj_mode = "SelfAdjoint" THEN <<>>
    ELSE [i \in 1..(NumOperators \div 2) |->
            IF conj_mode = "Bunched" THEN SwapRule(i - 1 + NumOperators \div 2, i - 1)
            ELSE SwapRule(2 * i - 1, 2 * i - 2)]

-----------------------------------------------------------------------------

Init ==
    /\ conj_mode \in ConjugateModes
    /\ NumOperators % 2 = 1 => conj_mode = "SelfAdjoint"
    /\ rules = <<>>
    /\ mag = 0
    /\ phase = "idle"
    /\ cursor = -1
    /\ remaining = 0
    /\ completed = "unknown"
    /\ given = {}
    /\ adds = 0
    /\ calls = 0

Verdict(b) == IF b THEN "complete" ELSE "incomplete"

\* add_rules, with the rules of the user, of commuting or of normal operators.
AddRules(list) ==
    /\ phase = "idle"
    /\ adds < MaxAdds
    /\ adds' = adds + 1
    /\ rules' = DoAddRules(rules, list)
    /\ mag' = Magnitude(Cardinality(DOMAIN rules'))
    /\ given' = given \cup Range(list)
    /\ completed' = "unknown"
    /\ UNCHANGED <<conj_mode, phase, cursor, remaining, calls>>

AddCommutators == NumOperators > 1 /\ AddRules(CommutatorRules)
AddNormal      == NormalRules # <<>> /\ AddRules(NormalRules)

\* complete(0), and is_complete().
TestCompletion ==
    /\ phase = "idle"
    /\ calls < MaxCalls
    /\ calls' = calls + 1
    /\ completed' = Verdict(IsComplete(rules, TRUE))
    /\ UNCHANGED <<conj_mode, rules, mag, phase, cursor, remaining, given, adds>>

\* complete(n), to the loop of conjugate_ruleset.
StartCompletion(n) ==
    /\ phase = "idle"
    /\ calls < MaxCalls
    /\ n > 0
    /\ calls' = calls + 1
    /\ phase' = "conjugating"
    /\ cursor' = -1
    /\ remaining' = n
    /\ UNCHANGED <<conj_mode, rules, mag, completed, given, adds>>

\* Mutant of ConjugateNext: a conjugate counts as new before it is reduced.
ConjugateNextUnreduced ==
    /\ phase = "conjugating"
    /\ \E k \in DOMAIN rules :
        /\ k > cursor /\ \A j \in DOMAIN rules : j > cursor => k <= j
        /\ IF Trivial(ConjugateRule(rules[k])) \/ ConjugateRule(rules[k]) = rules[k]
           THEN cursor' = k /\ UNCHANGED <<rules, remaining>>
           ELSE /\ rules' = InsertAndReduce(rules, ConjugateRule(rules[k]))
                /\ cursor' = Min(DOMAIN rules')
                /\ remaining' = IF remaining = 0 THEN 0 ELSE remaining - 1
    /\ UNCHANGED <<conj_mode, mag, phase, completed, given, adds, calls>>

\* try_conjugation of the next rule. After a new rule the loop goes back to the
\* first rule and on to the second.
ConjugateNext ==
    /\ phase = "conjugating"
    /\ \E k \in DOMAIN rules :
        /\ k > cursor /\ \A j \in DOMAIN rules : j > cursor => k <= j
        /\ IF Trivial(ConjugatedRule(rules, k))
           THEN cursor' = k /\ UNCHANGED <<rules, remaining>>
           ELSE /\ rules' = InsertAndReduce(rules, ConjugatedRule(rules, k))
                /\ cursor' = Min(DOMAIN rules')
                /\ remaining' = IF remaining = 0 THEN 0 ELSE remaining - 1
    /\ UNCHANGED <<conj_mode, mag, phase, completed, given, adds, calls>>

ConjugationDone ==
    /\ phase = "conjugating"
    /\ \A k \in DOMAIN rules : k <= cursor
    /\ phase' = "combining"
    /\ cursor' = -1
    /\ UNCHANGED <<conj_mode, rules, mag, remaining, completed, given, adds, calls>>

Finish(verdict) ==
    /\ phase' = "idle"
    /\ remaining' = 0
    /\ completed' = Verdict(verdict)
    /\ mag' = Magnitude(Cardinality(DOMAIN rules'))
    /\ UNCHANGED <<conj_mode, cursor, given, adds, calls>>

\* try_new_combination: the book is reduced, then the first pair of rules that
\* implies something new adds it.
CombineNext ==
    /\ phase = "combining" /\ remaining > 0
    /\ LET reduced == ReduceRuleset(rules)
           pairs   == NewCombinations(reduced)
       IN  /\ pairs # {}
           /\ rules' = InsertAndReduce(reduced, CombinedRule(reduced, FirstPair(pairs)))
    /\ remaining' = remaining - 1
    /\ UNCHANGED <<conj_mode, mag, phase, cursor, completed, given, adds, calls>>

CombinationsDone ==
    /\ phase = "combining" /\ remaining > 0
    /\ rules' = ReduceRuleset(rules)
    /\ NewCombinations(rules') = {}
    /\ Finish(TRUE)

GiveUp ==
    /\ phase = "combining" /\ remaining = 0
    /\ UNCHANGED rules
    /\ Finish(IsComplete(rules, FALSE))

CompletionStep == ConjugateNext \/ ConjugationDone \/ CombineNext \/ CombinationsDone \/ GiveUp
=============================================================================
