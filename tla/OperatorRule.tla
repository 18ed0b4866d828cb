------------------------------ MODULE OperatorRule ------------------------------
(***************************************************************************)
(* Words over the operators of an algebraic scenario, and rules that       *)
(* rewrite them: HashedSequence, ShortlexHasher, SequenceSignType,         *)
(* AlgebraicPrecontext and OperatorRule.                                   *)
(*                                                                         *)
(* Operators are numbers from 0. A sequence carries its shortlex hash (0   *)
(* for zero, 1 for the identity) and the power of i it is multiplied by.   *)
(* Hashes are unbounded here: 64 bits hold every word of the lengths that  *)
(* check_rule_length admits.                                               *)
(***************************************************************************)
EXTENDS Integers, Sequences, SequencesExt

CONSTANT NumOperators   \* including the adjoints of operators that are not self-adjoint

VARIABLE conj_mode      \* how operators conjugate

ASSUME NumOperatorsAssumption == NumOperators \in Nat \ {0}

ConjugateModes == {"SelfAdjoint", "Bunched", "Interleaved"}

Times(s, t)      == (s + t) % 4
Difference(s, t) == (4 + t - s) % 4
ConjugateSign(s) == (4 - s) % 4
Negated(s)       == s >= 2

\* Shortlex: shorter words come first, words of one length in dictionary order.
RECURSIVE Hash(_)
Hash(ops) == IF ops = <<>> THEN 1 ELSE (Hash(Front(ops)) - 1) * NumOperators + Last(ops) + 2

Sequence(ops, sign) == [ops |-> ops, hash |-> Hash(ops), sign |-> sign]
Identity            == [ops |-> <<>>, hash |-> 1, sign |-> 0]
Zero                == [ops |-> <<>>, hash |-> 0, sign |-> 0]

ConjugateOperator(mode, op) ==
    CASE mode = "SelfAdjoint" -> op
      [] mode = "Bunched"     -> (op + NumOperators \div 2) % NumOperators
      [] mode = "Interleaved" -> IF op % 2 = 0 THEN op + 1 ELSE op - 1

Conjugate(seq) ==
    IF seq.hash = 0 THEN Zero
    ELSE Sequence([i \in DOMAIN seq.ops |-> ConjugateOperator(conj_mode, Reverse(seq.ops)[i])],
                  ConjugateSign(seq.sign))

\* Where a pattern occurs in a word: at each of its places, for the empty one.
Matches(pattern, ops) ==
    {i \in 1..Min({Len(ops), Len(ops) - Len(pattern) + 1}) :
        SubSeq(ops, i, i + Len(pattern) - 1) = pattern}

SuffixPrefixOverlaps(l, r) ==
    {n \in 1..Min({Len(l), Len(r)}) : SubSeq(l, Len(l) - n + 1, Len(l)) = SubSeq(r, 1, n)}

-----------------------------------------------------------------------------
(* Rules. Every rule the program makes has hash(lhs) >= hash(rhs): the      *)
(* constructor throws otherwise.                                           *)

\* The sign of the left-hand side moves to the right.
Rule(lhs, rhs) ==
    [lhs |-> [lhs EXCEPT !.sign = 0],
     rhs |-> [rhs EXCEPT !.sign = Difference(lhs.sign, rhs.sign)]]

Trivial(rule)     == rule.lhs.hash = rule.rhs.hash /\ ~Negated(rule.rhs.sign)
ImpliesZero(rule) == rule.rhs.hash = 0

\* The word with the match at its place replaced, times the rule's sign.
ApplyMatch(rule, seq, at) ==
    IF ImpliesZero(rule) THEN Zero
    ELSE Sequence(SubSeq(seq.ops, 1, at - 1) \o rule.rhs.ops
                      \o SubSeq(seq.ops, at + Len(rule.lhs.ops), Len(seq.ops)),
                  Times(seq.sign, rule.rhs.sign))

\* An equation between two sequences as a rule; zero has no sign.
Oriented(s, t) ==
    LET big   == IF s.hash < t.hash THEN t ELSE s
        small == IF s.hash < t.hash THEN s ELSE t
    IN  IF small.hash = 0 THEN Rule([big EXCEPT !.sign = 0], Zero) ELSE Rule(big, small)

\* The word where the left-hand sides of a and b overlap in n places, rewritten
\* by a at its beginning and by b at its end.
CriticalPair(a, b, n) ==
    LET joined == Sequence(SubSeq(a.lhs.ops, 1, Len(a.lhs.ops) - n) \o b.lhs.ops, 0)
    IN  <<ApplyMatch(a, joined, 1), ApplyMatch(b, joined, Len(a.lhs.ops) - n + 1)>>

\* Only the longest overlap is considered.
Combine(a, b) ==
    LET pair == CriticalPair(a, b, Max(SuffixPrefixOverlaps(a.lhs.ops, b.lhs.ops)))
    IN  Oriented(pair[1], pair[2])

CanCombine(a, b) == SuffixPrefixOverlaps(a.lhs.ops, b.lhs.ops) # {}

ConjugateRule(rule) == Oriented(Conjugate(rule.lhs), Conjugate(rule.rhs))
=============================================================================
