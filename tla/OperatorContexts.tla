---------------------------- MODULE OperatorContexts ----------------------------
(***************************************************************************)
(* The scenarios' contexts: how strings of operators are put into          *)
(* canonical form, multiplied and conjugated, and which words a scenario   *)
(* has (Context, PauliContext, LocalityContext, AlgebraicContext and the   *)
(* generic OperatorSequenceGenerator).                                     *)
(*                                                                         *)
(* A context is a record: its kind, its number of operators, and what the  *)
(* kind needs besides: the party and the measurement of each operator, or  *)
(* the conjugation mode and the rulebook, which is complete.               *)
(***************************************************************************)
EXTENDS Integers, FiniteSets, FiniteSetsExt, SequencesExt

Words(ctx) == INSTANCE OperatorRule
                WITH NumOperators <- ctx.operators,
                     conj_mode <- IF ctx.kind = "algebraic" THEN ctx.mode ELSE "SelfAdjoint"

Rulebook(ctx) == INSTANCE OperatorRulebook
                   WITH NumOperators <- ctx.operators, conj_mode <- ctx.mode,
                        rules <- ctx.rules, mag <- 0, phase <- "idle", cursor <- 0, remaining <- 0,
                        completed <- "complete", given <- {}, adds <- 0, calls <- 0,
                        MaxAdds <- 0, MaxCalls <- 0, Limits <- {}

Pauli(qubits) == [kind |-> "pauli", operators |-> 3 * qubits]
Locality(parties, measurements) ==
  [kind |-> "locality", operators |-> Len(parties), party |-> parties, measurement |-> measurements]
Algebraic(operators, mode, rules) ==
  [kind |-> "algebraic", operators |-> operators, mode |-> mode, rules |-> rules]

\* Powers of i.
PlusSign(s, t) == (s + t) % 4
MinusSign(s)   == (4 - s) % 4

-----------------------------------------------------------------------------
(* Pauli operators: X, Y and Z of the first qubit, then of the second ...  *)
Qubit(op) == op \div 3
Axis(op)  == 1 + (op % 3)

\* The products of 1, X, Y and Z: k is i times the kth, -k is -i times the kth.
CayleyTable == <<<<0, 1, 2, 3>>, <<1, 0, 3, -2>>, <<2, -3, 0, 1>>, <<3, 2, -1, 0>>>>

\* A factor <<axis, sign>> of one qubit times one more operator of that qubit.
TimesAxis(factor, axis) ==
  LET product == CayleyTable[factor[1] + 1][axis + 1]
  IN  IF factor[1] = 0 THEN <<axis, factor[2]>>
      ELSE IF product < 0 THEN <<-product, PlusSign(factor[2], 3)>>
      ELSE <<product, IF product = 0 THEN factor[2] ELSE PlusSign(factor[2], 1)>>

OfQubit(ops, q) == SelectSeq(ops, LAMBDA op : Qubit(op) = q)
Factor(ops, q)  == FoldLeft(LAMBDA f, op : TimesAxis(f, Axis(op)), <<0, 0>>, OfQubit(ops, q))
Written(q, f)   == IF f[1] = 0 THEN <<>> ELSE <<(3 * q) + f[1] - 1>>

FromFactors(ctx, factors, sign) ==
  LET qubits == [n \in 1..(ctx.operators \div 3) |-> n - 1]
  IN  Words(ctx)!Sequence(FlattenSeq([n \in DOMAIN qubits |-> Written(qubits[n], factors[qubits[n]])]),
                          FoldLeft(LAMBDA s, q : PlusSign(s, factors[q][2]), sign, qubits))

\* Operators are sorted by qubit and multiplied on each.
SimplifyPauli(ctx, ops, sign) ==
  FromFactors(ctx, [q \in 0..((ctx.operators \div 3) - 1) |-> Factor(ops, q)], sign)

\* Words that are canonical, with one operator for a qubit at most, are merged.
\* A scalar's operand is copied, with its hash.
MultiplyPauli(ctx, lhs, rhs) ==
  LET sign == PlusSign(lhs.sign, rhs.sign)
      OnQubit(q) == LET l == Factor(lhs.ops, q)
                        r == Factor(rhs.ops, q)
                    IN  IF r[1] = 0 THEN l ELSE TimesAxis(l, r[1])
  IN  CASE rhs.ops = <<>> -> IF rhs.hash = 0 THEN Words(ctx)!Zero ELSE [lhs EXCEPT !.sign = sign]
        [] lhs.ops = <<>> /\ rhs.ops # <<>> ->
             IF lhs.hash = 0 THEN Words(ctx)!Zero ELSE [rhs EXCEPT !.sign = sign]
        [] OTHER -> FromFactors(ctx, [q \in 0..((ctx.operators \div 3) - 1) |-> OnQubit(q)], sign)

-----------------------------------------------------------------------------
(* Locality: projectors; those of different parties commute, those of one  *)
(* measurement exclude each other.                                         *)
ByParty(ctx, ops) ==
  FlattenSeq([p \in 1..Max(ToSet(ctx.party)) |-> SelectSeq(ops, LAMBDA op : ctx.party[op + 1] = p)])

\* Repeated neighbours are dropped.
Unique(ops) ==
  FoldLeft(LAMBDA done, op : IF done # <<>> /\ Last(done) = op THEN done ELSE Append(done, op), <<>>, ops)

MutuallyExclusive(ctx, l, r) ==
  /\ l # r /\ ctx.party[l + 1] = ctx.party[r + 1]
  /\ ctx.measurement[l + 1] = ctx.measurement[r + 1]

SimplifyLocality(ctx, ops, sign) ==
  LET kept == Unique(ByParty(ctx, ops))
  IN  IF \E i \in 2..Len(kept) : MutuallyExclusive(ctx, kept[i - 1], kept[i]) THEN Words(ctx)!Zero
      ELSE Words(ctx)!Sequence(kept, sign)

-----------------------------------------------------------------------------
SimplifyAlgebraic(ctx, ops, sign) ==
  Rulebook(ctx)!ReduceViaIteration(ctx.rules, Words(ctx)!Sequence(ops, sign))

\* OperatorSequence's constructor.
CanonicalSequence(ctx, ops, sign) ==
  CASE ctx.kind = "pauli"     -> SimplifyPauli(ctx, ops, sign)
    [] ctx.kind = "locality"  -> SimplifyLocality(ctx, ops, sign)
    [] ctx.kind = "algebraic" -> SimplifyAlgebraic(ctx, ops, sign)

MultiplySequences(ctx, lhs, rhs) ==
  IF ctx.kind = "pauli" THEN MultiplyPauli(ctx, lhs, rhs)
  ELSE IF lhs.hash = 0 \/ rhs.hash = 0 THEN Words(ctx)!Zero
  ELSE CanonicalSequence(ctx, lhs.ops \o rhs.ops, PlusSign(lhs.sign, rhs.sign))

\* A word of Pauli operators is its own adjoint; with operators that are not
\* self-adjoint the sign is left out.
ConjugateSequence(ctx, seq) ==
  CASE ctx.kind = "pauli" -> [seq EXCEPT !.sign = MinusSign(@)]
    [] ctx.kind # "pauli" /\ seq.hash = 0 -> Words(ctx)!Zero
    [] OTHER ->
         CanonicalSequence(ctx, Words(ctx)!Conjugate(seq).ops,
                   IF ctx.kind = "algebraic" /\ ctx.mode # "SelfAdjoint" THEN 0 ELSE MinusSign(seq.sign))

\* The strings of operators that are their own canonical form.
IsCanonical(ctx, ops) ==
  IF ctx.kind = "algebraic"
  THEN \A k \in DOMAIN ctx.rules : Words(ctx)!Matches(ctx.rules[k].lhs.ops, ops) = {}
  ELSE CanonicalSequence(ctx, ops, 0).hash = Words(ctx)!Hash(ops)

\* The words of at most the given length, in shortlex order.
GenericSequences(ctx, length) ==
  LET strings == UNION {[1..n -> 0..(ctx.operators - 1)] : n \in 1..length}
      words   == {Words(ctx)!Sequence(ops, 0) : ops \in {s \in strings : IsCanonical(ctx, s)}}
  IN  <<Words(ctx)!Identity>>
        \o [n \in 1..Cardinality(words) |->
              CHOOSE w \in words : Cardinality({v \in words : v.hash < w.hash}) = n - 1]
=============================================================================
