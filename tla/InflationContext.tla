--------------------------- MODULE InflationContext ---------------------------
(***************************************************************************)
(* Causal networks and their inflations (CausalNetwork, Observable,        *)
(* InflationContext): which operators there are, when a word of them is    *)
(* zero, which relabelling of the copies of the sources makes it canonical *)
(* as a moment, and into which independent words it factorizes.            *)
(*                                                                         *)
(* A context is a record: outcomes[o] is the number of outcomes of         *)
(* observable o (0 when it is not a measurement), sources[s] the set of    *)
(* observables that source s reaches, level the number of copies of each   *)
(* source, operators the table of the operators.  Operators, observables   *)
(* and sources are numbered from 1 here, copies from 0.                    *)
(***************************************************************************)
EXTENDS FactorLists, FiniteSetsExt

Explicit(net)   == DOMAIN net.sources
Observables(net) == DOMAIN net.outcomes

(* CausalNetwork::reverse_observable_to_source: an observable that no      *)
(* source reaches has a source of its own, with one copy at every level.   *)
Implicit(net, o)  == Len(net.sources) + o
Reaching(net, o)  == {s \in Explicit(net) : o \in net.sources[s]}
Singleton(net, o) == Reaching(net, o) = {}

OperatorCount(net, o) == IF net.outcomes[o] = 0 THEN 1 ELSE net.outcomes[o] - 1
CopyCount(net, o)     == net.level ^ Cardinality(Reaching(net, o))

(* Observable::unflatten_index: the copies of the sources that reach       *)
(* variant v of observable o; the first source's copy changes fastest.     *)
Copies(net, o, v) ==
  IF Singleton(net, o) THEN [s \in {Implicit(net, o)} |-> 0]
  ELSE Table([s \in Reaching(net, o) |->
                (v \div (net.level ^ Cardinality({t \in Reaching(net, o) : t < s}))) % net.level])

Operators(net) ==
  FlattenSeq([o \in Observables(net) |->
    FlattenSeq([v \in 1..CopyCount(net, o) |->
      [k \in 1..OperatorCount(net, o) |->
         [observable |-> o, copies |-> Copies(net, o, v - 1), outcome |-> k]]])])

Inflation(outcomes, sources, level) ==
  LET net == [outcomes |-> outcomes, sources |-> sources, level |-> level]
  IN  [outcomes |-> outcomes, sources |-> sources, level |-> level, operators |-> Operators(net)]

IsOperator(ctx, op, observable, copies, outcome) ==
  LET info == ctx.operators[op]
  IN  info.observable = observable /\ info.copies = copies /\ info.outcome = outcome

(* What the constructors see to: the operators are those of all variants   *)
(* of the observables, once each, variant by variant, and variants that    *)
(* hear later copies come later.                                           *)
IsContext(ctx) ==
  LET Ops    == DOMAIN ctx.operators
      info   == ctx.operators
      copies == 0..(ctx.level - 1)
  IN  /\ ctx.level \in Nat \ {0}
      /\ Ops = 1..Cardinality(Ops) /\ IsFiniteSet(Ops)
      /\ \A m \in Ops :
           /\ info[m].copies \in [DOMAIN info[m].copies -> copies]
           /\ \A new \in [DOMAIN info[m].copies -> copies] :
                (\A s \in DOMAIN new \ Explicit(ctx) : new[s] = info[m].copies[s]) =>
                  \E n \in Ops : IsOperator(ctx, n, info[m].observable, new, info[m].outcome)
      /\ \A m, n \in Ops :
           /\ IsOperator(ctx, m, info[n].observable, info[n].copies, info[n].outcome) => m = n
           /\ info[m].observable = info[n].observable => DOMAIN info[m].copies = DOMAIN info[n].copies
           /\ /\ info[m].observable = info[n].observable /\ info[m].outcome = info[n].outcome
              /\ \A s \in DOMAIN info[m].copies : info[m].copies[s] <= info[n].copies[s]
              => m <= n
           /\ \A k \in m..n :
                info[m].observable = info[n].observable /\ info[m].copies = info[n].copies =>
                  info[k].observable = info[m].observable /\ info[k].copies = info[m].copies

CanHaveAliases(ctx) == ctx.level > 1 /\ ctx.sources # <<>>

-----------------------------------------------------------------------------
(* Words.                                                                  *)

\* The sources that an operator hears, each with its copy.
Connected(ctx, op) ==
  LET copies == ctx.operators[op].copies IN {<<s, copies[s]>> : s \in DOMAIN copies}

SameVariant(ctx, l, r) == /\ ctx.operators[l].observable = ctx.operators[r].observable
                          /\ ctx.operators[l].copies = ctx.operators[r].copies
Orthogonal(ctx, l, r) == l # r /\ SameVariant(ctx, l, r)
Redundant(ctx, l, r)  == l = r /\ ctx.outcomes[ctx.operators[l].observable] # 0

ZeroMoment   == [kind |-> "zero", word |-> <<>>]
Moment(word) == [kind |-> "moment", word |-> word]

(* InflationContext::additional_simplification: all operators commute.     *)
SimplifyWord(ctx, word) ==
  LET sorted == Sorted(word)
      kept   == {i \in DOMAIN sorted : i = 1 \/ ~Redundant(ctx, sorted[i - 1], sorted[i])}
  IN  IF \E i \in 2..Len(sorted) : Orthogonal(ctx, sorted[i - 1], sorted[i]) THEN ZeroMoment
      ELSE Moment(Subsequence(sorted, kept))

-----------------------------------------------------------------------------
(* Moments: the copies of a source are alike, so that they may be          *)
(* relabelled.                                                             *)

\* Operator i of the word hears copy c of source s.
Hears(ctx, word, i, s, c) ==
  LET copies == ctx.operators[word[i]].copies IN s \in DOMAIN copies /\ copies[s] = c

(* InflationContext::find_permutation: the copies of a source are named in *)
(* the order in which the word's operators hear them, so that the name of  *)
(* copy c is the number of those that are heard before it is.              *)
HeardBefore(ctx, word, s, c) ==
  {d \in 0..(ctx.level - 1) :
     \E i \in DOMAIN word : Hears(ctx, word, i, s, d) /\ \A j \in 1..i : ~Hears(ctx, word, j, s, c)}
NewName(ctx, word, s, c) == Cardinality(HeardBefore(ctx, word, s, c))

CanBeSimplified(ctx, word) ==
  /\ CanHaveAliases(ctx)
  /\ \E i \in DOMAIN word, s \in Explicit(ctx), c \in 0..(ctx.level - 1) :
       Hears(ctx, word, i, s, c) /\ NewName(ctx, word, s, c) # c

(* CausalNetwork::permute_variant: the operator that hears other copies.   *)
Relabelled(ctx, word, op) ==
  LET old == ctx.operators[op]
      new == [s \in DOMAIN old.copies |->
                IF s \in Explicit(ctx) THEN NewName(ctx, word, s, old.copies[s]) ELSE old.copies[s]]
  IN  CHOOSE n \in DOMAIN ctx.operators : IsOperator(ctx, n, old.observable, new, old.outcome)

Permuted(ctx, word) == Table([i \in DOMAIN word |-> Relabelled(ctx, word, word[i])])

(* InflationContext::simplify_as_moment, apply_permutation: the copies are *)
(* renamed; if that puts the operators out of order, they are sorted, and  *)
(* all is done again.                                                      *)
SimplifyAsMoment(ctx, word) ==
  LET Next(w) == SimplifyWord(ctx, Permuted(ctx, w)).word
      simplest[w \in Seq(DOMAIN ctx.operators)] ==
        IF ~CanBeSimplified(ctx, w) THEN w
        ELSE IF IsSorted(Permuted(ctx, w), =<) THEN Next(w)
        ELSE simplest[Next(w)]
  IN  simplest[word]

CanonicalMoment(ctx, moment) ==
  IF moment.kind = "zero" THEN moment ELSE Moment(SimplifyAsMoment(ctx, moment.word))

-----------------------------------------------------------------------------
(* InflationContext::factorize.                                            *)

Linked(ctx, l, r) == Connected(ctx, l) \cap Connected(ctx, r) # {}

(* The operators that hear the sources of those already taken are taken,   *)
(* the first of them at a time.                                            *)
Grown(ctx, word, first) ==
  LET Next(taken) == {i \in DOMAIN word \ taken : \E j \in taken : Linked(ctx, word[i], word[j])}
      grown[taken \in SUBSET DOMAIN word] ==
        IF Next(taken) = {} THEN taken ELSE grown[taken \cup {Min(Next(taken))}]
  IN  grown[{first}]

TakeFactor(ctx, word, done, i) ==
  LET factor == Grown(ctx, word, i)
  IN  IF i \in done.taken THEN done
      ELSE [taken   |-> done.taken \cup factor,
            factors |-> Append(done.factors, SimplifyWord(ctx, Subsequence(word, factor)))]

Factorize(ctx, moment) ==
  LET Take(done, i) == TakeFactor(ctx, moment.word, done, i)
  IN  IF Len(moment.word) <= 1 THEN <<moment>>
      ELSE LeftFold(Take, [taken |-> {}, factors |-> <<>>], [i \in DOMAIN moment.word |-> i]).factors

-----------------------------------------------------------------------------
(* InflationOperatorSequenceGenerator: the words of at most the given      *)
(* length that are their own simplification.                               *)
Words(ctx, length) ==
  {w \in UNION {[1..n -> DOMAIN ctx.operators] : n \in 0..length} : SimplifyWord(ctx, w) = Moment(w)}
=============================================================================
