------------------------- MODULE MCProbabilityTensors -------------------------
(***************************************************************************)
(* Inflations of small causal networks and locality scenarios.  Matrices   *)
(* are those of all words of at most two operators (the moment matrix of   *)
(* level 1) and those of a single word (a localizing matrix of level 0).   *)
(***************************************************************************)
EXTENDS ProbabilityTensors

Locality == INSTANCE OperatorContexts

\* In the order of their hashes: shorter words first.
ShortLex(words) ==
  LET Before(v, w) == \/ Len(v) < Len(w)
                      \/ Len(v) = Len(w) /\ \E i \in DOMAIN v : v[i] < w[i] /\ \A j \in 1..(i - 1) : v[j] = w[j]
  IN  [n \in 1..Cardinality(words) |-> CHOOSE w \in words : Cardinality({v \in words : Before(v, w)}) = n - 1]

SingleWords(words) == {<<w>> : w \in words}

InflationScenario(name, ctx, words) ==
  [name |-> name, kind |-> "inflation", context |-> ctx, layout |-> InflationLayout(ctx),
   matrices |-> {ShortLex(Words(ctx, 2))} \cup SingleWords(words)]

\* A word and its adjoint have one symbol, of the one that comes first.
LocalityScenario(name, outcomes, words) ==
  LET layout == LocalityLayout(outcomes)
      owners == FlattenSeq([p \in DOMAIN layout |->
                  FlattenSeq([m \in DOMAIN layout[p] |-> [k \in DOMAIN layout[p][m].operators |-> <<p, m>>]])])
      ctx    == Locality!Locality([i \in DOMAIN owners |-> owners[i][1]], [i \in DOMAIN owners |-> owners[i][2]])
      all    == Locality!GenericSequences(ctx, 2)
      once   == SelectSeq(all, LAMBDA w : w.hash <= Locality!ConjugateSequence(ctx, w).hash)
  IN  [name |-> name, kind |-> "locality", context |-> ctx, layout |-> layout,
       matrices |-> {[i \in DOMAIN once |-> once[i].ops]} \cup SingleWords(words)]

\* A source of two observables, copied.
Pair == InflationScenario("pair", Inflation(<<2, 2>>, <<{1, 2}>>, 2), {<<2, 3>>, <<1, 2, 3, 4>>})
\* Two sources with an observable in common, copied.
Chain == InflationScenario("chain", Inflation(<<2, 2, 2>>, <<{1, 2}, {2, 3}>>, 2), {<<2, 4, 5>>, <<1, 2, 3, 6, 7>>})
\* The observable of two sources alone.
Both == InflationScenario("both", Inflation(<<2>>, <<{1}, {1}>>, 2), {<<2, 4>>, <<2, 3, 4>>})
\* One of three outcomes with a source, one that is no measurement without.
Mixed == InflationScenario("mixed", Inflation(<<3, 0>>, <<{1}>>, 2), {<<2, 3, 5>>, <<4, 5, 5>>})
\* No copies: words are as they are.
Line == InflationScenario("line", Inflation(<<2, 2, 2>>, <<{1, 2}, {2, 3}>>, 1), {<<1, 3>>, <<1, 2, 3>>})

TwoParties   == LocalityScenario("twoParties", <<<<2, 2>>, <<2, 2>>>>, {<<0, 2>>, <<3>>})
Trit         == LocalityScenario("trit", <<<<3>>, <<2, 3>>>>, {<<1, 3>>, <<4>>})
ThreeParties == LocalityScenario("threeParties", <<<<2>>, <<2>>, <<2>>>>, {<<0, 1, 2>>, <<0, 2>>})

MCScenarios == {Pair, Chain, Both, Mixed, Line, TwoParties, Trit, ThreeParties}
=============================================================================
