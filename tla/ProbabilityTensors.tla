-------------------------- MODULE ProbabilityTensors --------------------------
(***************************************************************************)
(* The tensors of probabilities that a locality or an inflation system     *)
(* keeps beside its symbol table (MaintainsTensors): the Collins-Gisin     *)
(* tensor, each of whose elements is the symbol of a product of operators, *)
(* and the probability and full correlator tensors, each of whose elements *)
(* is a polynomial in elements of the former and, once these have symbols, *)
(* in symbols.                                                             *)
(*                                                                         *)
(* An index of a tensor has an entry for each dimension, 0 where nothing   *)
(* is measured.  A polynomial maps what it adds up, indices of the         *)
(* Collins-Gisin tensor or ids of symbols, to coefficients.  A layout has  *)
(* for each dimension the measurements to choose from: their operators,    *)
(* the number of their outcomes, and whether each outcome has an operator  *)
(* (else the last has none, as the outcomes sum to 1).                     *)
(***************************************************************************)
EXTENDS FactorTable

CONSTANTS ExplicitLimit,  \* elements up to which a tensor is stored (1024 in the code)
          MaxElements     \* bound: elements of the probability tensors that are made

ASSUME LimitsAssumption == ExplicitLimit \in Nat /\ MaxElements \in Nat

(* Matrices are lists of words of the scenario's operators.  In a locality *)
(* scenario the last outcome of a measurement has no operator.             *)
ASSUME ScenariosAssumption ==
  \A s \in Scenarios :
    /\ s.layout \in Seq(Seq([operators : Seq(Nat), outcomes : Nat, explicit : BOOLEAN]))
    /\ \A words \in s.matrices : words \in Seq(Seq(Nat))
    /\ s.kind = "inflation" =>
         IsContext(s.context) /\ \A words \in s.matrices : words \in Seq(Seq(DOMAIN s.context.operators))
    /\ s.kind # "inflation" =>
         \A d \in DOMAIN s.layout : \A m \in DOMAIN s.layout[d] :
           Len(s.layout[d][m].operators) = s.layout[d][m].outcomes - 1

VARIABLES cg,  \* CollinsGisin: its storage; at each index the id of the symbol, or NotFound
          pt,  \* ProbabilityTensor: its storage; at each index a polynomial in symbols, or Missing
          fc   \* FullCorrelator: likewise
tensors == <<cg, pt, fc>>
vars    == <<scenario, tables, tensors>>

Absent   == [storage |-> "absent", at |-> <<>>]   \* not yet made
Virtual  == [storage |-> "virtual", at |-> <<>>]  \* made, but each element only when it is read
NotFound == -1
Missing  == [id \in {NotFound} |-> 1]


-----------------------------------------------------------------------------
(* Layouts.                                                                *)

Measurement(operators, outcomes, explicit) ==
  [operators |-> operators, outcomes |-> outcomes, explicit |-> explicit]

(* LocalityContext, Party: a dimension for each party, whose measurements  *)
(* have these numbers of outcomes; operators are numbered from 0.          *)
LocalityLayout(outcomes) ==
  LET Places == UNION {{<<p, m>> : m \in DOMAIN outcomes[p]} : p \in DOMAIN outcomes}
      Offset(p, m) == MapThenSumSet(LAMBDA q : outcomes[q[1]][q[2]] - 1,
                                    {q \in Places : q[1] < p \/ (q[1] = p /\ q[2] < m)})
  IN  [p \in DOMAIN outcomes |-> [m \in DOMAIN outcomes[p] |->
         Measurement([k \in 1..(outcomes[p][m] - 1) |-> Offset(p, m) + k - 1], outcomes[p][m], FALSE)]]

(* InflationCollinsGisin, InflationProbabilityTensor: a dimension for each *)
(* copy of each observable.                                                *)
InflationLayout(ctx) ==
  LET Variant(o, v) ==
        LET ops == {n \in DOMAIN ctx.operators : /\ ctx.operators[n].observable = o
                                                 /\ ctx.operators[n].copies = Copies(ctx, o, v)}
        IN  IF ctx.outcomes[o] = 0 THEN Measurement(<<Min(ops)>>, 1, TRUE)
            ELSE Measurement([k \in 1..(ctx.outcomes[o] - 1) |-> Min(ops) + k - 1], ctx.outcomes[o], FALSE)
  IN  FlattenSeq([o \in Observables(ctx) |-> [n \in 1..CopyCount(ctx, o) |-> <<Variant(o, n - 1)>>]])

Indices(sizes)  == {x \in [DOMAIN sizes -> 0..(Max(ToSet(sizes)) - 1)] : \A d \in DOMAIN sizes : x[d] < sizes[d]}
Elements(sizes) == FoldFunction(LAMBDA size, product : size * product, 1, sizes)
Support(x)      == {d \in DOMAIN x : x[d] # 0}

\* How many operators, outcomes, dimension d of layout l has before its mth measurement.
OperatorsBefore(l, d, m) == LeftFold(LAMBDA n, mmt : n + Len(mmt.operators), 0, SubSeq(l[d], 1, m - 1))
OutcomesBefore(l, d, m)  == LeftFold(LAMBDA n, mmt : n + mmt.outcomes, 0, SubSeq(l[d], 1, m - 1))

CGSizes(l) == [d \in DOMAIN l |-> 1 + OperatorsBefore(l, d, Len(l[d]) + 1)]
PTSizes(l) == [d \in DOMAIN l |-> 1 + OutcomesBefore(l, d, Len(l[d]) + 1)]
FCSizes(l) == [d \in DOMAIN l |-> 1 + Len(l[d])]

Layout == scenario.layout

\* Whether tensors are made of a scenario.
HasTensors(s) == Elements(PTSizes(s.layout)) <= MaxElements

Storage(sizes) == IF Elements(sizes) <= ExplicitLimit THEN "explicit" ELSE "virtual"
Explicitly(elements) == [storage |-> "explicit", at |-> Table(elements)]

-----------------------------------------------------------------------------
(* CollinsGisin                                                            *)

Operator(l, d, i) == FlattenSeq([m \in DOMAIN l[d] |-> l[d][m].operators])[i]

(* LocalityContext::additional_simplification: words are sorted by party,  *)
(* and repeated neighbours are dropped; those here have an operator of a   *)
(* party at most, so that none exclude each other.                         *)
SimplifyByParty(ctx, word) ==
  LET sorted == SortedBy([i \in DOMAIN word |-> ctx.party[word[i] + 1]], word)
  IN  Subsequence(sorted, {i \in DOMAIN sorted : i = 1 \/ sorted[i - 1] # sorted[i]})

(* cgi_to_op_seq: the operators an index chooses, one for a dimension.     *)
CGWord(s, x) ==
  LET l   == s.layout
      ops == FlattenSeq([d \in DOMAIN l |-> IF x[d] = 0 THEN <<>> ELSE <<Operator(l, d, x[d])>>])
  IN  IF s.kind = "inflation" THEN SimplifyWord(s.context, ops).word ELSE SimplifyByParty(s.context, ops)
CGWords(s) == Table([x \in Indices(CGSizes(s.layout)) |-> CGWord(s, x)])

\* The symbol of a moment; symbols are unique.
IdOf(moment) == Max({NotFound} \cup {id \in Ids : symbols[id] = moment})

(* Mutant of Find: a word is not looked for as a moment.                   *)
FindExactly(word) == IdOf(Moment(word))

(* SymbolTable::where: the word as it is or, in an inflation, as a moment. *)
Find(word) ==
  IF Moment(word) \notin Registered(symbols) /\ IsInflation /\ CanHaveAliases(Context)
  THEN IdOf(CanonicalMoment(Context, Moment(word)))
  ELSE IdOf(Moment(word))

InitialSymbolSearch == Explicitly([x \in Indices(CGSizes(Layout)) |-> Find(scenario.words[x])])
FillMissingSymbols  ==
  Explicitly([x \in DOMAIN cg.at |-> IF cg.at[x] = NotFound THEN Find(scenario.words[x]) ELSE cg.at[x]])

RefreshedCG ==
  CASE cg.storage = "explicit" -> FillMissingSymbols
    [] cg.storage = "virtual"  -> Virtual
    [] cg.storage = "absent"   -> IF Storage(CGSizes(Layout)) = "virtual" THEN Virtual ELSE InitialSymbolSearch

\* The symbol of an element of the tensor when it is t.
SymbolIn(t, x) == IF t.storage = "virtual" THEN Find(scenario.words[x]) ELSE t.at[x]

-----------------------------------------------------------------------------
(* ProbabilityTensor                                                       *)

(* Mutant of DimensionInfo: the implicit outcome is counted with those     *)
(* that have operators.                                                    *)
DimensionInfoOneMore(l, d, i) ==
  LET m     == CHOOSE k \in DOMAIN l[d] : OutcomesBefore(l, d, k) < i /\ i <= OutcomesBefore(l, d, k + 1)
      j     == i - OutcomesBefore(l, d, m)
      first == 1 + OperatorsBefore(l, d, m)
  IN  CASE i = 0 -> [base |-> 0, final |-> 1, implicit |-> FALSE]
        [] i # 0 /\ (j < l[d][m].outcomes \/ l[d][m].explicit) ->
             [base |-> first + j - 1, final |-> first + j, implicit |-> FALSE]
        [] OTHER -> [base |-> first, final |-> first + j, implicit |-> TRUE]

(* make_dimension_info, element_info: the elements of the Collins-Gisin    *)
(* tensor in dimension d that outcome i of the probability tensor needs,   *)
(* and whether it is the one that they leave.                              *)
DimensionInfo(l, d, i) ==
  LET m     == CHOOSE k \in DOMAIN l[d] : OutcomesBefore(l, d, k) < i /\ i <= OutcomesBefore(l, d, k + 1)
      j     == i - OutcomesBefore(l, d, m)
      first == 1 + OperatorsBefore(l, d, m)
  IN  CASE i = 0 -> [base |-> 0, final |-> 1, implicit |-> FALSE]
        [] i # 0 /\ (j < l[d][m].outcomes \/ l[d][m].explicit) ->
             [base |-> first + j - 1, final |-> first + j, implicit |-> FALSE]
        [] OTHER -> [base |-> first, final |-> first + j - 1, implicit |-> TRUE]

(* do_make_element: 1 minus the other outcomes for each implicit one, and  *)
(* the signs multiplied out.                                               *)
PTPolynomial(l, p) ==
  LET info     == [d \in DOMAIN l |-> DimensionInfo(l, d, p[d])]
      implicit == {d \in DOMAIN l : info[d].implicit}
      Chosen   == [d \in DOMAIN l |-> info[d].base..(info[d].final - 1) \cup (IF d \in implicit THEN {0} ELSE {})]
  IN  [x \in {y \in Indices(CGSizes(l)) : \A d \in DOMAIN l : y[d] \in Chosen[d]} |->
         IF Cardinality(implicit \cap Support(x)) % 2 = 0 THEN 1 ELSE -1]
PTPolynomials(l) == Table([p \in Indices(PTSizes(l)) |-> Table(PTPolynomial(l, p))])

-----------------------------------------------------------------------------
(* FullCorrelator: the expectation of a product of the chosen binary       *)
(* measurements, each worth 2 P - 1 for its operator P, multiplied out.    *)
FCPolynomial(l, m) ==
  [x \in {y \in Indices(FCSizes(l)) : \A d \in DOMAIN l : y[d] \in {0, m[d]}} |->
     2 ^ Cardinality(Support(x)) * (IF Cardinality(Support(m) \ Support(x)) % 2 = 0 THEN 1 ELSE -1)]
FCPolynomials(l) == Table([m \in Indices(FCSizes(l)) |-> Table(FCPolynomial(l, m))])

-----------------------------------------------------------------------------
(* PolynomialTensor                                                        *)

Total(coefficients, terms) == MapThenSumSet(LAMBDA x : coefficients[x], terms)

\* Like terms are combined, and those that cancel, or are of 0, left out.
Combined(coefficients, id) ==   \* id[x]: the symbol of term x
  LET sums == [i \in {id[x] : x \in DOMAIN id} |->
                 Total(coefficients, {x \in DOMAIN id : id[x] = i})]
  IN  Table(Restrict(sums, {i \in DOMAIN sums : i # Zero /\ sums[i] # 0}))

(* attempt_symbol_resolution; no word here is zero, so that symbol 0 does  *)
(* not occur, which one and two party correlators take for a missing one.  *)
Resolved(polynomial, t) ==
  LET id == Table([x \in DOMAIN polynomial |-> SymbolIn(t, x)])
  IN  IF \E x \in DOMAIN id : id[x] = NotFound THEN Missing ELSE Combined(polynomial, id)

(* A tensor of polynomials is made, or fill_missing_polynomials.           *)
Refreshed(tensor, sizes, polynomials, t) ==
  CASE tensor.storage = "explicit" ->
         Explicitly([p \in DOMAIN tensor.at |->
                       IF tensor.at[p] = Missing THEN Resolved(polynomials[p], t) ELSE tensor.at[p]])
    [] tensor.storage = "virtual"  -> Virtual
    [] tensor.storage = "absent"   ->
         IF Storage(sizes) = "virtual" THEN Virtual
         ELSE Explicitly([p \in Indices(sizes) |-> Resolved(polynomials[p], t)])

\* The polynomial of an element that is read.
Element(tensor, p, polynomials, t) == IF tensor.storage = "virtual" THEN Resolved(polynomials[p], t) ELSE tensor.at[p]

(* outcome_to_element: the element of the probability tensor in which      *)
(* measurement m of dimension d has outcome chosen[d] = <<m, outcome>>,    *)
(* outcomes being numbered from 0.                                         *)
OutcomeElement(l, chosen) ==
  [d \in DOMAIN l |-> IF d \in DOMAIN chosen THEN 1 + OutcomesBefore(l, d, chosen[d][1]) + chosen[d][2] ELSE 0]

(* measurement_to_range: the elements for all outcomes of the measurements *)
(* free[d], where those of other dimensions have a fixed outcome or are    *)
(* not made; the code refuses two for one dimension.                       *)
PTRange(l, free, fixed) ==
  LET Bounds(d) == CASE d \in DOMAIN fixed -> {OutcomeElement(l, fixed)[d]}
                     [] d \in DOMAIN free  -> (1 + OutcomesBefore(l, d, free[d]))..OutcomesBefore(l, d, free[d] + 1)
                     [] OTHER -> {0}
  IN  {p \in Indices(PTSizes(l)) : \A d \in DOMAIN l : p[d] \in Bounds(d)}

(* explicit_value_rules: what must be zero for the elements of a range to  *)
(* have these values, given a condition: polynomials in the elements of    *)
(* the Collins-Gisin tensor stand for those in its symbols.                *)
ExplicitValueRules(polynomials, range, condition, values) ==
  LET Coefficient(polynomial, x) == IF x \in DOMAIN polynomial THEN polynomial[x] ELSE 0
  IN  [p \in range |->
         [x \in DOMAIN polynomials[p] \cup DOMAIN condition |->
            Coefficient(polynomials[p], x) - values[p] * Coefficient(condition, x)]]

-----------------------------------------------------------------------------
(* MaintainsTensors                                                        *)

IsBinary(l) == \A d \in DOMAIN l : \A m \in DOMAIN l[d] : l[d][m].outcomes = 2
CanHaveFullCorrelator == ~IsInflation /\ IsBinary(Layout)

RefreshCollinsGisin ==
  /\ cg' = RefreshedCG
  /\ UNCHANGED <<scenario, tables, pt, fc>>

RefreshProbabilityTensor ==
  /\ cg' = RefreshedCG
  /\ pt' = Refreshed(pt, PTSizes(Layout), scenario.probabilities, cg')
  /\ UNCHANGED <<scenario, tables, fc>>

\* Where there can be none an exception is thrown, the first tensor being made.
RefreshFullCorrelator ==
  /\ cg' = RefreshedCG
  /\ fc' = IF CanHaveFullCorrelator THEN Refreshed(fc, FCSizes(Layout), scenario.correlators, cg') ELSE fc
  /\ UNCHANGED <<scenario, tables, pt>>

\* The moment that an element of the Collins-Gisin tensor stands for.
MomentOf(s, word) ==
  IF s.kind = "inflation" /\ CanHaveAliases(s.context) THEN CanonicalMoment(s.context, Moment(word)) ELSE Moment(word)

(* A scenario with what the constructors of its tensors fill in: the words *)
(* of the Collins-Gisin tensor and the polynomials of the others; and, for *)
(* the properties, the moments those words stand for.                      *)
Constructed(s) ==
  LET words == IF HasTensors(s) THEN CGWords(s) ELSE <<>>
      Of(polynomials(_)) == IF HasTensors(s) THEN polynomials(s.layout) ELSE <<>>
  IN  [name |-> s.name, kind |-> s.kind, context |-> s.context, layout |-> s.layout, matrices |-> s.matrices,
       words |-> words, moments |-> Table([x \in DOMAIN words |-> MomentOf(s, words[x])]),
       probabilities |-> Of(PTPolynomials), correlators |-> Of(FCPolynomials)]
Systems == {Constructed(s) : s \in Scenarios}

Init ==
  /\ scenario \in Systems
  /\ symbols = InitialTables.symbols
  /\ entries = InitialTables.entries
  /\ index   = InitialTables.index
  /\ cg = Absent /\ pt = Absent /\ fc = Absent

(* A matrix with the given words, as the context simplifies them.          *)
NewMatrix(words) ==
  /\ RegisterMoments([i \in DOMAIN words |->
       IF IsInflation THEN CanonicalMoment(Context, SimplifyWord(Context, words[i])) ELSE Moment(words[i])])
  /\ UNCHANGED <<scenario, tensors>>

NewProduct(a, b) == /\ IsInflation
                    /\ RegisterProduct(a, b)
                    /\ UNCHANGED <<scenario, tensors>>

Next ==
  \/ \E words \in scenario.matrices : NewMatrix(words)
  \/ \E a \in Ids, b \in Ids \cap Operands : NewProduct(a, b)
  \/ HasTensors(scenario) /\ RefreshCollinsGisin
  \/ HasTensors(scenario) /\ RefreshProbabilityTensor
  \/ HasTensors(scenario) /\ RefreshFullCorrelator

Spec == Init /\ [][Next]_vars

-----------------------------------------------------------------------------
(* What one measurement of each dimension, or none, and its outcome can be. *)
OutcomeChoices(l) ==
  LET Outcomes(d) == UNION {{<<m, o>> : o \in 0..(l[d][m].outcomes - 1)} : m \in DOMAIN l[d]}
  IN  {c \in UNION {[ds -> UNION {Outcomes(d) : d \in DOMAIN l}] : ds \in SUBSET DOMAIN l} :
         \A d \in DOMAIN c : c[d] \in Outcomes(d)}

(* All that the measurements could show, were each made: the outcome of    *)
(* each; of an operator that is no measurement, 0 if it holds, 1 if not.   *)
Showings(l) ==
  LET Measurements == UNION {{<<d, m>> : m \in DOMAIN l[d]} : d \in DOMAIN l}
      Of(k) == LET mmt == l[k[1]][k[2]] IN 0..(IF mmt.explicit THEN 1 ELSE mmt.outcomes - 1)
  IN  {s \in [Measurements -> UNION {Of(k) : k \in Measurements}] : \A k \in Measurements : s[k] \in Of(k)}

\* Whether operator i of dimension d holds; the sum of the terms of which all operators hold.
Holds(l, show, d, i) ==
  \E m \in DOMAIN l[d] : /\ OperatorsBefore(l, d, m) < i /\ i <= OperatorsBefore(l, d, m + 1)
                         /\ show[<<d, m>>] = i - OperatorsBefore(l, d, m) - 1
Value(l, polynomial, show) ==
  Total(polynomial, {x \in DOMAIN polynomial : \A d \in Support(x) : Holds(l, show, d, x[d])})

AreProbabilities(l, polynomials) ==
  \A c \in OutcomeChoices(l), show \in Showings(l) :
    Value(l, polynomials[OutcomeElement(l, c)], show)
      = IF \A d \in DOMAIN c : show[<<d, c[d][1]>>] = c[d][2] THEN 1 ELSE 0
\* Measurements of dimensions that a choice leaves free.
FreeMeasurements(l, fixed) ==
  {f \in UNION {[ds -> 1..Max({Len(l[d]) : d \in DOMAIN l})] : ds \in SUBSET (DOMAIN l \ DOMAIN fixed)} :
     \A d \in DOMAIN f : f[d] \in DOMAIN l[d] /\ ~l[d][f[d]].explicit}
RulesHold(l, polynomials) ==
  \A fixed \in OutcomeChoices(l) : \A free \in FreeMeasurements(l, fixed) :
    LET range     == PTRange(l, free, fixed)
        condition == polynomials[OutcomeElement(l, fixed)]
    IN  /\ Cardinality(range) = FoldFunction(LAMBDA m, n : m * n, 1, [d \in DOMAIN free |-> l[d][free[d]].outcomes])
        /\ \A show \in Showings(l) :
             LET shown  == OutcomeElement(l, [d \in DOMAIN free |-> <<free[d], show[<<d, free[d]>>]>>])
                 values == [p \in range |-> IF \A d \in DOMAIN free : p[d] = shown[d] THEN 1 ELSE 0]
                 rules  == ExplicitValueRules(polynomials, range, condition, values)
             IN  \A p \in range : Value(l, rules[p], show) = 0
AreCorrelators(l, polynomials) ==
  \A m \in Indices(FCSizes(l)), show \in Showings(l) :
    Value(l, polynomials[m], show)
      = IF Cardinality({d \in Support(m) : show[<<d, m[d]>>] # 0}) % 2 = 0 THEN 1 ELSE -1

\* For each scenario, once: the polynomials are made once and never changed.
RightTensors ==
  {[name          |-> s.name,
    probabilities |-> AreProbabilities(s.layout, s.probabilities) /\ RulesHold(s.layout, s.probabilities),
    correlators   |-> IsBinary(s.layout) => AreCorrelators(s.layout, s.correlators)] :
   s \in {t \in Systems : HasTensors(t)}}

(* Whatever the measurements show, the element for some outcomes is 1 if   *)
(* these are shown and 0 otherwise, and a correlator the product of the    *)
(* signs of its outcomes: the expansions of the code, which adds and       *)
(* subtracts blocks of the Collins-Gisin tensor for outcomes that have no  *)
(* operator, are the probabilities, for every number of parties,           *)
(* measurements and outcomes.  And the rules that give the outcomes of     *)
(* some measurements the values they show, given outcomes of others, hold. *)
TensorsAreProbabilities ==
  \A right \in RightTensors :
    right.name = scenario.name => /\ pt # Absent => right.probabilities
                                  /\ fc # Absent => right.correlators

\* A polynomial as one in moments.
Meaning(polynomial) ==
  LET sums == [w \in {scenario.moments[x] : x \in DOMAIN polynomial} |->
                 Total(polynomial, {x \in DOMAIN polynomial : scenario.moments[x] = w})]
  IN  Restrict(sums, {w \in DOMAIN sums : sums[w] # 0})
InMoments(polynomial) ==
  [w \in {symbols[id] : id \in DOMAIN polynomial} |->
     polynomial[CHOOSE id \in DOMAIN polynomial : symbols[id] = w]]

CurrentElement(stored, element, polynomial) ==
  LET known == \A x \in DOMAIN polynomial : scenario.moments[x] \in Registered(symbols)
  IN  /\ IF known THEN element # Missing /\ InMoments(element) = Meaning(polynomial) ELSE element = Missing
      /\ stored \in {Missing, element}

\* new is the tensor refreshed.
Current(tensor, new, polynomials, t) ==
  \A p \in DOMAIN polynomials :
    CurrentElement(IF tensor.storage = "explicit" THEN tensor.at[p] ELSE Missing,
                   Element(new, p, polynomials, t), polynomials[p])

(* An element that is stored is never wrong, and is missing only until the *)
(* next refresh after its last symbol is registered: a tensor refreshed    *)
(* now, whatever was registered and refreshed before, in whatever order,   *)
(* has each polynomial whose moments are known, and no others.             *)
RefreshedTensorsAreCurrent ==
  HasTensors(scenario) =>
    LET t == RefreshedCG
    IN  /\ Current(pt, Refreshed(pt, PTSizes(Layout), scenario.probabilities, t), scenario.probabilities, t)
        /\ CanHaveFullCorrelator =>
             Current(fc, Refreshed(fc, FCSizes(Layout), scenario.correlators, t), scenario.correlators, t)
=============================================================================
