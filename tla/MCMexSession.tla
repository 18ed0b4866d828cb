---------------------------- MODULE MCMexSession ----------------------------
(* Two clients, and small sessions in each kind of matrix system.          *)
EXTENDS MexSession

System(kind, source, words) == [kind |-> kind, source |-> source, words |-> words]
One(kind) == <<System(kind, NoSource, FirstWords)>>

Ask(fn, at, inputs, outputs, key, n) ==
  [fn |-> fn, at |-> at, inputs |-> inputs, outputs |-> outputs, key |-> key, n |-> n]
Plain2 == <<Data, Data>>
Plain3 == <<Data, Data, Data>>

Moment     == <<"moment", 1>>
Localizing == <<"localizing", 0, 1>>
Poly       == <<"polynomial", 0>>
Tensor     == <<"tensor">>

(* A system and its symmetrized form.                                      *)
Symmetrized ==
  [systems |-> <<System("locality", NoSource, {0}), System("symmetrized", 1, 0 .. 2)>>,
   calls |-> 2,
   requests |->
     {Ask("moment_matrix", at, Plain2, 4, Moment, 0) : at \in 0 .. 1}
     \cup {Ask("localizing_matrix", at, Plain3, 1, Localizing, 0) : at \in 0 .. 1}
     \cup {Ask("localizing_matrix", at, <<Data, Data, form, Data>>, 1, Poly, 0) :
             at \in 0 .. 1, form \in {"symbols", "operators"}}
     \cup {Ask("moment_matrix", 1, <<"level", Data, "masks", "reference_id", Data>>, 2, <<"moment", 2>>, 0),
           Ask("moment_matrix", 0, <<Data, "masks", Data>>, 2, Moment, 0),
           Ask("transform_matrix", 1, Plain2, 1, NoKey, 0),
           Ask("transform_symbols", 1, Plain2, 1, NoKey, 0),
           Ask("word_list", 0, <<Data, Data, "register_symbols">>, 3, <<"words", 2>>, 0),
           Ask("symbol_table", 0, Plain2, 1, NoKey, 0),
           Ask("value_matrix", 0, Plain2, 1, Raw, 0),
           Ask("multiply", 0, Plain3, 1, Raw, 0),
           Ask("plus", 0, Plain3, 1, NoKey, 0),
           Ask("echo_operand", 0, Plain2, 1, NoKey, 0),
           Ask("symmetrized_matrix_system", 0, Plain2, 1, NoKey, 0),
           Ask("symmetrized_matrix_system", 0, <<Data, "max_word_length", Data, Data>>, 1, NoKey, 2),
           Ask("release", 0, <<"matrix_system", Data>>, 0, NoKey, 0)}]

Inflation ==
  [systems |-> One("inflation"),
   calls |-> 3,
   requests |->
     {Ask("extended_matrix", 0, Plain3, 1, <<"extended", 1>>, 1),
      Ask("extended_matrix", 0, <<"reference_id", Data, "level", Data, "extensions", Data>>, 1, <<"extended", 1>>, 1),
      Ask("suggest_extensions", 0, Plain2, 1, Moment, 0),
      Ask("moment_matrix", 0, Plain2, 1, Moment, 0),
      Ask("operator_matrix", 0, Plain2, 1, NoKey, 0),
      Ask("full_correlator", 0, <<Data>>, 1, Tensor, 0),
      Ask("probability_table", 0, <<Data>>, 1, Tensor, 0)}]

Tensors ==
  [systems |-> One("locality"),
   calls |-> 3,
   requests |->
     {Ask("collins_gisin", 0, <<Data>>, 2, Tensor, 0),
      Ask("probability_table", 0, <<Data>>, 1, Tensor, 0),
      Ask("full_correlator", 0, <<Data>>, 1, Tensor, 0),
      Ask("full_correlator", 0, Plain2, 1, Tensor, 1),
      Ask("moment_matrix", 0, Plain2, 1, Moment, 0)}]

Imported ==
  [systems |-> One("imported"),
   calls |-> 3,
   requests |->
     {Ask("import_polynomial", 0, <<Data, Data, "register">>, 1, NoKey, n) : n \in 2 .. 3}
     \cup {Ask("import_polynomial", 0, Plain2, 1, NoKey, 2),
           Ask("import_matrix", 0, Plain2, 1, Raw, 2),
           Ask("moment_matrix", 0, Plain2, 1, Moment, 0),
           Ask("create_moment_rules", 0, Plain2, 1, <<"list">>, 2),
           Ask("create_moment_rules", 0, <<Data, Data, "rulebook", Data>>, 1, <<"list">>, 0),
           Ask("create_moment_rules", 0, <<Data, Data, "info">>, 1, <<"list">>, 0),
           Ask("moment_rules", 0, Plain2, 1, NoKey, 0),
           Ask("moment_rule_superset", 0, Plain3, 1, NoKey, 0),
           Ask("apply_moment_rules", 0, Plain3, 1, NoKey, 0)}]

Pauli ==
  [systems |-> <<System("pauli", NoSource, {0}), System("lattice", NoSource, {0})>>,
   calls |-> 2,
   requests |->
     {Ask("commutator_matrix", 0, Plain3, 1, <<"commutator", 0, 1>>, 0)}
     \cup {Ask("commutator_matrix", at, <<Data, Data, form, Data>>, 1, <<"commutatorpolynomial", 0>>, 0) :
             at \in 0 .. 1, form \in {"symbols", "operators"}}
     \cup {Ask("localizing_matrix", 1, <<Data, Data, "operators", Data>>, 1, Poly, 0),
           Ask("lattice_symmetrize", 1, Plain2, 1, NoKey, 0),
           Ask("commutator", 0, <<Data, Data, "commute", Data>>, 1, NoKey, 0),
           Ask("simplify", 0, Plain2, 1, NoKey, 0),
           Ask("conjugate", 1, Plain2, 1, NoKey, 0)}]

Algebraic ==
  [systems |-> One("algebraic"),
   calls |-> 3,
   requests |->
     {Ask("operator_rules", 0, <<Data>>, 1, NoKey, 0),
      Ask("create_moment_rules", 0, Plain2, 1, <<"sequences", 1>>, 0),
      Ask("create_moment_rules", 0, <<Data, Data, "no_new_symbols">>, 1, <<"sequences", 1>>, 0),
      Ask("substituted_matrix", 0, Plain3, 1, <<"substituted", 0, 0>>, 0),
      Ask("localizing_matrix", 0, <<Data, "operators", Data, Data>>, 1, Poly, 0),
      Ask("localizing_matrix", 0, <<"reference_id", Data, "level", Data, "word", Data>>, 1, Localizing, 0),
      Ask("generate_basis", 0, Plain2, 2, NoKey, 0)}]

Storage ==
  [systems |-> One("locality"),
   calls |-> 4,
   requests |->
     {Ask("locality_matrix_system", 0, <<Data>>, 1, NoKey, 0),
      Ask("pauli_matrix_system", 0, <<"wrap", Data>>, 1, NoKey, 0),
      Ask("list", 0, <<>>, 1, NoKey, 0),
      Ask("list", 0, <<"symbols", "details", "structured">>, 1, NoKey, 0),
      Ask("release", 0, <<"matrix_system", Data>>, 1, NoKey, 0),
      Ask("release", 1, <<"matrix_system", Data>>, 1, NoKey, 0),
      Ask("release", 1, <<"matrix_system">>, 1, NoKey, 0),
      Ask("symbol_table", 1, Plain2, 1, NoKey, 0),
      Ask("moment_matrix", 1, Plain2, 5, Moment, 0)}]

MCScenarios == {Symmetrized, Inflation, Tensors, Imported, Pauli, Algebraic, Storage}
=============================================================================
