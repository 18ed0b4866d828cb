----------------------------- MODULE MexPrograms ----------------------------
(***************************************************************************)
(* The functions that MATLAB calls (mex_functions/).                       *)
(*                                                                         *)
(* First, what each takes and what MexMain does with the inputs of a call  *)
(* before the function runs (mex_main.cpp, function_list.cpp,              *)
(* utilities/io_parameters.cpp, and the constructors under functions/). An *)
(* input is a name, which may be that of a parameter or a flag, or it is   *)
(* data.                                                                   *)
(*                                                                         *)
(* Then, what each does with the matrix systems: the locks it takes, what  *)
(* it does under them, and in which order.  A function is given as a       *)
(* program, a sequence of instructions, and a client executes these one by *)
(* one.  `o' is the matrix system of the call, `b' the system that it is   *)
(* derived from, if any; `r' is the request, and `given' the names of the  *)
(* flags and parameters in it.                                             *)
(***************************************************************************)
EXTENDS Integers, Sequences, SequencesExt, FiniteSets

Data == "data"

(* What a function takes: how many inputs without a name, how many         *)
(* outputs, the parameters and flags, and sets of these of which only one  *)
(* may be given.                                                           *)
Takes(minIn, maxIn, minOut, maxOut, params, flags, mutex) ==
  [minIn |-> minIn, maxIn |-> maxIn, minOut |-> minOut, maxOut |-> maxOut,
   params |-> params, flags |-> flags, mutex |-> mutex]

Hermiticity  == {"hermitian", "nonhermitian", "bunched", "interleaved"}
Commutes     == {"commutative", "noncommutative"}
TensorForms  == {"symbols", "sequences", "full_sequences", "strings"}

(* Systems.                                                                *)
TakenByAlgebraicMatrixSystem ==
  Takes(0, 2, 1, 1, {"operators", "rules", "complete_attempts", "tolerance"},
        Hermiticity \cup Commutes \cup {"normal"}, {Hermiticity, Commutes})
TakenByImportedMatrixSystem    == Takes(0, 0, 1, 1, {}, {"real", "complex"}, {{"real", "complex"}})
TakenByInflationMatrixSystem   ==
  Takes(0, 3, 1, 3, {"tolerance", "inflation_level", "observables", "sources"}, {}, {})
TakenByLocalityMatrixSystem    ==
  Takes(0, 3, 1, 1, {"parties", "measurements", "outcomes", "tolerance"}, {}, {})
TakenByPauliMatrixSystem       == Takes(1, 1, 1, 1, {"tolerance"}, {"wrap", "symmetrized"}, {})
TakenBySymmetrizedMatrixSystem ==
  Takes(2, 2, 1, 2, {"tolerance", "max_word_length", "max_subgroup"}, {}, {})
TakenByRelease                 == Takes(0, 0, 0, 1, {"matrix_system"}, {}, {})

(* Matrices.                                                               *)
OutputModes == {"masks", "monomial", "name", "properties", "polynomial", "sequence_string", "symbol_string"}
OperatorMatrixTakes(maxIn, params, flags, mutex) ==
  Takes(0, maxIn, 1, 7, params \cup {"reference_id"}, flags \cup OutputModes, mutex \cup {OutputModes})

TakenByOperatorMatrix    == OperatorMatrixTakes(2, {"index"}, {}, {})
TakenByMomentMatrix      == OperatorMatrixTakes(2, {"level", "neighbours"}, {}, {})
TakenByValueMatrix       == OperatorMatrixTakes(2, {"data", "label"}, {}, {})
TakenBySubstitutedMatrix == OperatorMatrixTakes(3, {"index", "matrix", "rules"}, {}, {})
TakenByExtendedMatrix    == OperatorMatrixTakes(3, {"level", "extensions"}, {}, {})
TakenByLocalizingMatrix  ==
  OperatorMatrixTakes(3, {"level", "word", "neighbours"},
                      {"symbols", "operators", "zero_indexing", "matlab_indexing"},
                      {{"symbols", "operators"}, {"zero_indexing", "matlab_indexing"}})
TakenByCommutatorMatrix  ==
  OperatorMatrixTakes(3, {"level", "word", "neighbours"},
                      {"symbols", "operators", "anticommutator", "commutator"},
                      {{"symbols", "operators"}, {"anticommutator", "commutator"}})
TakenByTransformMatrix   == Takes(1, 2, 1, 1, {}, {}, {})
TakenBySuggestExtensions == Takes(2, 2, 1, 1, {}, {}, {})
TakenByGenerateBasis     == Takes(2, 2, 1, 3, {}, {"sparse", "dense", "cell", "monolith"},
                                  {{"dense", "sparse"}, {"cell", "monolith"}})
TakenByImportMatrix      == Takes(2, 2, 1, 4, {}, {"hermitian", "symmetric", "real", "complex"},
                                  {{"hermitian", "symmetric", "real", "complex"}})
TakenByMakeRepresentation == Takes(2, 2, 1, 1, {}, {}, {})

(* Symbols and polynomials.                                                *)
TakenBySymbolTable        == Takes(1, 2, 1, 1, {"from"}, {}, {})
TakenByWordList           == Takes(2, 2, 1, 7, {"neighbours"}, {"register_symbols", "operators", "monomial"},
                                   {{"operators", "monomial"}})
TakenByImportPolynomial   == Takes(2, 2, 1, 1, {"output"}, {"register"}, {})
TakenByTransformSymbols   == Takes(2, 3, 1, 2, {"output"}, {}, {})
TakenByLatticeSymmetrize  == Takes(2, 2, 1, 1, {}, {}, {})
TakenByConjugate          == Takes(2, 2, 1, 3, {}, {}, {})
TakenBySimplify           == Takes(2, 2, 1, 3, {}, {"string_out"}, {})
TakenByBinaryOperation    == Takes(3, 3, 1, 4, {}, {}, {})
TakenByCommutator         == [TakenByBinaryOperation EXCEPT !.flags = {"commute", "anticommute"},
                                                            !.mutex = {{"commute", "anticommute"}}]

(* Rules.                                                                  *)
TakenByCreateMomentRules  ==
  Takes(2, 2, 1, 1, {"input", "output", "label", "rulebook"},
        {"info", "no_factors", "no_new_symbols", "complete_only"}, {{"info", "input"}})
TakenByApplyMomentRules   == Takes(3, 3, 1, 1, {"input", "output"}, {}, {})
TakenByMomentRules        == Takes(2, 3, 1, 2, {}, {}, {})
TakenByMomentRuleSuperset == Takes(3, 3, 1, 1, {}, {}, {})
TakenByOperatorRules      == Takes(1, 1, 1, 1, {}, {}, {})
TakenByComplete           == Takes(2, 2, 1, 2, {"limit"}, Hermiticity \cup Commutes \cup {"test", "normal"},
                                   {Hermiticity, Commutes, {"test", "limit"}})

(* Probabilities.                                                          *)
TakenByCollinsGisin       == Takes(1, 3, 1, 5, {}, TensorForms, {TensorForms})
TakenByFullCorrelator     == Takes(1, 2, 1, 1, {}, TensorForms, {TensorForms})
TakenByProbabilityTable   == Takes(1, 3, 1, 1, {}, TensorForms \ {"strings"}, {TensorForms \ {"strings"}})
TakenByMakeExplicit       == Takes(3, 4, 1, 1, {}, {"conditional", "simplify", "list", "symbols", "polynomials"},
                                   {{"list", "symbols", "polynomials", "all"}})
TakenByConvertTensor      == Takes(2, 2, 1, 1, {}, {}, {})

(* Everything else.                                                        *)
TakenBySettings       == Takes(0, 1, 0, 1, {"locality_format", "multithreading"}, {"structured"}, {})
TakenByLogging        == Takes(0, 2, 0, 1, {}, {}, {})
TakenByList           == Takes(0, 1, 0, 1, {}, {"structured", "context", "symbols", "details"},
                               {{"structured", other} : other \in {"context", "details", "symbols"}})
TakenByVersion        == Takes(0, 0, 0, 1, {"cake"}, {"structured", "foo", "bar", "alice", "bob", "charlie"},
                               {{"bar", "foo"}, {"foo", "cake"}, {"alice", "bob", "charlie"}})
TakenByEchoMatrix     == Takes(1, 1, 0, 1, {}, {"sparse", "dense", "complex", "real"},
                               {{"sparse", "dense"}, {"complex", "real"}})
TakenByEchoOperand    == Takes(2, 2, 0, 2, {}, {"symbolic", "to_symbols"}, {})
TakenByAlphabeticName == Takes(1, 1, 1, 1, {}, {"upper", "lower", "zero_index"}, {{"upper", "lower"}})
TakenByFlattenIndices == Takes(2, 2, 1, 1, {}, {"zero_index"}, {})

FunctionTable ==
  [algebraic_matrix_system   |-> TakenByAlgebraicMatrixSystem,   alphabetic_name  |-> TakenByAlphabeticName,
   apply_moment_rules        |-> TakenByApplyMomentRules,        collins_gisin    |-> TakenByCollinsGisin,
   convert_tensor            |-> TakenByConvertTensor,           commutator       |-> TakenByCommutator,
   commutator_matrix         |-> TakenByCommutatorMatrix,        complete         |-> TakenByComplete,
   conjugate                 |-> TakenByConjugate,               echo_matrix      |-> TakenByEchoMatrix,
   create_moment_rules       |-> TakenByCreateMomentRules,       echo_operand     |-> TakenByEchoOperand,
   extended_matrix           |-> TakenByExtendedMatrix,          flatten_indices  |-> TakenByFlattenIndices,
   full_correlator           |-> TakenByFullCorrelator,          generate_basis   |-> TakenByGenerateBasis,
   list                      |-> TakenByList,                    import_matrix    |-> TakenByImportMatrix,
   import_polynomial         |-> TakenByImportPolynomial,        logging          |-> TakenByLogging,
   imported_matrix_system    |-> TakenByImportedMatrixSystem,    make_explicit    |-> TakenByMakeExplicit,
   inflation_matrix_system   |-> TakenByInflationMatrixSystem,   moment_rules     |-> TakenByMomentRules,
   lattice_symmetrize        |-> TakenByLatticeSymmetrize,       moment_matrix    |-> TakenByMomentMatrix,
   localizing_matrix         |-> TakenByLocalizingMatrix,        multiply         |-> TakenByBinaryOperation,
   locality_matrix_system    |-> TakenByLocalityMatrixSystem,    operator_matrix  |-> TakenByOperatorMatrix,
   make_representation       |-> TakenByMakeRepresentation,      operator_rules   |-> TakenByOperatorRules,
   moment_rule_superset      |-> TakenByMomentRuleSuperset,      plus             |-> TakenByBinaryOperation,
   pauli_matrix_system       |-> TakenByPauliMatrixSystem,       release          |-> TakenByRelease,
   probability_table         |-> TakenByProbabilityTable,        settings         |-> TakenBySettings,
   simplify                  |-> TakenBySimplify,                symbol_table     |-> TakenBySymbolTable,
   substituted_matrix        |-> TakenBySubstitutedMatrix,       transform_matrix |-> TakenByTransformMatrix,
   suggest_extensions        |-> TakenBySuggestExtensions,       value_matrix     |-> TakenByValueMatrix,
   symmetrized_matrix_system |-> TakenBySymmetrizedMatrixSystem, version          |-> TakenByVersion,
   transform_symbols         |-> TakenByTransformSymbols,        word_list        |-> TakenByWordList]

-----------------------------------------------------------------------------
(* Inputs are sorted into parameters, flags and the rest.                  *)
DefaultFlags == {"quiet", "verbose", "debug", "debug_preprocess"}

(* One input: the data of the parameter before it, a parameter, a flag or  *)
(* a plain input. The cursor does not count the data of parameters, so     *)
(* that after one of them the last input may be taken for a parameter that *)
(* has data.                                                               *)
Sort(takes, count, sorted, input) ==
  CASE sorted.missing            -> sorted
    [] sorted.awaiting           -> [sorted EXCEPT !.awaiting = FALSE]
    [] input \in takes.params    -> [sorted EXCEPT !.missing = sorted.cursor + 1 >= count,
                                                   !.params = @ \cup {input},
                                                   !.awaiting = TRUE, !.cursor = @ + 1]
    [] input \in takes.flags \cup DefaultFlags ->
                                    [sorted EXCEPT !.flags = @ \cup {input}, !.cursor = @ + 1]
    [] OTHER                     -> [sorted EXCEPT !.plain = @ + 1, !.cursor = @ + 1]

CleanInputs(takes, inputs) ==
  FoldLeft(LAMBDA sorted, input : Sort(takes, Len(inputs), sorted, input),
           [params |-> {}, flags |-> {}, plain |-> 0, cursor |-> 0, awaiting |-> FALSE, missing |-> FALSE],
           inputs)

(* The data of the last parameter is read from behind the inputs.          *)
ReadsBeyond(sorted) == sorted.awaiting /\ ~sorted.missing

Clash(takes, sorted) ==
  \E names \in takes.mutex : Cardinality(names \cap (sorted.flags \cup sorted.params)) > 1

ValidInputs(takes, sorted) ==
  /\ ~sorted.missing
  /\ sorted.plain \in takes.minIn .. takes.maxIn
  /\ ~Clash(takes, sorted)

ValidOutputs(takes, outputs) == outputs \in takes.minOut .. takes.maxOut

(* Functions that get a matrix: the inputs are all named, or all plain.    *)
MatrixFunctions == {"operator_matrix", "moment_matrix", "value_matrix", "substituted_matrix", "extended_matrix",
                    "localizing_matrix", "commutator_matrix"}

NamesWith(fn) ==
  CASE fn = "operator_matrix"    -> {"index"}
    [] fn = "moment_matrix"      -> {"level"}
    [] fn = "value_matrix"       -> {"data"}
    [] fn = "substituted_matrix" -> {"matrix", "rules"}
    [] fn = "extended_matrix"    -> {"level", "extensions"}
    [] OTHER                     -> {"level", "word"}

Named(fn, sorted) == sorted.params \cap (NamesWith(fn) \cup {"reference_id"}) # {}

ParsedMatrixInputs(fn, takes, sorted) ==
  IF Named(fn, sorted)
  THEN sorted.plain = 0 /\ NamesWith(fn) \cup {"reference_id"} \subseteq sorted.params
  ELSE sorted.plain = takes.maxIn

(* The number of outputs that suits the output mode.                       *)
OutputsSuitMode(flags, outputs) ==
  /\ flags \cap {"name", "sequence_string", "symbol_string"} # {} => outputs = 1
  /\ "masks" \in flags    => outputs # 3
  /\ "monomial" \in flags => outputs \in {1, 7}
  /\ flags \cap OutputModes \in {{}, {"properties"}} => outputs <= 4

-----------------------------------------------------------------------------
(* Programs.                                                               *)

NoSource == 0
NoKey    == <<"none">>
Raw      == <<"raw">>  \* a matrix that no index knows

(* An instruction may be a test, that passes over some of those that       *)
(* follow if it succeeds; what is not a test always does.                  *)
Instruction(do, o, key, n) == [do |-> do, on |-> o, key |-> key, n |-> n, skip |-> 0]

ReadLock(o)        == Instruction("read lock", o, NoKey, 0)
WriteLock(o)       == Instruction("write lock", o, NoKey, 0)
Unlock(o)          == Instruction("unlock", o, NoKey, 0)

Look(o)            == Instruction("look", o, NoKey, 0)           \* at symbols, matrices
Peek(o)            == Instruction("peek", o, NoKey, 0)           \* the same, without a lock
NeedMatrix(o, n)   == Instruction("need matrix", o, NoKey, n)
NeedKey(o, key)    == Instruction("need key", o, key, 0)
NeedBook(o, n)     == Instruction("need book", o, NoKey, n)
NeedSymbols(o, n)  == Instruction("need symbols", o, NoKey, n)
Find(o, key)       == Instruction("find", o, key, 0)
Made(o, key)       == Instruction("made", o, key, 0)             \* and refuses long words
PeekMade(o, key)   == Instruction("peek made", o, key, 0)        \* needs it, and has no lock
Source(o, key)     == Instruction("source", o, key, 0)
Knows(o, key)      == Instruction("knows", o, key, 0)
HasSymbols(o, n)   == Instruction("has symbols", o, NoKey, n)
NeedWords(o, key)  == Instruction("need words", o, key, 0)
NeedTensor(o, tensor) == Instruction("need tensor", o, <<tensor>>, 0)
Has(o, tensor)     == Instruction("has", o, <<tensor>>, 0)
Complete(o, tensor) == Instruction("complete", o, <<tensor>>, 0)

Create(o, key)     == Instruction("create", o, key, 0)           \* MatrixIndices::create
Append1(o, key)    == Instruction("append", o, key, 0)           \* push_back, and insert
Push(o)            == Instruction("push", o, Raw, 0)
PushPolynomial(o, key) == Instruction("push polynomial", o, key, 0)
Import(o, n)       == Instruction("import", o, Raw, n)
Register(o, key)   == Instruction("register", o, key, 0)
CreateSymbols(o, n) == Instruction("create symbols", o, NoKey, n)
AddBook(o)         == Instruction("add book", o, NoKey, 0)
MergeBook(o, n)    == Instruction("merge book", o, NoKey, n)
MakeTensor(o, tensor) == Instruction("make", o, <<tensor>>, 0)
FillTensor(o, tensor) == Instruction("fill", o, <<tensor>>, 0)
StoreDerived(o, n) == Instruction("store", o, NoKey, n)

Tests == {"find", "made", "source", "knows", "has symbols", "has", "complete"}

-----------------------------------------------------------------------------
(* Ways to put instructions together.                                      *)
IfNot(test, body) == <<[test EXCEPT !.skip = Len(body)]>> \o body
IfElse(test, body, otherwise) ==
  IfNot(test, [otherwise EXCEPT ![Len(otherwise)].skip = Len(body)]) \o body
Reading(o, instruction) == <<ReadLock(o), instruction, Unlock(o)>>
Writing(o, instruction) == <<WriteLock(o), instruction, Unlock(o)>>
If(condition, body) == IF condition THEN body ELSE <<>>

(* A matrix of a derived system is made from the same one of its source,   *)
(* while the derived system stays locked. The source is looked at twice    *)
(* without its lock: before, for the degree of a polynomial, and when the  *)
(* new matrix is in its index, for the index of the source's matrix.       *)
OnNewMatrix(b) == Peek(b)

MakeFromSource(key, o, b) ==
  If(key[1] = "polynomial", <<Peek(b)>>)
    \o <<ReadLock(b)>>
    \o IfNot(Source(b, key), <<Unlock(b), WriteLock(b), Create(b, key)>>)
    \o <<Unlock(b), Append1(o, key), OnNewMatrix(b)>>

(* MatrixIndices::create.                                                  *)
MakeMatrix(key, o, b) ==
  IF b = NoSource
  THEN Writing(o, Create(o, key))
  ELSE <<WriteLock(o)>> \o IfNot(Made(o, key), MakeFromSource(key, o, b)) \o <<Unlock(o)>>

(* The matrix is written out under a read lock; as masks, under a second   *)
(* read lock taken inside the first.                                       *)
ExportMatrix(given, o) == <<ReadLock(o)>> \o If("masks" \in given, <<ReadLock(o)>>) \o <<Look(o)>>

(* Functions that get one matrix.                                          *)
OperatorMatrix(r, o)    == Reading(o, NeedMatrix(o, r.n))
ValueMatrix(o)          == Reading(o, Look(o)) \o Writing(o, Push(o))
MomentMatrix(r, o, b)   == MakeMatrix(r.key, o, b)
SubstitutedMatrix(r, o) == Writing(o, Create(o, r.key))

FindOrMake(key, o, b) ==
  IfNot(Find(o, key), <<Unlock(o)>> \o MakeMatrix(key, o, b)) \o <<Unlock(o)>>

MonomialLocalizing(key, o, b) == <<ReadLock(o)>> \o FindOrMake(key, o, b)

(* A polynomial is read with the symbols of the source of the system. The  *)
(* lock on these is held until there is one on the system itself.          *)
SymbolsOf(o, b) == IF b = NoSource THEN o ELSE b

ExistingSymbols(key, o, b) ==
  If(b # NoSource, <<ReadLock(o), Unlock(b)>>) \o FindOrMake(key, o, b)

SymbolCellLocalizing(key, o, b) ==
  <<ReadLock(SymbolsOf(o, b)), Look(SymbolsOf(o, b))>> \o ExistingSymbols(key, o, b)

(* Symbols that are missing are registered, and the matrix is made under   *)
(* the same write lock. Of a derived system only the source is locked: the *)
(* client looks for the matrix without a lock, and to make it would ask    *)
(* for the lock it holds, which throws.                                    *)
WithNewSymbols(key, o, b) ==
  LET s == SymbolsOf(o, b)
  IN  <<Unlock(s), WriteLock(s), Register(s, key)>>
        \o (IF b = NoSource THEN <<Create(o, key)>> ELSE <<Unlock(s), WriteLock(s), PeekMade(o, key)>>)

OperatorCellLocalizing(key, o, b) ==
  <<ReadLock(SymbolsOf(o, b))>>
    \o IfElse(Knows(SymbolsOf(o, b), key), ExistingSymbols(key, o, b), WithNewSymbols(key, o, b))
    \o <<Unlock(o), Unlock(SymbolsOf(o, b))>>

(* With symmetries, a polynomial is not looked for but always made.        *)
AliasedLocalizing(key, o, b) ==
  Reading(SymbolsOf(o, b), Look(SymbolsOf(o, b))) \o Writing(o, PushPolynomial(o, key))

PolynomialLocalizing(key, given, o, b, aliases) ==
  CASE "symbols" \in given -> SymbolCellLocalizing(key, o, b)
    [] "symbols" \notin given /\ aliases -> AliasedLocalizing(key, o, b)
    [] OTHER -> OperatorCellLocalizing(key, o, b)

LocalizingMatrix(r, given, o, b, aliases) ==
  IF given \cap {"symbols", "operators"} = {}
  THEN MonomialLocalizing(r.key, o, b)
  ELSE PolynomialLocalizing(r.key, given, o, b, aliases)

(* The same for commutators, in Pauli systems.                             *)
CommutatorMatrix(r, given, o, aliases) == LocalizingMatrix(r, given, o, NoSource, aliases)

(* The extensions are given, and then the number of symbols is read with   *)
(* no lock, or found.                                                      *)
ExtendedMatrix(r, given, o) ==
  Writing(o, Create(o, <<"moment", r.n>>))
    \o (IF "extensions" \in given THEN <<Peek(o)>> ELSE Reading(o, Look(o)))
    \o Writing(o, Create(o, r.key))

ImportMatrix(r, o) == Writing(o, Import(o, r.n)) \o <<Peek(o)>>

(* There is nothing that transform_matrix does with its locks.             *)
TransformMatrix(r, o, b) == <<ReadLock(b), NeedMatrix(b, r.n), WriteLock(o)>>

SuggestExtensions(r, o) == Reading(o, NeedKey(o, r.key))
GenerateBasis(r, o)     == Reading(o, NeedMatrix(o, r.n))

-----------------------------------------------------------------------------
(* Symbols and polynomials.                                                *)
SymbolTable(o) == Reading(o, Look(o))

WordList(r, given, o) ==
  If("register_symbols" \in given, Writing(o, Register(o, r.key))) \o Reading(o, Look(o))

(* Mutant of ImportPolynomial: symbols are made under the read lock.       *)
ImportPolynomialReadLocked(r, given, o) ==
  <<ReadLock(o)>>
    \o If("register" \in given, IfNot(HasSymbols(o, r.n), <<CreateSymbols(o, r.n)>>))
    \o <<NeedSymbols(o, r.n)>>

ImportPolynomial(r, given, o) ==
  <<ReadLock(o)>>
    \o If("register" \in given,
          IfNot(HasSymbols(o, r.n),
                <<Unlock(o), WriteLock(o), CreateSymbols(o, r.n), Unlock(o), ReadLock(o)>>))
    \o <<NeedSymbols(o, r.n)>>

TransformSymbols(o, b) == <<ReadLock(o), ReadLock(b), Look(b), Look(o)>>
Conjugate(o)           == Reading(o, Look(o))
Simplify(o)            == Reading(o, Look(o))
EchoOperand(o)         == <<Peek(o)>>

(* Products with matrices; two polynomials are multiplied with no lock.    *)
BinaryOperation(r, o) ==
  IF r.key = Raw
  THEN Reading(o, NeedMatrix(o, r.n)) \o Writing(o, Push(o)) \o <<Peek(o)>>
  ELSE <<Peek(o)>>

-----------------------------------------------------------------------------
(* Moment rules.                                                           *)
NewRulebook(r, given, o) ==
  CASE r.key[1] # "sequences"    -> Reading(o, NeedSymbols(o, r.n))
    [] "no_new_symbols" \in given -> Reading(o, NeedWords(o, r.key))
    [] OTHER                     -> Writing(o, Register(o, r.key))

CreateMomentRules(r, given, o) ==
  (IF "info" \in given
   THEN <<Peek(o)>>
   ELSE NewRulebook(r, given, o)
          \o Writing(o, IF "rulebook" \in given THEN MergeBook(o, r.n) ELSE AddBook(o)))
    \o <<ReadLock(o), Look(o)>>

ApplyMomentRules(r, o)   == <<ReadLock(o), NeedBook(o, r.n), Look(o)>>
MomentRules(r, o)        == Reading(o, NeedBook(o, r.n))
MomentRuleSuperset(r, o) == <<ReadLock(o), NeedBook(o, r.n), NeedBook(o, 0)>>
OperatorRules(o)         == Reading(o, Look(o))

-----------------------------------------------------------------------------
(* Probabilities. A tensor is made, or the symbols it misses are filled    *)
(* in, under a write lock taken in place of the read lock.                 *)
Upgraded(o, instruction) == <<Unlock(o), WriteLock(o), instruction, Unlock(o), ReadLock(o)>>

(* Mutant of Refresh: symbols that were missing stay so.                   *)
RefreshOnce(tensor, o) ==
  IfNot(Has(o, tensor), Upgraded(o, MakeTensor(o, tensor)))

Refresh(tensor, o) ==
  IfElse(Has(o, tensor),
         IfNot(Complete(o, tensor), Upgraded(o, FillTensor(o, tensor))),
         Upgraded(o, MakeTensor(o, tensor)))

RefreshCollinsGisin(o)      == Refresh("cg", o)
RefreshFullCorrelator(o)    == RefreshCollinsGisin(o) \o Refresh("fc", o)
RefreshProbabilityTensor(o) == RefreshCollinsGisin(o) \o Refresh("pt", o)

CollinsGisin(o)     == <<ReadLock(o)>> \o RefreshCollinsGisin(o) \o <<NeedTensor(o, "cg")>>
(* One correlator is taken from the full tensor, but another is refreshed. *)
FullCorrelator(r, o) ==
  <<ReadLock(o)>>
    \o (IF r.n = 0 THEN RefreshFullCorrelator(o) ELSE RefreshProbabilityTensor(o))
    \o <<NeedTensor(o, "fc")>>
ProbabilityTable(o) == <<ReadLock(o)>> \o RefreshProbabilityTensor(o) \o <<NeedTensor(o, "pt")>>
MakeExplicit(o)     == ProbabilityTable(o)

-----------------------------------------------------------------------------
(* A symmetrized system: the words its map is to act on get symbols first, *)
(* or it is as large as the largest moment matrix; then the map is made.   *)
SymmetrizedMatrixSystem(r, o) ==
  <<ReadLock(o)>>
    \o If(r.n > 0, <<Unlock(o), WriteLock(o), Register(o, <<"words", r.n>>), Unlock(o), ReadLock(o)>>)
    \o <<ReadLock(o), StoreDerived(o, r.n)>>

(* Systems on which a function works; on others it throws.                 *)
SuitableKinds(fn) ==
  CASE fn \in {"extended_matrix", "suggest_extensions"}       -> {"inflation"}
    [] fn \in {"transform_matrix", "transform_symbols", "make_representation"} -> {"symmetrized"}
    [] fn = "commutator_matrix"                               -> {"pauli", "lattice"}
    [] fn = "lattice_symmetrize"                              -> {"lattice"}
    [] fn = "import_matrix"                                   -> {"imported"}
    [] fn = "operator_rules"                                  -> {"algebraic"}
    [] fn \in {"collins_gisin", "full_correlator", "probability_table", "make_explicit"} -> {"locality", "inflation"}
    [] OTHER -> {"locality", "inflation", "pauli", "lattice", "algebraic", "imported", "symmetrized"}

WithoutSystem == {"alphabetic_name", "complete", "convert_tensor", "echo_matrix", "flatten_indices",
                  "logging", "settings", "version"}

(* make_representation and lattice_symmetrize touch neither matrices nor   *)
(* symbols: the group has a mutex of its own, the context never changes.   *)
Program(r, given, o, b, kind) ==
  CASE r.fn \in {"make_representation", "lattice_symmetrize"} -> <<>>
    [] r.fn = "operator_matrix"    -> OperatorMatrix(r, o) \o ExportMatrix(given, o)
    [] r.fn = "value_matrix"       -> ValueMatrix(o) \o ExportMatrix(given, o)
    [] r.fn = "moment_matrix"      -> MomentMatrix(r, o, b) \o ExportMatrix(given, o)
    [] r.fn = "substituted_matrix" -> SubstitutedMatrix(r, o) \o ExportMatrix(given, o)
    [] r.fn = "localizing_matrix"  -> LocalizingMatrix(r, given, o, b, kind = "lattice") \o ExportMatrix(given, o)
    [] r.fn = "commutator_matrix"  -> CommutatorMatrix(r, given, o, kind = "lattice") \o ExportMatrix(given, o)
    [] r.fn = "extended_matrix"    -> ExtendedMatrix(r, given, o) \o ExportMatrix(given, o)
    [] r.fn = "import_matrix"      -> ImportMatrix(r, o)
    [] r.fn = "transform_matrix"   -> TransformMatrix(r, o, b)
    [] r.fn = "suggest_extensions" -> SuggestExtensions(r, o)
    [] r.fn = "generate_basis"     -> GenerateBasis(r, o)
    [] r.fn = "symbol_table"       -> SymbolTable(o)
    [] r.fn = "word_list"          -> WordList(r, given, o)
    [] r.fn = "import_polynomial"  -> ImportPolynomial(r, given, o)
    [] r.fn = "transform_symbols"  -> TransformSymbols(o, b)
    [] r.fn = "conjugate"          -> Conjugate(o)
    [] r.fn = "simplify"           -> Simplify(o)
    [] r.fn = "echo_operand"       -> EchoOperand(o)
    [] r.fn \in {"multiply", "plus", "commutator"} -> BinaryOperation(r, o)
    [] r.fn = "create_moment_rules"  -> CreateMomentRules(r, given, o)
    [] r.fn = "apply_moment_rules"   -> ApplyMomentRules(r, o)
    [] r.fn = "moment_rules"         -> MomentRules(r, o)
    [] r.fn = "moment_rule_superset" -> MomentRuleSuperset(r, o)
    [] r.fn = "operator_rules"       -> OperatorRules(o)
    [] r.fn = "collins_gisin"        -> CollinsGisin(o)
    [] r.fn = "full_correlator"      -> FullCorrelator(r, o)
    [] r.fn = "probability_table"    -> ProbabilityTable(o)
    [] r.fn = "make_explicit"        -> MakeExplicit(o)
    [] r.fn = "symmetrized_matrix_system" -> SymmetrizedMatrixSystem(r, o)
=============================================================================
