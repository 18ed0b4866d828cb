# Moment in TLA+

Moment is a C++ library, used from MATLAB, that makes the moment matrices of
polynomial optimization problems: it reduces words of operators, gives their
moments ids ("symbols"), fills matrices with symbols, factorizes them, and
derives matrices from others by symmetry. This directory specifies the parts of
it whose correctness depends on the order in which things happen: the worker
threads, the shared tables, the locks, the caches that hand out ids and
references, the symbols that name moments in every matrix, the rulebooks whose
rules arrive one after another. TLC checks the specifications on small instances;
TLAPS proves the most important results for every instance.

Contents

1. The system: components, state, operations, interactions
2. Modules, and how they correspond to the code
3. Runs: what each checks, its bounds, what it shows
4. Fairness
5. What is proved
6. Findings
7. Abstractions and limits
8. Plan

Paths below are relative to `src/cpp/lib_moment` unless they begin with
`src/` or `mex_functions/` (which is `src/cpp/mex_functions`).

## 1. The system

| component | state it keeps | operations | talks to |
|---|---|---|---|
| Operator sequences, contexts (`dictionary/`, `scenarios/context.*`) | immutable words; the context's operators | multiply, conjugate, simplify | used by all |
| Dictionary, generators (`dictionary/`) | lists of words per length, made on demand | `level`, `word_list`, pairs | matrix factories |
| Symbol table (`symbolic/`) | symbols by id, hash index, bases of real and imaginary parts | merge in, create, look up | matrices, rulebooks, factor table |
| Moment rulebooks (`symbolic/rules/`) | rules, pending rules, flags | infer, complete, reduce | symbol table, rulebook storage |
| Operator rulebooks (`scenarios/algebraic/`) | rewrite rules | reduce, complete | algebraic context |
| Operator matrix factories (`matrix/operator_matrix/`) | arrays of words, per-worker evidence of non-Hermiticity | make a matrix, single- or multi-threaded | matrix system |
| Matrix transformation (`matrix/substituted_matrix.*`, `multithreading/matrix_transformation_worker.h`) | arrays of polynomials, per-worker bases | transform each element | rulebooks, derived systems |
| Matrix system (`matrix_system/`) | matrices, indices (key to offset), rulebooks, a read-write mutex | find, create, `push_back` | contexts, symbol table, factories |
| Derived matrix systems (`scenarios/derived/`) | as above, and an index by source | transform a matrix of the base system | base matrix system |
| Symmetrized scenario (`scenarios/symmetrized/`) | group elements, representations per word length | generate, build representations on demand | derived systems |
| Inflation scenario (`scenarios/inflation/`) | causal network and its copies, factor table beside the symbol table, extended matrices | factorize, relabel, multiply, extend a matrix by scalars | symbol table, matrix system |
| Other scenarios (locality, Pauli, imported) | contexts, specialised indices | as the matrix system | matrix system |
| Tensors, probability (`tensor/`, `probability/`) | Collins-Gisin, probability and correlator tensors, stored or virtual, completed on demand | make, refresh, read, give values to | symbol table, locality and inflation systems |
| Utilities (`utilities/`) | index tree, bit sets, iterators, persistent storage | containers | all |
| Thread-safe queue (`multithreading/queue.h`) | linked list, two mutexes, condition variable, abort flag | push, pop, try-pop, abort | file logger |
| MATLAB functions (`mex_functions/`) | the bank of matrix systems, settings, logger | one C++ function per MATLAB function | matrix systems |
| File logger (`mex_functions/logging/`) | queue, file, writer thread | report, clear, destroy | queue, file |
| MATLAB classes (`src/matlab/`) | handles | wrappers | MATLAB functions |

Four kinds of interaction make it hard.

* **Worker threads without locks.** Group representations and operator matrices
  are made by workers that write stripes of one array and communicate with the
  caller only through atomic counters, flags, promises and futures. Correctness
  is a question of which write is known to be over when a read begins.
* **Double-checked creation.** Matrices and new symbols are looked up under a
  read lock, which is released, and made under the write lock after a second
  look-up. What was seen before the second lock may be stale.
* **Tables that must agree.** Symbols, factor lists, offsets and matrices live in
  several tables kept in step by position only; ids are given out before the
  tables know of them; one operation appends to several.
* **Some forty functions with hand-made locking.** Each MATLAB function takes the
  locks of one or two matrix systems itself, some several times, with gaps between.

`PROJECT.json` lists every component with what is modelled of it, and forty
hazards, each at its line, with the properties that watch over it or the reason
why none does.

What makes each component correct, in a sentence: the *queue* delivers in order,
to one consumer each, and wakes those who wait; the *logger* writes what it took
and outlives nobody it uses; a walk through the *storage* misses nothing; *group representations* are complete when they can be seen; *operator
matrices* are those a single thread would make, and known to be Hermitian iff
they are; *matrix systems* make a matrix once, under one index; the *factor
table* has for each symbol the sorted list of its fundamental factors, and its
multiplications agree; *extended matrices* hold products, one symbol each; the *symbol table* has one
symbol per word and its conjugate, and *monomial matrices* have in each cell the
moment of its operators, whichever threads registered it, and bases that give the matrix back;
*operator rulebooks* stay equivalent to the equations given to them, and are
complete only when every way of reducing agrees; *moment rulebooks* have the
solutions of the equations they were made from, whatever order these came in,
and what was reduced with them stays reduced; *MATLAB functions* hold the
lock for what they do and return the index they were asked for.

## 2. Modules

### Group representations

`RepresentationBuild` has the arithmetic of `group.cpp`: the parents of a word length
(`LeftParent`, `RightParent`), `DecomposeBuildList` and `Pruned`. It
says what one build is given (`Built`, `BuildList`) and
abstracts a matrix to the number of fundamental factors multiplied into it, so
that a representation for length `n` is right exactly when all its elements have
`n`. A matrix that misses a factor, or a blank one, has fewer. Only the
arithmetic of the matrices is lost.

`GroupRepSequential` is the single-threaded builder, and the abstract
specification. `GroupRepGeneration` is `GroupRepGenerationWorker` and
`GroupRepGenerationBundle`: one action per load, comparison, wait, increment and
notification, because everything hangs on their order. `wpc`/`mpc` are the
threads' positions; `last_generated`, `global_index` the atomics;
`local_index`, `local_global`, `g_idx`, `l_idx` the copies the code keeps of
them. `atomic::wait` compares and blocks in one step and needs a notification to
return, so lost notifications would show.

### Queue and file logger

`Queue` is `multithreading/queue.h`. The linked list is the sequence of its data;
`head_mutex`, which is held across steps, is modelled, `tail_mutex`, which guards
single reads and writes, makes those steps atomic. `waiting` is the wait set of
the condition variable; `NotifyOne` and `NotifyAll` are steps of their own, as
they are sent after the change, without `head_mutex`; `SpuriousWakeup` is what a
condition variable may do. `FifoQueue` is what callers are promised.

`ToFileLogger` instantiates `Queue` for one caller and one writer thread and adds
construction, reporting, clearing and destruction, in a file system where the
file may cease to be writable at any time. The caller has two names towards the
queue, `Reporter` and `Destroyer`, which never act at once.

### MATLAB functions and the storage they share

`PersistentStorage` is the bank of matrix systems: `Store`, `Release`, `Clear`, and
clients that walk with `First` and `NextItem` without a lock in between. The index
has `IndexWidth` bits and wraps; `emplace_hint` does not overwrite.

`MexPrograms` has what each function says of itself in its constructor (flags, parameters, numbers
of inputs and outputs, names that exclude each other), and how `mex_main.cpp` sorts the inputs of a call
into parameters, flags and the rest and validates them. It then gives
each function as a sequence of instructions on matrix systems: the locks it takes, upgrades, downgrades and
releases, what it looks at, tests, and changes under them, in the order of its `operator()`. An instruction may be a
test, which passes over others when it succeeds. `MexSession` lets clients execute these programs on systems
they look up in `PersistentStorage`; a step takes a lock, or is what a client does between two locks,
in which nobody else can see it half done. `After` is what an instruction does to a system, `Throws` when it throws;
then the locks are released, as destructors do. A system released while a client is in it stays alive for that client, as
the client holds a shared pointer. What a matrix contains is reduced to its key, the lengths of the
words in it (`NewWords`: an imported system has none) and the matrices made on the way (`WithParts`).
Symbols are counted: one for each length of words, and those that stand for no words, the symbol of zero and imported ones (`Symbols`).
`KeySuits` says that a request that names the matrix it wants is one of the functions that do, and
which requests return a tensor.

### Inflation

`InflationContext` is a causal network with its sources copied, as a record: which operators
there are, when a word of them is zero (`SimplifyWord`), which relabelling of the copies makes a
word canonical as a moment (`SimplifyAsMoment`, the recursion between `simplify_as_moment` and
`apply_permutation`), and its independent factors (`Factorize`).

Loops that end after as many steps as there is data (`LeftFold`, `Place`, `Placed`: iteration and sorting, in `FactorLists`) and
those that end when there is nothing to do (`simplest`, `grown`) are recursive functions, not operators, so that they can be proved about.
`find_permutation` names the copies of a source as it meets them; `NewName` says the same without a loop: the name of a copy is the number of those heard before it.
`IsContext` is what the constructors establish of the operators, which `Inflation` computes: all relabelled variants exist, once each, in an order that grows with the copies they hear.

`FactorLists` has the product of two factor lists as `combine_symbolic_factors`
computes it. `FactorTable` is the factor table beside the symbol table:
`RegisterMoments` is the registration of a matrix's moments followed by
`check_for_new_factors` (both under one write lock, hence one action),
`RegisterProduct` the single-threaded `combine_and_register_factors` followed by
`register_new`; `TryMultiply` and `TryMultiplyList` are the two forms of `try_multiply`. The two tables are
functions from ids, as they are arrays in the code; the index tree is a function
from lists. A symbol is the moment it stands for, so that looking up a moment, whatever
its context makes of it, is looking for a value of the table.

`ExtendedMatrix` is the multi-threaded extension of a matrix: workers look up
the factor list of a cell in the factor table, then in the shared bank of new
symbols under a read lock (`Search`), then again under the write lock
(`Recheck`), then add it to the tree (`AddToTree`) and to the definitions
(`Push`). A node of the index tree may exist without a value, as `IndexTree::add`
makes one for every prefix; `nodes` and `values` keep the two apart. `Register`
is what happens after the join. `SymbolRegistry`, the abstract specification,
resolves a cell in one step.

### Probability tensors

`ProbabilityTensors` adds to the tables the three tensors a locality or inflation system keeps:
`cg`, `pt` and `fc` are the Collins-Gisin, probability and full correlator tensors, absent, stored or
virtual (`Storage`: a tensor with many elements makes each when it is read). A *layout* is what the subclasses
for the two kinds of scenario hand to their base classes: the dimensions, the measurements in them, their operators
and outcomes. `Find` is `SymbolTable::where`, with aliases; `DimensionInfo` and `PTPolynomial` are `make_dimension_info` and
`do_make_element`, the expansion of outcomes that have no operator; `FCPolynomial` is the four
`make_...` functions of the full correlator, which are one formula; `PTRange` and `ExplicitValueRules` are
`measurement_to_range` and `explicit_value_rules`, evaluated by a property as they change no state. `RefreshCollinsGisin`,
`RefreshProbabilityTensor`, `RefreshFullCorrelator` are the functions of `MaintainsTensors`, one action each: what happens
between their locks is in `MexPrograms`. `NewMatrix` and `NewProduct` are the factor table's actions, and those of a
locality system, which has no factor table.

### Matrix systems

`DerivedMatrixSystem` has a matrix system and one derived from it, each with
matrices, indices and a read-write mutex. A thread's call is
`MatrixIndices::operator()` (`ReadLock`, `Find`, `WriteLock`, ...) or `create`
(`WriteLock` at once). Making a derived matrix takes the base system's locks while
the derived one's is held (`SourceReadLock` .. `SourceCreate`). `AddToBase` is what a factory of the base
system adds, a matrix and its index; before `Create` or `SourceCreate` adds a polynomial localizing matrix,
`CreatePart` adds those of its monomials that are missing, one by one, in order.
`Notified` is what `on_new_moment_matrix` and its like do to the second index of
the derived system. Assertions are properties, not behaviour: the model is of a
release build. MATLAB itself calls from one thread; the library locks for
several, and the models have several, as the library's interface allows.

### Operator matrices

`OperatorMatrixTask` says what a call is given: the element functor's result for
each cell, whether the context can have aliases, whether the matrix could be
non-Hermitian, which pairs of cells throw. Operator sequences are opaque values
with a conjugation, a hash that does not see signs, and a simplification that commutes with conjugation, which is what the
comment in the code demands. `OperatorMatrixFactorySinglethreaded` is the
single-threaded factory and the abstract specification. `OperatorMatrixFactory`
is the multi-threaded one: workers fill stripes of columns in two phases, opened
by flags and closed by promises; the caller reads the futures one by one, makes
the matrix object, opens the second phase, and joins the threads in the
destructor. Workers compare hashes when they test whether the matrix is Hermitian (`Mismatch`). A worker may throw in either phase: the caller rethrows when it reads that future, and
frees the arrays, whatever the others do (`Stranded`, `WritesToFreed`). A worker writes the two cells of a pair in one step: they are in its
stripe alone, and nobody reads either before the phase is over (which the
refinement checks).

### Operator rulebooks

`OperatorRule` has words of operators, each a record of its operators, hash and
sign (a power of i, or zero), as `HashedSequence` keeps them; the shortlex hash,
conjugation, one rule with its application, overlaps and the critical pair
`combine` makes of two rules. `OperatorRulebook` is the book, a function from the
hash of a left-hand side to the rule, as the `std::map` is: `DoAddRule` is the recursion
of `do_add_rule` over rules that compete for a left-hand side, `ReduceRuleset` the
pass of `reduce_ruleset`, `ReduceViaIteration` and `ReduceViaSearch` the two ways
of reducing a word between which `reduction_method` chooses by sizes it does not keep
up to date. `StartCompletion` and `CompletionStep` are `complete`, one action per
iteration of each of its two loops, because what matters is what an iteration leaves to
the next one. `MCOperatorRulebook` supplies what the equations mean: a family of matrices
over a small ring, in which equations hold or not.

### Moment rulebooks

`MomentRulebook` has three parts. A polynomial is a function from the slots (a symbol, or its conjugate) to coefficients, in a field of
nine elements with an imaginary unit, in the order the default polynomial factory sorts them. Then comes
one rule: how `moment_rule.cpp` orients a polynomial, splits it when it is
about a Hermitian symbol, and solves the two equations for a symbol and its conjugate,
leaving a partial rule when these do not determine it. Last, a book of rules:
raw rules pending, completion by taking them in order of their leading terms, reduction,
comparison of books. `RulebookStorage` is the books of a matrix system, the
matrices made with them, and the expansion of rules to products of symbols in an inflation system:
`Add`, `Merge`, `RegisterSymbols`, `MakeMatrix`, each under the system's write lock and hence one
action. Exceptions are results (`Returned`, `Thrown`), with the state they leave behind.

Each `MC...` module instantiates one of these for TLC.

### Contexts, symbol table and monomial matrices

`OperatorContexts` has the contexts as records: products, conjugates and canonical
forms of words in the base context and in the locality, Pauli and algebraic ones.
`SymbolTable` is `symbol_table.cpp` as operators on a table: how a word is merged in under its
own hash or its conjugate's, `fill_to_word_length`, the numbering of the real and imaginary bases.
`MonomialMatrixSystem` makes a matrix of symbols from one of words on one thread, and has
the constructor's work after it: the symbols that occur, the masks and the basis
matrices; and it makes the calls: the context is a table held
in a variable, a call is a creation of a matrix, a multiplication, or a fill of the table. `MonomialMatrixFactory` is the same work spread over workers: each collects the
symbols of its stripe, the workers merge them pairwise, level by level, one inserts them into the
table, all look their cells up again. A merge takes two steps, `BeginMerge` and `EndMerge`, so that one sees whose maps are
in use meanwhile (`MapsUsedBy`); of a Hermitian matrix two workers may write one cell, without an order (`Writes`). `FactorySpec` is
the factory by itself: calls for any words, one at a time, and their workers' steps.
`ImportedMatrixSystem` is the system whose matrices come from the user: importing merges
symbols by their numbers and flags, and may refuse half-way. `MonomialMatrices` is
the abstract specification: a cell is the moment of its word times its factor, and only the
moments asked for are known.

## 3. Runs

Every property that holds has a mutant: a version of one definition with a plausible bug
(a dropped check, an off-by-one, a lock not released), under which the same run
finds the property violated. The mutants stand in the modules, each before the
definition it changes.

| run | instance | properties |
|---|---|---|
| `group_rep_generation` | 3 workers, 4 elements, levels 2, 4, 5 | `ParentsPublished` `NoWriteAfterMove` `PublishedForGood` `Termination` `ImplementsSequential` |
| `queue` | 2 producers, 2 consumers, 1 aborter, 2 data, list of at most 2 | `TryPopReturns` `ImplementsFifo` |
| `queue_lost_wakeup` | the same | `AbortEndsWaiting`, violated |
| `to_file_logger` | 3 events, 1 writer | `EventsAccountedFor` |
| `probability_tensors` | 5 causal networks, 3 locality scenarios, 1 product, tensors of at most 100 elements | `ListsAreCanonical` `FactorsMakeTheMoment` `MultiplicationsAgree` `TensorsAreProbabilities` `RefreshedTensorsAreCurrent` |
| `extended_matrix` | 3 workers, 4 columns and 2 scalars | `OneSymbolPerList` `MatrixIsProduct` `Completes` `ImplementsRegistry` |
| `derived_matrix_system` | 3 threads, 7 calls, 4 keys | `NoOrphans` `IndexedMatrices` `Completes` |
| `operator_matrix_factory` | 3 workers, 4 columns, 18 kinds of call | `HermitianStatus` `CompletesOrBreaks` `ImplementsSinglethreaded` |
| `operator_rulebook` | 2 operators, 2 rules given, 1 call, at most 4 iterations | `SameAlgebra` `MethodsAgree` `Progress` |
| `moment_rulebooks` | 3 matrix systems, 5 symbols, 2 books, 1 merge, 1 matrix | `SameSolutions` `ComparisonIsRight` `MatricesStayReduced` `RefusedAreContradictory` `FailedMergeUndone` |
| `monomial_matrices` | 4 workers; 5 operator and 2 imported scenarios; 2 calls or 3 imports | `TableConsistent` `MergesAreSound` `BasesReproduceMatrix` `ImplementsMonomialMatrices` |
| `mex_session` | 2 clients, 7 scenarios, 2 to 4 calls, 3-bit indices | `WalkIsComplete` `NoRaces` `AnswersNameTheirMatrix` `NothingMadeTwice` `TensorsAreFresh` |

**group_rep_generation.** Nobody reads a parent that is not published; what is
published is never replaced; no worker writes to data that main
moves away; nobody waits for ever; and the whole is the single-threaded builder (so that what is published is complete),
with `idx` being the number of levels published. Three levels are the least in
which a worker can be a level ahead of main and another one behind; three workers
with four elements give one worker two elements and the others one; the levels 2,
4, 5 each need the one before. The build list is computed from `decompose_build_list`.

**queue.** A consumer that waits does not keep `try_pop_front` waiting; data
leave in order, each once, which fails as soon as two consumers are at the head or
one pops an entry it has not found. Two consumers and two
producers are what the races over one entry need; a list of two distinguishes
order.

**to_file_logger.** Everything reported is handled, in flight, or queued, in
order; when the destructor returns the writer has ended and has handled all it
took. Events still in the queue at that time are dropped, which the property
allows, as the code aborts the queue before it joins the thread. The file system
can always change, so this run cannot report a deadlock; the lost wake-up of the
queue (section 6) is where one would be.

**probability_tensors.** Whatever matrices and products are registered, in whatever order:
factor lists are sorted, fundamental and indexed, a moment's symbol has its independent parts as factors,
each up to a relabelling of the copies, and the two multiplications of the code agree. Whatever outcomes measurements show,
the polynomial of a probability is 1 or 0 accordingly and that of a correlator a sign, and the rules for
given conditional probabilities hold (`TensorsAreProbabilities`, which quantifies over all outcomes, and so compares
polynomials, not words); and a tensor refreshed now has exactly the elements whose moments are registered, stored
elements never being wrong (`RefreshedTensorsAreCurrent`), however registrations and refreshes alternated. The networks are:
a source of two observables; one of three observables in a chain, whose tensors are too large and not made
(`MaxElements`); two sources of one observable; an observable of three outcomes beside one that is no
measurement; and a chain without copies. All but the last have two copies of each source: the
least in which relabelling matters. The locality scenarios have several measurements for a party, different numbers of
outcomes, and three parties, which take the general branch of the full correlator. Matrices are the moment
matrix of level 1 and some of a single word, among them words whose factors are not registered before. With
`ExplicitLimit` 60 instead of the code's 1024 some tensors are stored and some virtual. When everything is
registered and refreshed nothing more can happen, so that deadlock is not checked.

**extended_matrix.** Workers that miss the same list at once make one symbol for
it; the matrix holds products; everyone ends; and the whole is the sequential registry. The instance
has eleven new cells, of which several, in the stripes of different workers, have the same new list.

**derived_matrix_system.** Threads that ask for the same matrix leave none behind that no
index finds (`NoOrphans`), the indices find the right ones (`IndexedMatrices`), and every call
returns. There is one base matrix for a key; a derived matrix may be there twice, by its key and by
its source's offset, which is why `AliasIsTheMatrix` is not among the run's properties (section 6). The calls make two threads want the same derived
matrix, one of them also by the offset of its source, while a third adds the
source, with its parts, to the base system.

**operator_matrix_factory.** The caller gets the single-threaded factory's
matrices or the exception; the Hermitian flag is right up to signs; every call ends, with all threads
finished, or one of two things has happened: workers are stranded before the second phase, or the arrays were freed
while somebody was writing (`CompletesOrBreaks`). The stronger `LeadingThreadIsRight`, `Completes` and `ArraysOutliveWriters` do
not hold (section 6). Four columns for three workers; the eighteen calls are the
combinations of aliases and generic or Hermitian functors with a Hermitian matrix,
with one spoilt off the diagonal, on it, in its sign only, or in the columns of several workers, and six in which the last
worker, an earlier one, or two throw, in the first phase or in the second, with aliases and without.

**operator_rulebook.** Whatever rules are given, in whatever order, and whatever
completion does to them, the book holds in the same matrices as the equations
(`SameAlgebra`: a rule lost or a wrong one derived changes which matrices satisfy it); a
book found complete reduces words to one normal form by both methods, provided
that the overlaps completion passes over (section 6) join; each iteration counted makes a
new word reducible. The rules are all those between words of at most two letters, with a sign
in one family and with the identity in another, and Pauli-like ones; completion is cut off
after one iteration or after four, so that a book is also used half-way.

**moment_rulebooks.** The rules have exactly the solutions of the equations they
were made from, over all values of the symbols, through completion, merging and
expansion; comparison of books is implication; a matrix made with a book stays reduced when symbols and rules come later; only
contradictory equations are refused, and a refused merge leaves the book alone. The first
system has a symbol of each kind, the second two complex symbols, of which each
may lead the other's equations, and the third is an inflation system in which two products
are registered later. Equations are chosen for the cases of `moment_rule.cpp`: those that
determine a complex symbol, do so only partly, or split.

**monomial_matrices.** Ids, hashes and basis numbers of the symbol table agree
whatever is registered in whatever order (`TableConsistent`); no map of new symbols is
used by two threads at once, and the one that is registered has what all workers found (`MergesAreSound`); a matrix is the combination of its basis
matrices with the real and imaginary parts of its symbols, unless an import has been
refused (`BasesReproduceMatrix`); and the whole, merges and conjugate look-ups included, is
the moment of each cell's word, also where two workers write one cell, whoever is last. The scenarios have words that are their own conjugate,
their conjugate's sign, aliases, products that vanish, and factors; four workers make two
levels of merging, so that a worker can be a level ahead. A matrix of dimension 4 is
made once, smaller ones in sequences of two.

**mex_session.** Two clients call the functions of mtk at once. Nobody writes what another writes, or reads
under a lock, at that time (`NoRaces`); the index a call returns is that of the matrix it was asked for
(`AnswersNameTheirMatrix`); a matrix asked for twice is made once, and symbols are added to an
imported system up to the largest named and no further (`NothingMadeTwice`); tensors have all symbols the
table had when the call for them began (`TensorsAreFresh`); a walk through the storage sees every
system that is there throughout (`WalkIsComplete`); and nobody waits for ever, but in the calls named below. There
is a scenario for each kind of system, with the functions that work on it, and one
for the storage itself; in each, two clients make two calls in every order, or up to four, so
that a call can meet a system that another has changed, released or is about to lock. Deadlock is checked.
`Stop` is the step of a session that may end: nobody is in a call, or somebody is in one of those that lock a
derived system after its source, which can wait for ever (section 6; without that exception TLC finds it).
`TensorsAreFresh` leaves out one full correlator and Collins-Gisin tensors that were replaced, `NoRaces` the reads
without a lock ("peek"): both are described in section 6. The latter are raced: `ReadsAreLocked` does not hold.

One further run ends with a counterexample; section 6 explains it: `queue_lost_wakeup`.

## 4. Fairness

Liveness is checked under weak fairness of each thread (`WF_vars(WorkerStep(w))`,
`WF_vars(Thread(t))`, ...): a thread that can run runs in the end. That is what an operating
system gives; no action is made fair in preference to another of the same
thread. A thread blocked on a lock, an atomic, a future or a condition variable
has no enabled action, and so nothing is assumed of it.

`Queue` needs one thing more: `SF_vars(LockHead(c))`, that a mutex which is free
again and again is granted in the end. C++ does not promise it; common mutexes
provide it. It is used for `TryPopReturns` alone. Nobody is obliged to call
anything: `CallTryPop`, `Push`, `SetAbort` and `SpuriousWakeup` carry no fairness.

## 5. What is proved

Nine components have proofs for all values of the constants, each in a module of
its own (the inflation contexts, the factor table and the tensors share one, and so do the logger and the workers of monomial
matrices). In each, an inductive invariant is established (`Init` implies it, each
action preserves it, one step per action), and the properties follow from it.

`GroupRepGeneration_proofs`: `TypeCorrect`, `ParentsArePublished`,
`PublishedIsComplete`, `NoWriteIsLost`, `ReferencesStayValid`,
`RefinesSequential`. Assumptions: at least one worker and no more than elements;
a build list whose lengths are new and whose parents come before them. The
invariant `IInv` (in `GroupRepGeneration`) adds to the properties what ties
the counters to the data: levels up to `NumPublished` are published and moved, later ones not
(`PublishedInv`); main's copies are current, and workers it has passed are beyond
its level (`MainInv`); a worker in a level has all earlier ones published
(`WorkerInv`); raw data is right wherever a worker has been (`RawDataInv`). Without
the last, that a published level is complete is true but not inductive: main
looks only at counters.

`ExtendedMatrix_proofs`: `TypeCorrect`, `OneSymbol`, `Aligned`, `Product`,
`Implements`. Assumptions: at least one worker, factor lists over the naturals, known ids
below the first new one. The product of two lists stays opaque. The invariant adds that a worker's
cells are of its stripe (`Stripes`) and blank exactly until it writes the right
id (`Answered`), that a list in the tree whose definition is not pushed yet is
the current one of the worker at `Push` (`NewLists`; `NewSymbolsAligned` alone
says nothing while the lock is held), that what a worker has found out about its
list still holds, as that nobody has registered it since `Recheck` (`Progress`), and
that the tables are those before or those after registration (`Tables`). Refinement uses
`newFactors` and `matrix` as they are: a cell is resolved when it is written,
and a symbol created in the same step, `Push`.

`OperatorMatrixFactory_proofs`: `TypeCorrect`, `HermitianStatusCorrect`,
`Implements`. Assumptions: the constants' (`ValuesAssumption`,
`TasksAssumption`, `WorkersAssumption`); any worker may throw in any phase. The
invariant says which cells of each array are final given a worker's position,
its promises and what is left to it (`WorkerInv`), that its evidence is a mismatch of hashes
and that, in the first phase, no evidence means no mismatch in the columns done
(`EvidenceInv`), and that futures read so far were kept (`MainInv`). Stripes partition
the pairs (`PairFacts`), so that when all futures have been read every cell is final.

`Queue_proofs`: `Exclusive`, `Implements`. Assumption: the kinds of threads are disjoint (`ThreadsAssumption`).
The invariant says that a consumer between locking and releasing `head_mutex` is its owner (`HoldsHead`), and that what it
has seen is still so (`SeesData`): list and flag only grow while it holds the mutex, although producers and `abort` do without
it. `Exclusive` is the first; by the second, whoever pops has data to pop, and each step is one of
`FifoQueue` or none.

`Threads_proofs`, the logger: `UsesTheQueue`, `EventsAreAccountedFor`. Assumption: the three names are different (`LoggerAssumption`).
`UsesTheQueue` shows that the logger's steps are steps of the queue, whose invariant then holds for it, as proved once for any clients. `LoggerInv`
adds that the writer is outside the queue unless it waits in it, so that what is between list and file
is what it took (`InFlight`).

`Threads_proofs`, the workers of monomial matrices: `MergesAreAlwaysSound`, of `FactorySpec`, which the run's
specification implements: what else happens in the system leaves the variables of the factory, the context and the call alone. Assumption:
the number of threads is positive (`MaxWorkersAssumption`); any words on a square, and whatever `IdentifiedBy` finds in them. The merge is a
tree that exists only in the arithmetic of `bit_floor` and `bit_width`. `BitFacts` is what these compute, from `TwiceThePower`, which counts subsets,
as the provers know of `^` only that; then each worker but 0 has one `Parent`, which merges it at the level at which it ends itself, and has begun high
enough to come past that level, also where shares are halved because the number of workers is no power of two (`FirstLevelFacts`, `ParentFacts`). That gives `MergeInv`: the partner of
a merge in progress is at its last level, and so merges nothing (`LevelInv`); no worker goes past the level of one that still merges (`ParentInv`); so what has
been identified is in a map that is worker 0's, or is still to be taken over (`FoundInv`). When all have ended, none is still to be taken over. The
property is not inductive: it looks only at who merges now, and at the end.

`DerivedMatrixSystem_proofs`: `IndicesAreRight`, `MatricesAreFound`. Assumption: calls ask for keys, offsets or nothing
(`CallsAssumption`); any number of threads. `IndexInv` adds to the two properties that offsets are of matrices that are there; `ThreadInv`
is what a thread may rely on: from the second look until its matrix is in the index it holds the derived system's mutex and
its key is not there, and what it has found of the source stays true, as indices of the base system only grow. The base
system's part needs no such history: the second look and the creation are under one lock there.

`MexSession_proofs`: `WalksAreComplete`, `WritersAreAlone`, `AnswersAreRight`,
`MatricesAreUnique`, `TensorsCatchUp`. Assumptions: `PersistentStorageAssumption` and `ScenariosAssumption`, which says that a system is derived
from an earlier one, that an imported one begins with the empty word, that requests are for functions of the table,
and that a request names a matrix, or a tensor, if it is for a function that returns one (`KeySuits`). Any number of clients, systems and requests.

* The bank: what a walker is due to see and has not seen is ahead of it (`WalkInv`); indices grow, so that a new
  object is never behind a walker that would have to see it. This part holds for any use of the bank, of which the session's is one (`UsesTheBank`).
* The functions: there are some forty programs with tests in them, whose states on the way cannot be listed by hand. So each
  is given a *type*, as in a proof outline: for each place, what is sure there on every way to it, namely the systems locked for reading and for
  writing, the matrices known to be absent from systems locked for writing, and whether the answer so far is right (`Succeeds`, `Fails`, `Typing`).
  An instruction is permitted where the type has the locks that `Reads` and `Writes` ask for, and where a matrix that is appended
  without a second look is known to be absent (`Permitted`). Programs that are put together have types that are put together, tests included; `ProgramTyped` says
  that the program of every request has one, which ends with a right answer.
* The session: `SessionInv` says that the bank is as it should be, that a system's indices find its matrices and none has two of a
  key (`SystemsInv`), that no client has a write lock that another has (`LockInv`), and that what is left of each call's program has a
  type, of which the first line is true now (`CallInv`). It is stable because what a type can say about a system another client cannot
  change: absences are of systems one has locked for writing, and a right answer stays right as matrices are only appended. The three theorems
  about matrices and locks are read off it.
* Tensors: a call for one gives up its read lock up to four times, and somebody else may make, fill or replace a tensor each time. What it
  knows of the tensors at a place in its program (`Lore`) is which are made, which are whole, that is, have all their symbols, and which are due:
  not there while the Collins-Gisin tensor was whole, so that whoever makes them makes them whole. A whole tensor may become one without symbols if
  the Collins-Gisin tensor is replaced; so each of these is said only as long as it is not (`Whole`, `Due`), which is what
  makes it stable under every instruction of other clients (`Steady`, `AfterSteady`). `Learns` and `Misses` are what an instruction adds, when it succeeds or is a
  test that fails; `LeadsRefresh` follows the twelve instructions of a refresh, and `LeadsToAnswer` puts the programs together. `TensorState` is
  the invariant: tensors are never ahead of the Collins-Gisin tensor they were made with, and what a call knows is true.

`ProbabilityTensors_proofs`: `MomentsAreCanonical`, `AlwaysListed`, `ListsStayCanonical`, `FactorsAlwaysMakeTheMoment`, `MultiplicationsAlwaysAgree`,
`TensorsAlwaysStored`, `RefreshedTensorsStayCurrent`. Assumptions: `ScenariosAssumption` (contexts are what the constructors make, `IsContext`; matrices are
lists of words of the context's operators; in a locality scenario the last outcome of a measurement has no operator) and `BoundsAssumption`, by which no
matrix is extended by the symbol of zero (`CombineFactors` then gives lists that are out of order, section 6). Any causal network, any level
of inflation, any words of any length, any number of products, in any order.

* Data first. The recursion of `simplify_as_moment` has no bound in the code, and nothing there says that it ends. It does: renaming the copies and sorting
  what comes out makes a word that is lexicographically smaller, as the first operator that hears a copy out of turn gets an earlier one (`IsContext`: variants that hear later copies come
  later) and no operator before it changes. Were there words for which the recursion does not end in a canonical one, there would be one among those of its length with the most operators up to 1, of
  these with the most up to 2, and so on (`LastRow`); its successor would be beyond it, hence good, and so it would be good itself. So every moment
  has a form that is in order, free of clashes, and hears copies in turn; relabelling neither joins nor divides parts, so that the canonical form of a factor
  is one factor (`MomentsAreCanonical`, `FactorizedIntoFactors`).
* `ListedInv`: symbols are zero, the identity, products, and canonical moments, no two alike (`AreSymbols`); each has an entry, whose list is in order, of ids of elementary
  symbols, and is the symbol alone if that is elementary; zero and the identity are in no longer list; the index has the list of every entry, and only lists of entries (`AreListed`).
  `ListsAreCanonical` alone is not inductive: it does not say that a factor's own factorization gives the factor back, which
  `EntryForFactor` takes for granted when it enters `<<id>>` without asking. The loop of `check_for_new_factors` needs the
  same of the tables half way, when symbols are ahead of entries (the parameter of `AreListed`). Registering a product keeps it because merged lists are again of elementary symbols, in order.
* `FactorsMakeTheMoment`: that two words are the same moment is that some relabelling of the copies of the sources and some permutation of the operators take
  one to the other (`Matches`, `Alike`). This is an equivalence, whose classes are the `Orbit`s of the property (`OrbitMembers`), and each step of
  `simplify_as_moment` stays in the class. The parts that `Grown` finds are the minimal closed sets of places (`PartsAreIndependent`); relabelling
  takes parts to parts (`GrownMoves`) and what is in them to its like (`SubsequencesSimilar`). So `ListedInv` says of every entry that its list
  names the parts of the symbol's word one by one, each up to relabelling (`DividesInto`); sorting the list, and looking the factors up by their
  canonical forms, only permutes and relabels (`DivisionRelabelled`), and the division of the canonical form is one of the word
  it was looked up for (`DivisionCarries`). The property counts these. That the classes may have several canonical forms (section 6) does no harm
  here: the list names one of each.
* `MultiplicationsAgree`: `try_multiply` reads lengths and expands at most one operand where `combine_symbolic_factors` always merges;
  that both find the same entry rests on where sorting puts the identities in a merged list, and on what is left when they are removed.
* `TensorInv`: of an explicit Collins-Gisin tensor each element is not found or has the id of its word's symbol; of the other two each is missing or what
  the symbols there are make of it (`TensorsStored`). It is stable because tables only grow (`Grows`): an id found stays the id, and a polynomial that could be
  resolved is resolved in the same way later (`TensorsStay`). Each refresh then completes exactly what can be completed; for the full correlator this needs that its
  dimensions are the Collins-Gisin tensor's where it exists (`CorrelatorSizes`, from the assumption on outcomes).

Induction over data. The library's induction theorems take an operator as a parameter, which no installed prover instantiates. `Induction`
states the principle for a set of numbers instead, and recursive functions are shown to exist from it: `Iterates` for loops over a sequence, `TailRecursion` for
loops that go on until they reach a stopping state; this is how what `LeftFold`, `SimplifyAsMoment` and `Grown` compute is proved for every input.

Only model-checked, and why:

* What needs fairness or `ENABLED`: `Termination`, `Completes`, `CompletesOrBreaks`, `TryPopReturns`, `Progress` and the other liveness properties.
* The operator rulebooks and the moment rulebooks (`SameAlgebra`, `MethodsAgree`, `SameSolutions`, `ComparisonIsRight`, `MatricesStayReduced`,
  `RefusedAreContradictory`, `FailedMergeUndone`): reduction and completion are recursive operators, in whose modules the prover has no arithmetic.
* `TensorsAreProbabilities`: that sums over the outcomes of measurements agree needs sums over finite sets to be taken apart and reordered (`Total`, the
  library's fold over a set), and with them the algebra of polynomials, for which the library has no theorems.
* The rest of `monomial_matrices` (`TableConsistent`, `BasesReproduceMatrix`, `ImplementsMonomialMatrices`): hash indices, merged bases and the words of the contexts are
  recursive operators shared with the rulebooks.
* That `DecomposeBuildList` yields a list in which parents come first is an assumption of the group's proofs, evaluated by TLC for the instance.

## 6. Findings

* **Lost wake-up** (`queue_lost_wakeup`). `abort()` and `push_back` notify without
  holding `head_mutex` and without having held it since the change: a consumer that has
  evaluated its predicate but does not block yet misses the notification. After
  `abort()` no other comes: the consumer, and whoever joins its thread, wait for
  ever.

Stated in the modules after the properties that hold, and violated. They are not among the properties of the runs; with one of them as
an invariant (`Completes`: a property) of the run named, TLC prints the counterexample:

* **A derived matrix made twice** (`AliasIsTheMatrix`, in `derived_matrix_system`). Making a derived matrix by its key enters it under
  its source's offset too, but not the other way round (the TODO in `on_new_derived_matrix`, `derived_matrix_system.cpp:272`). Asked for by
  offset and then by key, it is made twice; `insert_alias` returns the older entry, and the assertion at line 249 fails. In a release build
  the two indices go on naming different matrices.
* **A sign-blind test for Hermiticity** (`LeadingThreadIsRight`, in `operator_matrix_factory`). The workers of the multi-threaded factory compare `hash()`
  (`operator_matrix_factory_multithreaded.h:170`, `191`, `227`, `246`), which does not depend on signs; the single-threaded test
  and the constructor of the matrix compare with `!=` (`is_hermitian.cpp:15-24`, `operator_matrix.cpp:50`). For an element that is minus its mirror's
  conjugate they disagree. Nobody reads the factory's answer: the matrix object makes its own.
* **Stranded workers** (`Completes`, in `operator_matrix_factory`). When a worker throws in the first phase in a context with aliases, workers that kept
  their promise wait for the flag of the second phase (line 100), which nobody raises, and the destructor joins them for ever.
* **An array freed under its writers** (`ArraysOutliveWriters`, in `operator_matrix_factory`). The caller rethrows at the first future with an exception (line 450), and unwinding frees
  the array; workers with later futures may be writing to it, as they are joined only afterwards.
* **A look-up without a lock** (`ReadsAreLocked`, in `mex_session`). `on_new_moment_matrix` and its siblings (`derived_matrix_system.cpp:246`, `256`, `265`; called
  at `matrix_indices.h:148`) look into the base system's index with no lock on the base system, into which another client may be inserting. So are symbols
  read for the degree of a polynomial (line 187).

Seen while modelling, without a run:

* A factor list that is a proper prefix of a registered one has a node but no value in the
  index tree, which the look-up of new symbols asserts it has
  (`temporary_symbols_and_factors.cpp:46`).
* For operators whose symbols are not known yet, the MATLAB function
  `localizing_matrix` locks the base system of a derived one for writing, twice, and the derived one never: it looks for the
  matrix there without a lock, and throws when it has to make it
  (`mex_functions/functions/operator_matrix/localizing_matrix.cpp:254-283`, `matrix_indices.h:123`).
* The single-threaded extension of a matrix uses a reference into the factor table
  (`row_factors`, `extended_matrix.cpp:115`) after registrations that may move its
  entries. The models have values for references and cannot tell.
* `noexcept(the_functor)` in `matrix_transformation_worker.h:103` is true of every
  functor, so the branch that would pass on exceptions is never compiled in.
* `fstream` does not throw when a file cannot be opened, although
  `to_file_logger.h:63` relies on it: an unwritable log is silent.
* A product with a zero factor gets a list with two zeros instead of the symbol zero
  (`factor_table.cpp:370`).
* Completion of an operator rulebook looks at the longest overlap of two different rules
  only: {AA -> B} is complete, though AAA reduces to AB or BA, while
  `operator_rulebook.h:124` says there are no critical pairs. After a restart
  `conjugate_ruleset` passes over the first rule. A rule A = iA is dropped as trivial
  (`operator_rule.cpp:81`; the comment at `operator_rule.h:89` says otherwise); X -> -X makes reduction
  go on for ever; `to_rule` (`mex_functions/import/read_monomial_rules.cpp:173`) turns a rule
  round without conjugating its sign; when I -> 0 is derived, the empty word is not reduced and
  the assertion at line 464 fails.
* `reduce` makes an empty sequence anew from whether it is zero (`operator_rulebook.cpp:195`),
  where its comment has it forwarded: a right-hand side of -1 becomes 1 when the book is
  reduced. In the run `operator_rulebook` no -1 can be derived in the families used.
* `expand_rulebook` (`inflation_matrix_system.cpp:116`) leaves the mode in which rules may be added to
  a book in use switched on when the book is empty or when it throws; it is not repeated
  until nothing changes; a merge is not undone when the expansion after it throws
  (`rulebook_storage.cpp:71-76`), and what is pending makes later merges throw; `refreshAll` stops at the first book
  that throws; symbols registered by extended matrices refresh nothing.
* A contradictory polynomial of several terms is lost by the `complete` that
  throws, one of a single term is kept (`small_vector.h:120-136`); a second `complete` then succeeds.
* `fill_to_word_length` (`symbol_table.cpp`) takes a word that is its own conjugate up
  to sign for Hermitian: with AB = -BA, AB is anti-Hermitian. Where a conjugate carries a
  sign (with BA = -AB, that of ABC is -CAB), the matrix factories ignore it.
* The cached bases of a matrix (`matrix_basis.h:53-77`) are never made again by
  `import_matrix`, which renumbers them; the comment at `imported_matrix_system.cpp:185` has
  them reconstructed. An import that throws at a symbol said to be zero has
  already changed the flags of those before it. `get(index)` in `import_matrix` throws once a matrix has been
  deleted, and `delete_matrix` tests `index > size()`.
* A constructor of `OperatorSequence` hashes a vector it has moved from (`operator_sequence.cpp:40-46`), which
  shows for more than 16 operators.
* `do_monomial_multiply` picks `sequence()` and `sequence_conj()` the wrong way round
  (`symbolic_matrix.cpp:159-160`). A Hermitian matrix of operators with a complex factor is taken for a
  Hermitian matrix of symbols, and its basis matrices do not give it back; so is an import with such factors.
* The workers of a Hermitian matrix write each other's cells without order. The values differ for
  anti-Hermitian words only. With several threads the Pauli scenario registers
  negative products as symbols of their own, which the comment at `symbol_table.cpp:117` excludes.
* `execute()` of a factory worker hands an exception to its own promise and worker 0's, whose second
  setting terminates the process; the others wait for a merge level that nobody completes.
* `Dictionary::Level`, the Pauli dictionary's `NearestNeighbour`: iterators kept from before an insertion,
  an inverted assertion, references into a vector that grows, level 0 made again.
  `MonomialMatrix::clone` dereferences the absent operator matrix; `DictionaryMap` takes aliased words for
  conjugated; `AlgebraicContext::conjugate` loses the sign where operators are not self-adjoint.
* Equivalent moments of an inflation may have different canonical forms, as `find_permutation` takes
  copies of sources greedily, in order of occurrence; `inflation_context_tests.cpp:1076` has it so. For one observable B
  of two sources, each with two copies, {B00, B10, B01} and {B00, B10, B11} are one moment and both canonical.
* `InflationMatrixSystem` does not override `CanHaveFullCorrelator`: its full correlator can be asked for
  but never made. The correlators of one and two parties take symbol 0 for a missing one
  (`probability/full_correlator.cpp:65`, `96`: `> 0`), that of more parties does not; no word of theirs is zero.
* Bounds are tested with `>` where `>=` is meant in the `measurement_to_range` functions of the locality and
  inflation tensors and in `global_source_to_source_variant`; `CollinsGisin::measurement_to_range` takes the last outcome of a fixed
  measurement, which has no element there.
* Of the MATLAB functions (files are in `mex_functions/functions/`):
  * `localizing_matrix` with symbols takes a derived system's lock while it holds that of the source
    (`operator_matrix/localizing_matrix.cpp:178-186`), and making a matrix takes them the other way round: two
    clients wait for each other. `transform_matrix` does the same, reads a second input though one is
    enough for it, and always ends with "not implemented".
  * `RefreshCollinsGisin` does not look again under the write lock, as its siblings do ("Double-check, in case
    scooped."): of two first calls the second replaces the tensor, to which a full correlator or probability tensor
    made meanwhile keeps a reference (`maintains_tensors.cpp:45`). One full correlator is taken from a tensor that
    is not refreshed; the probability tensor is (`probability/full_correlator.cpp:35`).
  * With `masks`, a read lock is taken by a client that has it (`operator_matrix/operator_matrix.cpp:30`).
    `import_matrix` exports, `extended_matrix` counts symbols, `create_moment_rules` with `info` looks a
    rulebook up, two polynomials are multiplied, and `echo_operand` reads, without a lock, though `matrix_system.h:6` asks for one.
  * Settings are read, changed and written back with nothing in between to keep others out (`settings.cpp:161-196`).
  * `clean_inputs` counts inputs without the data of parameters (`mex_functions/mex_main.cpp:228`): a last parameter
    without data passes when another parameter came before it (`ReadsBeyond`).
  * `substituted_matrix` with named inputs reads the index of the rulebook from the parameter `matrix`
    (`operator_matrix/substituted_matrix.cpp:28`); `commutator_matrix` with a named `level` never passes it on; `list` reads
    the flag `contexts` but registers `context`; `generate_basis` writes a second output that may not be there;
    `make_explicit` appends a sum where one minus the sum is meant (`probability/make_explicit.cpp`, `check_count`).

## 7. Abstractions and limits

* Matrices of numbers, words of operators and polynomials are values that can be told
  apart; the properties are about who makes them, when, and under which id.
* Memory is sequentially consistent. Where the code orders memory explicitly
  (acquire and release on the counters), that order suffices for the reads the
  properties mention. What a reader sees in a plain data race (by the reads without a lock, section 6) is
  not followed: the instruction reads the state before or after the writer's.
* What comes of a write to freed memory in `OperatorMatrixFactory` is not followed: matrices and outcome of the call are settled by then.
  The non-Hermitian cell reported is the lowest among each worker's first, not the
  lowest of the matrix; `HermitianStatus` claims no more.
* In `ProbabilityTensors` the words of a locality scenario's matrices are given as its generator lists them, adjoints
  once; symbols made for products have no word, so that no tensor element finds them, as in the code.
* Exceptions of memory allocation and of thread creation are left out.
* Bounds: `MaxLength` (queue), `MaxReports` (logger), `IndexWidth`, `MaxStores`, the scenarios' `calls` (MATLAB sessions: 3-bit indices, more
  than the 6 objects stored, so that no index returns; the real index has 32 bits),
  `MaxProducts`, `MaxFactors`, `Operands` (factor table), `ExplicitLimit`, `MaxElements` (tensors), the sets of calls
  (`Calls`, `Tasks`), the dimensions in the `MC` modules.
  `MaxAdds`, `MaxCalls`, `Limits` (operator rulebook), `MaxBooks`, `MaxMerges`, `MaxMatrices`, `MaxSymbol`
  (moment rulebooks), `MaxWorkers`, `max_calls` and `MaxImports` (monomial matrices).
* The instance of `monomial_matrices` keeps to what the code is right about: multipliers are Hermitian, Hermitian
  matrices have no complex factor, no word is anti-Hermitian in a Hermitian matrix made by several threads or in a
  dictionary, imports have real factors and come before bases are read. Section 6 has what happens otherwise.
  Exceptions of its workers, and products with polynomials, are not modelled.
* Coefficients of polynomials are of a field of nine elements, with a conjugation
  and an imaginary unit: exact, unlike floating point, and enough for each case in `moment_rule.cpp` except that
  of a pair of equations whose directions are 45 degrees apart, which the field's
  norm cannot tell from dependent ones; equations of this kind are not in the instance.
* `DerivedMatrixSystem` leaves out `delete_matrix`, which nothing calls,
  `generate_dictionary` and the rulebook storage.
* `MexSession` leaves out the caches of dictionaries, which have no lock of their own, the bodies of functions that use no matrix
  system (`settings`, `logging`, `version`, ...), of `make_representation` and `lattice_symmetrize`, and the
  reading and writing of MATLAB values. `is_debug` and its like change messages only.
* Not modelled at all: what `PROJECT.json` lists as `not_modelled`. Floating-point
  linear algebra (symmetrized groups, symbol table maps), import and export, formatting and
  the MATLAB classes have no state that a model checker would explore better than
  the unit tests do.

## 8. Plan

Done, in this order: group representations; queue, logger and storage; factor
table and extended matrices; matrix systems; operator matrices; proofs for three of them;
operator rulebooks; moment rulebooks, their storage and their expansion; symbol table,
contexts, monomial and imported matrices; sessions of MATLAB functions with the storage;
inflation contexts and probability tensors, beneath and beside the factor table; proofs for the
queue, the logger, the derived systems, the storage and the sessions; proofs for the factor table and the
tensors, and for the merge of `MonomialMatrixFactory`.

To come, most important first:

1. Matrix transformation workers, with the merge of their symbol bases and the
   exceptions they drop.
2. Dictionary and generator caches: references handed out while lists grow.
3. The Pauli scenario's lattice symmetry; import and export of MATLAB values.
4. Proofs: the polynomials of the probability tensors; the symbol table.
