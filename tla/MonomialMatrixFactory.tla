-------------------------- MODULE MonomialMatrixFactory --------------------------
(***************************************************************************)
(* MonomialMatrixFactoryMultithreaded: a matrix of symbols made from a     *)
(* matrix of words by worker threads. Each worker collects the symbols of  *)
(* its columns in a map of its own. The maps are merged pairwise, in       *)
(* levels: at level k a worker has its share of 1/2^k of the data, and     *)
(* merges into it the map of the worker 2^(k-1) places further, when that  *)
(* has come to level k. Worker 0 ends with everything; the caller enters   *)
(* it into the symbol table and lets the workers write the matrix, a       *)
(* Hermitian one twice: each cell and its mirror.                          *)
(*                                                                         *)
(* The steps of a merge are taken apart to see who uses which map when.    *)
(* Exceptions in the workers (memory) are left out.                        *)
(***************************************************************************)
EXTENDS MonomialMatrixSystem

CONSTANT MaxWorkers    \* get_max_worker_threads

ASSUME MaxWorkersAssumption == MaxWorkers \in Nat \ {0}

VARIABLES phase,       \* of the caller: "none", "identify", "register", "generate"
          worker,      \* where each worker is
          merge_level,
          unique,      \* unique_elements: hash -> symbol
          next,        \* how many cells of its columns a worker has written
          cells        \* sm_data_ptr

factoryVars == <<phase, worker, merge_level, unique, next, cells>>
matrixVars  == <<systemVars, factoryVars>>

NumWorkers(os) == Min({MaxWorkers, Dimension(os)})
Workers        == DOMAIN worker

\* A level that is higher than any.
NotIdentified == MaxWorkers + 1

BitFloor(n) == Max({2^k : k \in {j \in 0..n : 2^j <= n}})
BitWidth(n) == IF n = 0 THEN 0 ELSE Min({k \in 1..n : 2^k > n})

\* Mutant of FirstMergeLevel: only the workers above the highest power of two
\* have half shares.
FirstMergeLevelUnpaired(w, workers) ==
  LET floor == BitFloor(workers)
      p     == BitWidth(floor) - 1
  IN  IF floor # workers /\ w >= floor THEN p + 1 ELSE p

\* Workers above the highest power of two, and those they are merged into, have
\* half shares.
FirstMergeLevel(w, workers) ==
  LET floor == BitFloor(workers)
      p     == BitWidth(floor) - 1
  IN  IF floor # workers /\ (w >= floor \/ w + floor < workers) THEN p + 1 ELSE p

FinalMergeLevel(w) == IF w = 0 THEN 0 ELSE BitWidth(BitFloor(w))

Partner(w, level) == w + 2^(level - 1)

-----------------------------------------------------------------------------
(* The symbols of a worker's columns.                                      *)
ColumnsOf(w, os) ==
  SelectSeq(ColumnMajor(os), LAMBDA c : c[2] % NumWorkers(os) = w)

FirstMap(w)  == IF w = 0 THEN (0 :> SymbolZero) @@ (1 :> SymbolIdentity) ELSE <<>>
FirstFind(w) == [map |-> FirstMap(w), known |-> IF w = 0 THEN {0, 1} ELSE {}]

\* Entered under the hash of the symbol's sequence; the first one stays.
Collect(found, elem, conj) ==
  IF elem.hash \in found.known THEN found
  ELSE [map   |-> found.map @@ (SymbolFor(elem, conj).seq.hash :> SymbolFor(elem, conj)),
        known |-> found.known \cup {elem.hash, conj.hash}]

\* Of a Hermitian matrix only the lower triangle is looked at, and the conjugate
\* is read across the diagonal.
IdentifiedBy(ctx, w, os, hermitian) ==
  IF hermitian
  THEN FoldLeft(LAMBDA found, c : Collect(found, os[c], os[Mirror(c)]), FirstFind(w),
                SelectSeq(ColumnsOf(w, os), LAMBDA c : c[1] >= c[2])).map
  ELSE FoldLeft(LAMBDA found, c : Collect(found, os[c], ctx.conjugate[os[c]]), FirstFind(w),
                ColumnsOf(w, os)).map

-----------------------------------------------------------------------------

InitFactory ==
  /\ phase = "none"
  /\ worker = <<>> /\ merge_level = <<>> /\ unique = <<>> /\ next = <<>>
  /\ cells = <<>>

\* The constructor launches the threads, and execute() raises the first flag.
StartMultithread(words, prefactor) ==
  LET moments == AsMoments(context, words)
      ids     == 0..(NumWorkers(words) - 1)
  IN  /\ call = NoCall
      /\ call' = [words |-> words, moments |-> moments, factor |-> prefactor,
                  hermitian |-> IsHermitian(context, moments)]
      /\ phase' = "identify"
      /\ worker' = [w \in ids |-> "started"]
      /\ merge_level' = [w \in ids |-> NotIdentified]
      /\ unique' = [w \in ids |-> <<>>]
      /\ next' = [w \in ids |-> 0]
      /\ UNCHANGED <<context, table, matrices, bases, cells>>

Go(w, from, to) == worker[w] = from /\ worker' = [worker EXCEPT ![w] = to]

BeginIdentify(w) ==
  /\ phase = "identify"
  /\ Go(w, "started", "identifying")
  /\ UNCHANGED <<systemVars, phase, merge_level, unique, next, cells>>

EndIdentify(w) ==
  /\ Go(w, "identifying", "merging")
  /\ unique' = [unique EXCEPT ![w] = IdentifiedBy(context, w, call.moments, call.hermitian)]
  /\ merge_level' = [merge_level EXCEPT ![w] = FirstMergeLevel(w, Cardinality(Workers))]
  /\ UNCHANGED <<systemVars, phase, next, cells>>

\* The worker waits until the other one has come to its level.
BeginMerge(w) ==
  /\ Go(w, "merging", "linearMerge")
  /\ merge_level[w] > FinalMergeLevel(w)
  /\ merge_level[Partner(w, merge_level[w])] <= merge_level[w]
  /\ UNCHANGED <<systemVars, phase, merge_level, unique, next, cells>>

\* Of two entries with one hash the first map's stays.
LinearMapMerge(own, other) ==
  [hash \in DOMAIN own \cup DOMAIN other |-> IF hash \in DOMAIN own THEN own[hash] ELSE other[hash]]

EndMerge(w) ==
  LET other == Partner(w, merge_level[w])
  IN  /\ Go(w, "linearMerge", "merging")
      /\ unique' = [unique EXCEPT ![w] = LinearMapMerge(@, unique[other]), ![other] = <<>>]
      /\ merge_level' = [merge_level EXCEPT ![w] = @ - 1]
      /\ UNCHANGED <<systemVars, phase, next, cells>>

\* The promise of the first part is fulfilled.
DoneIdentification(w) ==
  /\ Go(w, "merging", "identified")
  /\ merge_level[w] <= FinalMergeLevel(w)
  /\ UNCHANGED <<systemVars, phase, merge_level, unique, next, cells>>

\* The caller has the futures of all workers.
GatherSymbols ==
  /\ phase = "identify"
  /\ \A w \in Workers : worker[w] = "identified"
  /\ phase' = "register"
  /\ UNCHANGED <<systemVars, worker, merge_level, unique, next, cells>>

\* The symbols of worker 0 are entered in the order of their hashes; then the
\* matrix is allocated and the second flag raised.
RegisterSymbols ==
  LET hashes == DOMAIN unique[0]
      nth(n) == CHOOSE h \in hashes : Cardinality({k \in hashes : k < h}) = n - 1
  IN  /\ phase = "register"
      /\ table' = MergeSymbols(table, [n \in 1..Cardinality(hashes) |-> unique[0][nth(n)]])
      /\ phase' = "generate"
      /\ cells' = [c \in DOMAIN call.words |-> [id |-> 0, factor |-> <<0, 0>>, conjugated |-> FALSE]]
      /\ UNCHANGED <<context, matrices, bases, call, worker, merge_level, unique, next>>

\* The next cell of a worker, and what it writes for it.
NextCell(w) == ColumnsOf(w, call.words)[next[w] + 1]
Writes(w) ==
  LET c == NextCell(w)
  IN  (c :> MonomialOf(table, call.moments[c], call.factor))
        @@ (IF call.hermitian /\ c # Mirror(c)
            THEN Mirror(c) :> MirrorMonomialOf(table, call.moments[c], call.factor) ELSE <<>>)

Generating(w) ==
  phase = "generate" /\ worker[w] = "identified" /\ next[w] < Len(ColumnsOf(w, call.words))

GenerateCell(w) ==
  /\ Generating(w)
  /\ cells' = Writes(w) @@ cells
  /\ next' = [next EXCEPT ![w] = @ + 1]
  /\ UNCHANGED <<systemVars, phase, worker, merge_level, unique>>

\* The promise of the second part is fulfilled, and the thread ends.
DoneGeneration(w) ==
  /\ phase = "generate" /\ ~Generating(w)
  /\ Go(w, "identified", "done")
  /\ UNCHANGED <<systemVars, phase, merge_level, unique, next, cells>>

\* The caller has the second futures of all workers, makes the matrix and joins
\* the threads.
CompleteMultithread ==
  /\ phase = "generate"
  /\ \A w \in Workers : worker[w] = "done"
  /\ matrices' = Append(matrices, NewMatrix(table, cells, call.hermitian, call.words, call.factor))
  /\ call' = NoCall
  /\ phase' = "none"
  /\ worker' = <<>> /\ merge_level' = <<>> /\ unique' = <<>> /\ next' = <<>> /\ cells' = <<>>
  /\ UNCHANGED <<context, table, bases>>

WorkerStep(w) ==
  \/ BeginIdentify(w) \/ EndIdentify(w) \/ BeginMerge(w) \/ EndMerge(w)
  \/ DoneIdentification(w) \/ GenerateCell(w) \/ DoneGeneration(w)

FactoryStep == (\E w \in Workers : WorkerStep(w)) \/ GatherSymbols \/ RegisterSymbols \/ CompleteMultithread

-----------------------------------------------------------------------------
\* A call is begun, for the words of a square matrix, or goes on; what else the
\* system does leaves these variables alone.
IsSquare(words) == \E d \in Nat \ {0} : DOMAIN words = (0..(d - 1)) \X (0..(d - 1))

FactoryNext == (\E words, prefactor : IsSquare(words) /\ StartMultithread(words, prefactor)) \/ FactoryStep

FactorySpec == InitSystem /\ InitFactory /\ [][FactoryNext]_<<context, call, factoryVars>>

-----------------------------------------------------------------------------
MapsUsedBy(w) ==
  CASE worker[w] = "identifying"  -> {w}
    [] worker[w] = "linearMerge"  -> {w, Partner(w, merge_level[w])}
    [] OTHER                      -> {}

MapsUsedAlone ==
  /\ \A w \in Workers : MapsUsedBy(w) \subseteq Workers
  /\ \A v, w \in Workers : v # w => MapsUsedBy(v) \cap MapsUsedBy(w) = {}
  /\ phase = "register" => \A w \in Workers : MapsUsedBy(w) = {}

Identified(w) == IdentifiedBy(context, w, call.moments, call.hermitian)

AllSymbolsGathered ==
  phase = "register" =>
    /\ \A w \in Workers : DOMAIN Identified(w) \subseteq DOMAIN unique[0]
    /\ \A hash \in DOMAIN unique[0] :
         \E w \in Workers : hash \in DOMAIN Identified(w) /\ unique[0][hash] = Identified(w)[hash]

\* The levels by which the workers wait for each other are right for any number
\* of workers. No two workers, nor a worker and the caller, use one map of new
\* symbols at once, though no map has a lock, and no worker waits for one that
\* there is not (the assertion on wait_for_worker_id). No map is left behind: the
\* one that the caller registers has each symbol that some worker identified, and
\* no other (first_merge_level, final_merge_level, merge_unique_symbols).
MergesAreSound == MapsUsedAlone /\ AllSymbolsGathered
=============================================================================
