----------------------- MODULE OperatorMatrixFactory -----------------------
(***************************************************************************)
(* The multi-threaded factory of operator matrices: the caller allocates   *)
(* an array, raises a flag, the workers fill their columns of it, and      *)
(* their promises tell the caller that they are done; then the same again  *)
(* for the aliased matrix.                                                 *)
(*                                                                         *)
(* When a future rethrows, the caller frees the arrays and joins, whatever *)
(* the other workers do.  What comes of a write to freed memory is not     *)
(* followed: outcome and matrices of the call are settled by then.         *)
(***************************************************************************)
EXTENDS OperatorMatrixTask

CONSTANTS NumWorkers, Blank, NoInfo

Workers  == 0..(NumWorkers - 1)
Owner(c) == c[2] % NumWorkers

ASSUME WorkersAssumption == NumWorkers \in 1..Dim
ASSUME BlankAssumption   == Blank \notin Values /\ NoInfo \notin Cells

VARIABLES task,
          pc, todo,                \* per worker: where it is, the pairs left to it
          nonHermitian,            \* per worker: non_hermitian
          os, alias,               \* the arrays at os_data_ptr and alias_data_ptr
          osFlag, aliasFlag,       \* ready_to_begin_osm_generation, ..._alias_generation
          osFuture, aliasFuture,   \* done_os_generation, done_alias_generation
          mainPc, gathered,        \* the caller; how many futures it has read
          minimumNonH,             \* minimum_non_h_info, NoInfo when is_hermitian
          unaliased, aliased, outcome
worker == <<pc, todo, nonHermitian, os, alias, osFuture, aliasFuture>>
main   == <<osFlag, aliasFlag, mainPc, gathered, minimumNonH, unaliased, aliased, outcome>>
vars   == <<task, worker, main>>

Stripe(w) == {c \in Pairs : Owner(c) = w}

Init == /\ task \in Tasks
        /\ pc = [w \in Workers |-> "waitOs"] /\ todo = [w \in Workers |-> {}]
        /\ nonHermitian = [w \in Workers |-> NoInfo]
        /\ os = [c \in Cells |-> Blank] /\ alias = [c \in Cells |-> Blank]
        /\ osFlag = FALSE /\ aliasFlag = FALSE
        /\ osFuture = [w \in Workers |-> "pending"]
        /\ aliasFuture = [w \in Workers |-> "pending"]
        /\ mainPc = "osBegin" /\ gathered = 0
        /\ minimumNonH = NoInfo
        /\ unaliased = NoMatrix /\ aliased = NoMatrix /\ outcome = "running"

-----------------------------------------------------------------------------
(* The workers.                                                            *)
IsCurrent(w, c) == /\ c \in todo[w]
                   /\ \A d \in todo[w] \ {c} : c[2] < d[2] \/ (c[2] = d[2] /\ c[1] < d[1])

\* Mutant of Mismatch: elements on the diagonal are not tested.
MismatchOffDiagonal(matrix, c) == c[1] # c[2] /\ Hash[Conj[matrix[c]]] # Hash[matrix[Mirror(c)]]

\* Hashes are compared, so that a difference in sign is none.
Mismatch(matrix, c) == Hash[Conj[matrix[c]]] # Hash[matrix[Mirror(c)]]

\* The test for Hermiticity after a pair is written: the first mismatch is kept.
Test(w, matrix, c) ==
  nonHermitian' = [nonHermitian EXCEPT
    ![w] = IF task.generic /\ @ = NoInfo /\ Mismatch(matrix, c) THEN c ELSE @]

\* A pair of cells: both are computed if the matrix could be non-Hermitian,
\* the second is the conjugate of the first otherwise.
WithPair(matrix, c, value, mirrored) ==
  [d \in Cells |-> CASE d = c -> value
                     [] d # c /\ d = Mirror(c) -> mirrored
                     [] OTHER -> matrix[d]]

OsBegin(w) == /\ pc[w] = "waitOs" /\ osFlag
              /\ pc' = [pc EXCEPT ![w] = "os"]
              /\ todo' = [todo EXCEPT ![w] = Stripe(w)]
              /\ UNCHANGED <<nonHermitian, os, alias, osFuture, aliasFuture>>

OsPair(w, c) ==
  /\ pc[w] = "os" /\ c \notin task.osThrows
  /\ os' = WithPair(os, c, task.product[c],
                    IF task.generic THEN task.product[Mirror(c)] ELSE Conj[task.product[c]])
  /\ Test(w, os', c)
  /\ todo' = [todo EXCEPT ![w] = @ \ {c}]
  /\ UNCHANGED <<pc, alias, osFuture, aliasFuture>>

\* Mutant of OsThrow: the exception is not put into the promise.
OsThrowLost(w, c) ==
  /\ pc[w] = "os" /\ c \in task.osThrows
  /\ pc' = [pc EXCEPT ![w] = "done"]
  /\ UNCHANGED <<todo, nonHermitian, os, alias, osFuture, aliasFuture>>

OsThrow(w, c) ==
  /\ pc[w] = "os" /\ c \in task.osThrows
  /\ osFuture' = [osFuture EXCEPT ![w] = "exception"]
  /\ pc' = [pc EXCEPT ![w] = "done"]
  /\ UNCHANGED <<todo, nonHermitian, os, alias, aliasFuture>>

OsDone(w) ==
  /\ pc[w] = "os" /\ todo[w] = {}
  /\ osFuture' = [osFuture EXCEPT ![w] = "value"]
  /\ pc' = [pc EXCEPT ![w] = IF task.aliases THEN "waitAlias" ELSE "done"]
  /\ UNCHANGED <<todo, nonHermitian, os, alias, aliasFuture>>

\* What was found about Hermiticity is reset, and found again.
AliasBegin(w) ==
  /\ pc[w] = "waitAlias" /\ aliasFlag
  /\ pc' = [pc EXCEPT ![w] = "alias"]
  /\ todo' = [todo EXCEPT ![w] = Stripe(w)]
  /\ nonHermitian' = [nonHermitian EXCEPT ![w] = IF task.generic THEN NoInfo ELSE @]
  /\ UNCHANGED <<os, alias, osFuture, aliasFuture>>

AliasPair(w, c) ==
  /\ pc[w] = "alias" /\ c \notin task.aliasThrows
  /\ alias' = WithPair(alias, c, Simplify[os[c]],
                       IF task.generic THEN Simplify[os[Mirror(c)]] ELSE Conj[Simplify[os[c]]])
  /\ Test(w, os, c)
  /\ todo' = [todo EXCEPT ![w] = @ \ {c}]
  /\ UNCHANGED <<pc, os, osFuture, aliasFuture>>

AliasThrow(w, c) ==
  /\ pc[w] = "alias" /\ c \in task.aliasThrows
  /\ aliasFuture' = [aliasFuture EXCEPT ![w] = "exception"]
  /\ pc' = [pc EXCEPT ![w] = "done"]
  /\ UNCHANGED <<todo, nonHermitian, os, alias, osFuture>>

AliasDone(w) ==
  /\ pc[w] = "alias" /\ todo[w] = {}
  /\ aliasFuture' = [aliasFuture EXCEPT ![w] = "value"]
  /\ pc' = [pc EXCEPT ![w] = "done"]
  /\ UNCHANGED <<todo, nonHermitian, os, alias, osFuture>>

Pair(w, c) == OsPair(w, c) \/ OsThrow(w, c) \/ AliasPair(w, c) \/ AliasThrow(w, c)

Worker(w) == /\ \/ OsBegin(w) \/ OsDone(w) \/ AliasBegin(w) \/ AliasDone(w)
                \/ \E c \in Pairs : IsCurrent(w, c) /\ Pair(w, c)
             /\ UNCHANGED <<task, main>>

-----------------------------------------------------------------------------
(* The caller.                                                             *)
OsSignal == /\ mainPc = "osBegin"
            /\ osFlag' = TRUE
            /\ mainPc' = "osGather" /\ gathered' = 0
            /\ UNCHANGED <<aliasFlag, minimumNonH, unaliased, aliased, outcome>>

\* Mutant of OsGather: a future is passed over without waiting for it.
OsGatherUnwaited == /\ mainPc = "osGather" /\ gathered < NumWorkers
                    /\ osFuture[gathered] # "exception"
                    /\ gathered' = gathered + 1
                    /\ UNCHANGED <<osFlag, aliasFlag, mainPc, minimumNonH, unaliased, aliased, outcome>>

OsGather == /\ mainPc = "osGather" /\ gathered < NumWorkers
            /\ osFuture[gathered] = "value"
            /\ gathered' = gathered + 1
            /\ UNCHANGED <<osFlag, aliasFlag, mainPc, minimumNonH, unaliased, aliased, outcome>>

\* A future rethrows: what was made is dropped.
Rethrow(future) == /\ gathered < NumWorkers /\ future[gathered] = "exception"
                   /\ mainPc' = "join" /\ outcome' = "threw"
                   /\ unaliased' = NoMatrix
                   /\ UNCHANGED <<osFlag, aliasFlag, gathered, minimumNonH, aliased>>

OsRethrow == mainPc = "osGather" /\ Rethrow(osFuture)

\* NonHInfoOrdering: the lowest row, then the lowest column.
Lower(c, d) == c[1] < d[1] \/ (c[1] = d[1] /\ c[2] < d[2])
Found  == {nonHermitian[w] : w \in Workers} \ {NoInfo}
Lowest == {c \in Found : \A d \in Found \ {c} : Lower(c, d)}

\* determine_hermitian_status, and the matrix object is made of the array.
OsCreate == /\ mainPc = "osGather" /\ gathered = NumWorkers
            /\ minimumNonH' \in IF Found = {} THEN {NoInfo} ELSE Lowest
            /\ unaliased' = os
            /\ IF task.aliases THEN mainPc' = "aliasBegin" /\ UNCHANGED outcome
                               ELSE mainPc' = "join" /\ outcome' = "returned"
            /\ UNCHANGED <<osFlag, aliasFlag, gathered, aliased>>

AliasSignal == /\ mainPc = "aliasBegin"
               /\ aliasFlag' = TRUE
               /\ mainPc' = "aliasGather" /\ gathered' = 0
               /\ UNCHANGED <<osFlag, minimumNonH, unaliased, aliased, outcome>>

AliasGather == /\ mainPc = "aliasGather" /\ gathered < NumWorkers
               /\ aliasFuture[gathered] = "value"
               /\ gathered' = gathered + 1
               /\ UNCHANGED <<osFlag, aliasFlag, mainPc, minimumNonH, unaliased, aliased, outcome>>

AliasRethrow == mainPc = "aliasGather" /\ Rethrow(aliasFuture)

AliasCreate == /\ mainPc = "aliasGather" /\ gathered = NumWorkers
               /\ aliased' = alias
               /\ mainPc' = "join" /\ outcome' = "returned"
               /\ UNCHANGED <<osFlag, aliasFlag, gathered, minimumNonH, unaliased>>

\* The factory's destructor.
Join == /\ mainPc = "join" /\ \A w \in Workers : pc[w] = "done"
        /\ mainPc' = "ended"
        /\ UNCHANGED <<osFlag, aliasFlag, gathered, minimumNonH, unaliased, aliased, outcome>>

Main == /\ \/ OsSignal    \/ OsGather    \/ OsRethrow    \/ OsCreate
           \/ AliasSignal \/ AliasGather \/ AliasRethrow \/ AliasCreate
           \/ Join
        /\ UNCHANGED <<task, worker>>

\* The destructor waits for workers that wait for the second flag, which
\* will not be raised.
Stranded == /\ mainPc = "join" /\ ~aliasFlag
            /\ \A w \in Workers : pc[w] \in {"waitAlias", "done"}
            /\ \E w \in Workers : pc[w] = "waitAlias"

Terminated == (mainPc = "ended" \/ Stranded) /\ UNCHANGED vars

Next == Main \/ (\E w \in Workers : Worker(w)) \/ Terminated

Spec == Init /\ [][Next]_vars

(* Every thread is scheduled until it ends.                                *)
FairSpec == Spec /\ WF_vars(Main) /\ \A w \in Workers : WF_vars(Worker(w))

-----------------------------------------------------------------------------
Futures == {"pending", "value", "exception"}

(* Every variable has its type; a worker is in a phase only when its flag  *)
(* is up, and the second flag goes up when the first phase is over.        *)
TypeOK ==
  /\ task \in Tasks
  /\ pc \in [Workers -> {"waitOs", "os", "waitAlias", "alias", "done"}]
  /\ todo \in [Workers -> SUBSET Pairs]
  /\ nonHermitian \in [Workers -> Pairs \cup {NoInfo}] /\ minimumNonH \in Pairs \cup {NoInfo}
  /\ os \in [Cells -> Values \cup {Blank}] /\ alias \in [Cells -> Values \cup {Blank}]
  /\ osFuture \in [Workers -> Futures] /\ aliasFuture \in [Workers -> Futures]
  /\ mainPc \in {"osBegin", "osGather", "aliasBegin", "aliasGather", "join", "ended"}
  /\ gathered \in 0..NumWorkers /\ outcome \in {"running", "returned", "threw"}
  /\ \A w \in Workers : (pc[w] # "waitOs" => osFlag) /\ (pc[w] = "alias" => aliasFlag)
  /\ aliasFlag => \A w \in Workers : osFuture[w] = "value"

(* is_hermitian, which the caller puts together from what each worker saw  *)
(* of its own columns, is right of the matrix as a whole, but for signs:   *)
(* there is evidence exactly if the matrix is not Hermitian up to sign,    *)
(* and the element kept as evidence does differ.                           *)
HermitianStatus ==
  unaliased # NoMatrix =>
    /\ (minimumNonH = NoInfo) <=> HermitianUpToSign(unaliased)
    /\ minimumNonH # NoInfo => unaliased[minimumNonH] # Conj[unaliased[Mirror(minimumNonH)]]

(* "Leading thread determines if constructed matrix is Hermitian.", as the *)
(* constructor of the matrix does, which compares signs too. Violated by a *)
(* matrix with an element that is minus its mirror's conjugate.            *)
LeadingThreadIsRight == unaliased # NoMatrix => ((minimumNonH = NoInfo) <=> Hermitian(unaliased))

(* "Destructor: gather finished threads.": a call ends, also when a worker *)
(* throws. Violated when one throws in the first phase, and others have    *)
(* kept their promise and wait for the second.                             *)
Completes == <>(mainPc = "ended")

(* "Block until all workers are done": the arrays are there as long as     *)
(* somebody writes to them. Violated when a worker throws whose future is  *)
(* read before that of another.                                            *)
WritesToFreed == outcome = "threw" /\ \E w \in Workers : pc[w] \in {"os", "alias"} /\ todo[w] # {}
ArraysOutliveWriters == ~WritesToFreed

(* These are the only ways not to end: every other call ends, with all     *)
(* threads finished, whichever workers throw and in whatever order the     *)
(* threads get on.                                                         *)
CompletesOrBreaks == <>(mainPc = "ended" \/ Stranded \/ WritesToFreed)

(* The caller gets the matrices the single-threaded factory would make, no *)
(* cell of which is still to be written, or else the exception.            *)
Singlethreaded == INSTANCE OperatorMatrixFactorySinglethreaded
ImplementsSinglethreaded == Singlethreaded!Spec
=============================================================================
