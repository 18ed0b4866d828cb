-------------------- MODULE OperatorMatrixFactory_proofs --------------------
(***************************************************************************)
(* Proofs about the multi-threaded factory of operator matrices, for any   *)
(* dimension, any number of workers and any calls that the assumptions of  *)
(* the model allow.                                                        *)
(***************************************************************************)
EXTENDS OperatorMatrixFactory, TLAPS

(* The two cells of a pair have their final elements.                      *)
OsFilled(c) == /\ c \notin task.osThrows
               /\ os[c] = task.product[c] /\ os[Mirror(c)] = task.product[Mirror(c)]

AliasFilled(c) == /\ c \notin task.aliasThrows
                  /\ alias[c] = Simplify[task.product[c]]
                  /\ alias[Mirror(c)] = Simplify[task.product[Mirror(c)]]

(* What a worker's place and its promises say of its columns.              *)
WorkerInv(w) ==
  /\ todo[w] \subseteq Stripe(w)
  /\ pc[w] \in {"waitOs", "os"} => osFuture[w] = "pending"
  /\ pc[w] \in {"waitAlias", "alias"} => osFuture[w] = "value"
  /\ pc[w] # "done" => aliasFuture[w] = "pending"
  /\ pc[w] = "os" => \A c \in Stripe(w) \ todo[w] : OsFilled(c)
  /\ pc[w] = "alias" => \A c \in Stripe(w) \ todo[w] : AliasFilled(c)
  /\ osFuture[w] = "value" => \A c \in Stripe(w) : OsFilled(c)
  /\ aliasFuture[w] = "value" => \A c \in Stripe(w) : AliasFilled(c)
  /\ osFuture[w] = "exception" => task.osThrows # {}
  /\ aliasFuture[w] = "exception" => task.aliasThrows # {}

(* What it has seen of Hermiticity: its evidence is a mismatch, and until  *)
(* the second phase no evidence means that there is none in its columns.   *)
EvidenceInv(w) ==
  /\ nonHermitian[w] # NoInfo => Mismatch(task.product, nonHermitian[w])
  /\ pc[w] = "os" /\ nonHermitian[w] = NoInfo =>
       \A c \in Stripe(w) \ todo[w] : ~Mismatch(task.product, c)
  /\ osFuture[w] = "value" /\ ~aliasFlag /\ nonHermitian[w] = NoInfo =>
       \A c \in Stripe(w) : ~Mismatch(task.product, c)

MainInv ==
  /\ mainPc \in {"osBegin", "osGather"} => unaliased = NoMatrix
  /\ mainPc \in {"osBegin", "osGather", "aliasBegin"} => ~aliasFlag
  /\ mainPc = "osGather" => \A i \in 0..(gathered - 1) : osFuture[i] = "value"
  /\ mainPc \in {"aliasBegin", "aliasGather"} =>
       task.aliases /\ unaliased # NoMatrix /\ \A w \in Workers : osFuture[w] = "value"
  /\ mainPc = "aliasGather" => \A i \in 0..(gathered - 1) : aliasFuture[i] = "value"
  /\ outcome = "running" <=> mainPc \in {"osBegin", "osGather", "aliasBegin", "aliasGather"}
  /\ unaliased # NoMatrix => unaliased = task.product

Inv == /\ TypeOK
       /\ \A w \in Workers : WorkerInv(w) /\ EvidenceInv(w)
       /\ MainInv
       /\ HermitianStatus

-----------------------------------------------------------------------------
(* Cells and pairs.                                                        *)
LEMMA PairFacts ==
  /\ \A c \in Cells : Mirror(c) \in Cells /\ Mirror(Mirror(c)) = c
  /\ \A c \in Cells : c \in Pairs \/ Mirror(c) \in Pairs
  /\ \A c \in Pairs : c \in Cells /\ Owner(c) \in Workers /\ c \in Stripe(Owner(c))
  /\ \A c \in Pairs, d \in Pairs :
       c # d => d # Mirror(c) /\ Mirror(d) # c /\ Mirror(d) # Mirror(c)
<1>1. Index \subseteq Int
  BY ValuesAssumption DEF Index
<1>2. ASSUME NEW c \in Cells PROVE Mirror(c) \in Cells /\ Mirror(Mirror(c)) = c
  BY DEF Cells, Mirror
<1>3. ASSUME NEW c \in Cells PROVE c \in Pairs \/ Mirror(c) \in Pairs
  <2>1. c[1] \in Int /\ c[2] \in Int
    BY <1>1 DEF Cells
  <2> QED BY <2>1, <1>2 DEF Pairs, Mirror
<1>4. ASSUME NEW c \in Pairs PROVE c \in Cells /\ Owner(c) \in Workers /\ c \in Stripe(Owner(c))
  <2>1. c[2] \in 0..(Dim - 1) /\ c \in Cells
    BY DEF Pairs, Cells, Index
  <2>2. c[2] % NumWorkers \in 0..(NumWorkers - 1)
    BY <2>1, WorkersAssumption, ValuesAssumption
  <2> QED BY <2>1, <2>2 DEF Owner, Workers, Stripe
<1>5. ASSUME NEW c \in Pairs, NEW d \in Pairs, c # d
      PROVE  d # Mirror(c) /\ Mirror(d) # c /\ Mirror(d) # Mirror(c)
  <2>1. /\ c[1] \in Int /\ c[2] \in Int /\ c[2] <= c[1] /\ c = <<c[1], c[2]>>
        /\ d[1] \in Int /\ d[2] \in Int /\ d[2] <= d[1] /\ d = <<d[1], d[2]>>
    <3>1. ASSUME NEW e \in Cells
          PROVE  e[1] \in Int /\ e[2] \in Int /\ e = <<e[1], e[2]>>
      <4>1. PICK i \in Index, j \in Index : e = <<i, j>>
        BY DEF Cells
      <4> QED BY <4>1, <1>1
    <3> QED BY <3>1 DEF Pairs
  <2>2. c[1] # d[1] \/ c[2] # d[2]
    BY <2>1, <1>5
  <2> QED BY <2>1, <2>2 DEF Mirror
<1> QED BY <1>2, <1>3, <1>4, <1>5

(* Writing one pair of cells leaves the others alone.                      *)
LEMMA WithPairFacts ==
  ASSUME NEW matrix \in [Cells -> Values \cup {Blank}], NEW c \in Pairs,
         NEW value \in Values, NEW mirrored \in Values
  PROVE  /\ WithPair(matrix, c, value, mirrored) \in [Cells -> Values \cup {Blank}]
         /\ WithPair(matrix, c, value, mirrored)[c] = value
         /\ Mirror(c) # c => WithPair(matrix, c, value, mirrored)[Mirror(c)] = mirrored
         /\ \A d \in Pairs : d # c =>
              /\ WithPair(matrix, c, value, mirrored)[d] = matrix[d]
              /\ WithPair(matrix, c, value, mirrored)[Mirror(d)] = matrix[Mirror(d)]
<1> DEFINE m == WithPair(matrix, c, value, mirrored)
<1>1. c \in Cells /\ Mirror(c) \in Cells
  BY PairFacts
<1>2. ASSUME NEW d \in Cells
      PROVE  /\ d = c => m[d] = value
             /\ d # c /\ d = Mirror(c) => m[d] = mirrored
             /\ d # c /\ d # Mirror(c) => m[d] = matrix[d]
             /\ m[d] \in Values \cup {Blank}
  BY DEF WithPair
<1>3. m \in [Cells -> Values \cup {Blank}]
  <2>1. m = [d \in Cells |-> m[d]]
    BY DEF WithPair
  <2> QED BY <2>1, <1>2
<1>4. ASSUME NEW d \in Pairs, d # c
      PROVE  m[d] = matrix[d] /\ m[Mirror(d)] = matrix[Mirror(d)]
  <2>1. d \in Cells /\ Mirror(d) \in Cells
    BY PairFacts
  <2>2. d # Mirror(c) /\ Mirror(d) # c /\ Mirror(d) # Mirror(c)
    BY <1>4, PairFacts
  <2> QED BY <2>1, <2>2, <1>2, <1>4
<1> QED BY <1>1, <1>2, <1>3, <1>4

(* A matrix is Hermitian up to sign if no pair of its cells is a mismatch, *)
(* and a mismatch is of cells that differ.                                 *)
LEMMA HermitianByPairs ==
  ASSUME NEW matrix \in [Cells -> Values]
  PROVE  /\ HermitianUpToSign(matrix) <=> \A c \in Pairs : ~Mismatch(matrix, c)
         /\ \A c \in Pairs : Mismatch(matrix, c) => matrix[c] # Conj[matrix[Mirror(c)]]
<1>1. ASSUME NEW u \in Values
      PROVE  Conj[u] \in Values /\ Conj[Conj[u]] = u
  BY ValuesAssumption
<1>2. ASSUME NEW u \in Values, NEW v \in Values, Hash[u] = Hash[v] PROVE Hash[Conj[u]] = Hash[Conj[v]]
  BY <1>2, ValuesAssumption
<1>3. ASSUME NEW u \in Values, NEW v \in Values
      PROVE  (Hash[Conj[u]] = Hash[v]) <=> (Hash[u] = Hash[Conj[v]])
  <2>1. ASSUME Hash[Conj[u]] = Hash[v] PROVE Hash[u] = Hash[Conj[v]]
    <3>1. Hash[Conj[Conj[u]]] = Hash[Conj[v]]
      BY <1>1, <1>2, <2>1
    <3> QED BY <1>1, <3>1
  <2>2. ASSUME Hash[u] = Hash[Conj[v]] PROVE Hash[Conj[u]] = Hash[v]
    <3>1. Hash[Conj[u]] = Hash[Conj[Conj[v]]]
      BY <1>1, <1>2, <2>2
    <3> QED BY <1>1, <3>1
  <2> QED BY <2>1, <2>2
<1>4. ASSUME NEW c \in Cells
      PROVE  Mismatch(matrix, c) <=> Hash[matrix[c]] # Hash[Conj[matrix[Mirror(c)]]]
  <2>1. matrix[c] \in Values /\ matrix[Mirror(c)] \in Values
    BY PairFacts
  <2> QED BY <1>3, <2>1 DEF Mismatch
<1>5. ASSUME NEW c \in Cells, ~Mismatch(matrix, Mirror(c)) PROVE ~Mismatch(matrix, c)
  <2>1. matrix[c] \in Values /\ matrix[Mirror(c)] \in Values /\ Mirror(c) \in Cells /\ Mirror(Mirror(c)) = c
    BY PairFacts
  <2>2. Hash[matrix[Mirror(c)]] = Hash[Conj[matrix[c]]]
    BY <1>4, <1>5, <2>1
  <2> QED BY <2>2 DEF Mismatch
<1>6. ASSUME HermitianUpToSign(matrix), NEW c \in Pairs PROVE ~Mismatch(matrix, c)
  BY <1>4, <1>6, PairFacts DEF HermitianUpToSign
<1>7. ASSUME \A c \in Pairs : ~Mismatch(matrix, c), NEW c \in Cells
      PROVE  Hash[matrix[c]] = Hash[Conj[matrix[Mirror(c)]]]
  <2>1. ~Mismatch(matrix, c)
    BY <1>5, <1>7, PairFacts
  <2> QED BY <1>4, <2>1
<1>8. ASSUME NEW c \in Pairs, Mismatch(matrix, c) PROVE matrix[c] # Conj[matrix[Mirror(c)]]
  BY <1>4, <1>8, PairFacts
<1> QED BY <1>6, <1>7, <1>8 DEF HermitianUpToSign

-----------------------------------------------------------------------------
(* The array is complete when every worker has kept its first promise.     *)
LEMMA OsComplete ==
  ASSUME Inv, \A w \in Workers : osFuture[w] = "value"
  PROVE  os = task.product /\ task.osThrows = {}
<1>1. task.product \in [Cells -> Values] /\ task.osThrows \subseteq Pairs
  BY TasksAssumption DEF Inv, TypeOK
<1>2. \A c \in Pairs : OsFilled(c)
  BY PairFacts DEF Inv, WorkerInv
<1>3. ASSUME NEW c \in Cells PROVE os[c] = task.product[c]
  BY <1>2, PairFacts DEF OsFilled
<1>4. os \in [Cells -> Values \cup {Blank}]
  BY DEF Inv, TypeOK
<1>5. os = task.product
  BY <1>1, <1>3, <1>4
<1> QED BY <1>1, <1>2, <1>5 DEF OsFilled

LEMMA AliasComplete ==
  ASSUME Inv, \A w \in Workers : aliasFuture[w] = "value"
  PROVE  alias = Simplified(task.product) /\ task.aliasThrows = {}
<1>1. task.product \in [Cells -> Values] /\ task.aliasThrows \subseteq Pairs
  BY TasksAssumption DEF Inv, TypeOK
<1>2. \A c \in Pairs : AliasFilled(c)
  BY PairFacts DEF Inv, WorkerInv
<1>3. ASSUME NEW c \in Cells PROVE alias[c] = Simplify[task.product[c]]
  BY <1>2, PairFacts DEF AliasFilled
<1>4. alias \in [Cells -> Values \cup {Blank}]
  BY DEF Inv, TypeOK
<1>5. alias = Simplified(task.product)
  BY <1>3, <1>4 DEF Simplified
<1> QED BY <1>1, <1>2, <1>5 DEF AliasFilled

(* When the second flag is up, or the caller makes the first matrix, every *)
(* first promise is kept.                                                  *)
LEMMA GatheredAll ==
  ASSUME Inv, gathered = NumWorkers
  PROVE  /\ mainPc = "osGather" => \A w \in Workers : osFuture[w] = "value"
         /\ mainPc = "aliasGather" => \A w \in Workers : aliasFuture[w] = "value"
BY DEF Inv, MainInv, Workers

LEMMA InitInv == Init => Inv
<1> SUFFICES ASSUME Init PROVE Inv
  OBVIOUS
<1>1. TypeOK
  <2>1. NumWorkers \in Nat /\ 0 \in 0..NumWorkers
    BY WorkersAssumption, ValuesAssumption
  <2> QED BY <2>1 DEF Init, TypeOK, Futures
<1>2. ASSUME NEW w \in Workers PROVE WorkerInv(w) /\ EvidenceInv(w)
  BY DEF Init, WorkerInv, EvidenceInv
<1>3. MainInv /\ HermitianStatus
  BY DEF Init, MainInv, HermitianStatus
<1> QED BY <1>1, <1>2, <1>3 DEF Inv

-----------------------------------------------------------------------------
(* A worker's step, seen from the outside: it changes its own entries and  *)
(* the cells of its own pairs.                                             *)
LEMMA TestFacts ==
  ASSUME Inv, NEW w \in Workers, NEW c \in Pairs, NEW matrix,
         Mismatch(matrix, c) <=> Mismatch(task.product, c),
         Test(w, matrix, c)
  PROVE  /\ nonHermitian' \in [Workers -> Pairs \cup {NoInfo}]
         /\ \A v \in Workers \ {w} : nonHermitian'[v] = nonHermitian[v]
         /\ nonHermitian'[w] # NoInfo => Mismatch(task.product, nonHermitian'[w])
         /\ nonHermitian'[w] = NoInfo => /\ nonHermitian[w] = NoInfo
                                        /\ ~Mismatch(task.product, c)
<1>1. nonHermitian \in [Workers -> Pairs \cup {NoInfo}]
  BY DEF Inv, TypeOK
<1>2. /\ nonHermitian' \in [Workers -> Pairs \cup {NoInfo}]
      /\ \A v \in Workers \ {w} : nonHermitian'[v] = nonHermitian[v]
      /\ nonHermitian'[w] = IF task.generic /\ nonHermitian[w] = NoInfo /\ Mismatch(matrix, c)
                            THEN c ELSE nonHermitian[w]
  BY <1>1 DEF Test
<1>3. c # NoInfo
  BY PairFacts, BlankAssumption
<1>4. ~task.generic => ~Mismatch(task.product, c)
  <2>1. task.product \in [Cells -> Values] /\ (~task.generic => Hermitian(task.product))
    BY TasksAssumption DEF Inv, TypeOK
  <2>2. c \in Cells
    BY PairFacts
  <2> QED BY <2>1, <2>2, HermitianByPairs DEF Hermitian
<1>5. nonHermitian[w] # NoInfo => Mismatch(task.product, nonHermitian[w])
  BY DEF Inv, EvidenceInv
<1>6. nonHermitian[w] # NoInfo => nonHermitian'[w] = nonHermitian[w]
  BY <1>2
<1>7. nonHermitian[w] = NoInfo /\ nonHermitian'[w] # NoInfo => nonHermitian'[w] = c /\ Mismatch(matrix, c)
  BY <1>2
<1>8. nonHermitian'[w] = NoInfo => nonHermitian[w] = NoInfo /\ ~(task.generic /\ Mismatch(matrix, c))
  BY <1>2, <1>3
<1> QED BY <1>2, <1>4, <1>5, <1>6, <1>7, <1>8

(* The elements a worker writes for a pair in the first phase.             *)
LEMMA OsPairFacts ==
  ASSUME Inv, NEW w \in Workers, NEW c \in Pairs, OsPair(w, c)
  PROVE  /\ os' \in [Cells -> Values \cup {Blank}]
         /\ os'[c] = task.product[c] /\ os'[Mirror(c)] = task.product[Mirror(c)]
         /\ \A d \in Pairs : d # c => os'[d] = os[d] /\ os'[Mirror(d)] = os[Mirror(d)]
<1> DEFINE mirrored == IF task.generic THEN task.product[Mirror(c)] ELSE Conj[task.product[c]]
<1>1. task.product \in [Cells -> Values] /\ (~task.generic => Hermitian(task.product))
  BY TasksAssumption DEF Inv, TypeOK
<1>2. c \in Cells /\ Mirror(c) \in Cells
  BY PairFacts
<1>3. mirrored = task.product[Mirror(c)]
  BY <1>1, <1>2, PairFacts DEF Hermitian
<1>4. task.product[c] \in Values /\ mirrored \in Values
  BY <1>1, <1>2, <1>3
<1>5. os \in [Cells -> Values \cup {Blank}] /\ os' = WithPair(os, c, task.product[c], mirrored)
  BY DEF OsPair, Inv, TypeOK
<1> HIDE DEF mirrored
<1> QED BY <1>3, <1>4, <1>5, WithPairFacts

(* And in the second.                                                      *)
LEMMA AliasPairFacts ==
  ASSUME Inv, NEW w \in Workers, NEW c \in Pairs, AliasPair(w, c)
  PROVE  /\ os = task.product
         /\ alias' \in [Cells -> Values \cup {Blank}]
         /\ alias'[c] = Simplify[task.product[c]]
         /\ alias'[Mirror(c)] = Simplify[task.product[Mirror(c)]]
         /\ \A d \in Pairs : d # c => alias'[d] = alias[d] /\ alias'[Mirror(d)] = alias[Mirror(d)]
<1> DEFINE mirrored == IF task.generic THEN Simplify[os[Mirror(c)]] ELSE Conj[Simplify[os[c]]]
<1>1. task.product \in [Cells -> Values] /\ (~task.generic => Hermitian(task.product))
  BY TasksAssumption DEF Inv, TypeOK
<1>2. c \in Cells /\ Mirror(c) \in Cells
  BY PairFacts
<1>3. os = task.product
  BY OsComplete DEF AliasPair, Inv, TypeOK
<1>4. mirrored = Simplify[task.product[Mirror(c)]]
  <2>1. CASE task.generic
    BY <1>3, <2>1
  <2>2. CASE ~task.generic
    <3>1. task.product[Mirror(c)] = Conj[task.product[c]]
      BY <1>1, <1>2, <2>2, PairFacts DEF Hermitian
    <3> QED BY <1>1, <1>2, <1>3, <2>2, <3>1, ValuesAssumption
  <2> QED BY <2>1, <2>2
<1>5. Simplify[task.product[c]] \in Values /\ mirrored \in Values
  BY <1>1, <1>2, <1>4, ValuesAssumption
<1>6. /\ alias \in [Cells -> Values \cup {Blank}]
      /\ alias' = WithPair(alias, c, Simplify[task.product[c]], mirrored)
  BY <1>3 DEF AliasPair, Inv, TypeOK
<1> HIDE DEF mirrored
<1> QED BY <1>3, <1>4, <1>5, <1>6, WithPairFacts

-----------------------------------------------------------------------------
(* What a step leaves of a worker's state when it does not touch it.       *)
LEMMA Undisturbed ==
  ASSUME Inv, NEW v \in Workers, task' = task, aliasFlag => aliasFlag',
         pc'[v] = pc[v], todo'[v] = todo[v], nonHermitian'[v] = nonHermitian[v],
         osFuture'[v] = osFuture[v], aliasFuture'[v] = aliasFuture[v],
         \A d \in Stripe(v) : /\ os'[d] = os[d] /\ os'[Mirror(d)] = os[Mirror(d)]
                             /\ alias'[d] = alias[d] /\ alias'[Mirror(d)] = alias[Mirror(d)]
  PROVE  WorkerInv(v)' /\ EvidenceInv(v)'
<1>1. \A d \in Stripe(v) : (OsFilled(d) <=> OsFilled(d)') /\ (AliasFilled(d) <=> AliasFilled(d)')
  BY DEF OsFilled, AliasFilled
<1>2. WorkerInv(v)'
  BY <1>1 DEF Inv, WorkerInv
<1>3. EvidenceInv(v)'
  BY DEF Inv, EvidenceInv, Mismatch
<1> QED BY <1>2, <1>3

(* A promise once kept stays kept, so that a worker's step takes nothing   *)
(* away from the caller.                                                   *)
LEMMA CallerUndisturbed ==
  ASSUME Inv, task' = task, UNCHANGED main,
         \A v \in Workers : /\ osFuture[v] = "value" => osFuture'[v] = "value"
                            /\ aliasFuture[v] = "value" => aliasFuture'[v] = "value"
  PROVE  /\ MainInv' /\ HermitianStatus'
         /\ aliasFlag' => \A v \in Workers : osFuture'[v] = "value"
<1>1. HermitianStatus'
  BY DEF Inv, HermitianStatus, main, HermitianUpToSign
<1>2. gathered \in 0..NumWorkers /\ NumWorkers \in Nat
  BY WorkersAssumption, ValuesAssumption DEF Inv, TypeOK
<1>3. \A i \in 0..(gathered - 1) : i \in Workers
  BY <1>2 DEF Workers
<1>4. MainInv'
  BY <1>3 DEF Inv, MainInv, main
<1> QED BY <1>1, <1>4 DEF Inv, TypeOK, main

LEMMA OtherStripes ==
  ASSUME NEW w \in Workers, NEW v \in Workers, v # w, NEW c \in Stripe(w)
  PROVE  \A d \in Stripe(v) : d # c
BY DEF Stripe

(* Steps of a worker that write no cell.                                   *)
LEMMA PlainStep ==
  ASSUME Inv, NEW w \in Workers, UNCHANGED <<task, main>>,
         OsBegin(w) \/ OsDone(w) \/ AliasBegin(w) \/ AliasDone(w)
  PROVE  Inv'
<1> USE DEF Inv
<1>1. aliasFlag' = aliasFlag /\ osFlag' = osFlag /\ os' = os /\ alias' = alias
  BY DEF main, OsBegin, OsDone, AliasBegin, AliasDone
<1>2. TypeOK => /\ pc'[w] \in {"os", "waitAlias", "alias", "done"}
                /\ todo'[w] \in SUBSET Pairs
  BY DEF TypeOK, OsBegin, OsDone, AliasBegin, AliasDone, Stripe
<1>3. ASSUME NEW v \in Workers, v # w PROVE WorkerInv(v)' /\ EvidenceInv(v)'
  <2>1. /\ pc'[v] = pc[v] /\ todo'[v] = todo[v] /\ nonHermitian'[v] = nonHermitian[v]
        /\ osFuture'[v] = osFuture[v] /\ aliasFuture'[v] = aliasFuture[v]
    BY <1>3 DEF TypeOK, OsBegin, OsDone, AliasBegin, AliasDone
  <2> QED BY <1>1, <2>1, Undisturbed
<1>4. \A c \in Cells : (OsFilled(c) <=> OsFilled(c)') /\ (AliasFilled(c) <=> AliasFilled(c)')
  BY <1>1 DEF OsFilled, AliasFilled
<1>5. Stripe(w) \subseteq Cells /\ Stripe(w) \subseteq Pairs
  BY PairFacts DEF Stripe
<1>6. CASE OsBegin(w)
  <2>1. /\ pc[w] = "waitOs" /\ osFlag /\ pc' = [pc EXCEPT ![w] = "os"]
        /\ todo' = [todo EXCEPT ![w] = Stripe(w)]
        /\ UNCHANGED <<nonHermitian, os, alias, osFuture, aliasFuture>>
    BY <1>6 DEF OsBegin
  <2>2. TypeOK'
    BY <1>5, <2>1 DEF TypeOK, main
  <2>3. WorkerInv(w)' /\ EvidenceInv(w)'
    BY <2>1, <1>4, <1>5 DEF WorkerInv, EvidenceInv, Mismatch, TypeOK, main
  <2>4. MainInv' /\ HermitianStatus'
    BY <2>1, CallerUndisturbed
  <2> QED BY <1>3, <2>2, <2>3, <2>4
<1>7. CASE OsDone(w)
  <2>1. /\ pc[w] = "os" /\ todo[w] = {} /\ osFuture' = [osFuture EXCEPT ![w] = "value"]
        /\ pc' = [pc EXCEPT ![w] = IF task.aliases THEN "waitAlias" ELSE "done"]
        /\ UNCHANGED <<todo, nonHermitian, os, alias, aliasFuture>>
    BY <1>7 DEF OsDone
  <2>2. MainInv' /\ HermitianStatus' /\ (aliasFlag' => \A v \in Workers : osFuture'[v] = "value")
    BY <2>1, CallerUndisturbed DEF TypeOK
  <2>3. TypeOK'
    BY <2>1, <2>2 DEF TypeOK, main, Futures
  <2>4. WorkerInv(w)' /\ EvidenceInv(w)'
    BY <2>1, <1>4, <1>5 DEF WorkerInv, EvidenceInv, Mismatch, TypeOK, main
  <2> QED BY <1>3, <2>2, <2>3, <2>4
<1>8. CASE AliasBegin(w)
  <2>1. /\ pc[w] = "waitAlias" /\ aliasFlag /\ pc' = [pc EXCEPT ![w] = "alias"]
        /\ todo' = [todo EXCEPT ![w] = Stripe(w)]
        /\ nonHermitian' = [nonHermitian EXCEPT ![w] = IF task.generic THEN NoInfo ELSE @]
        /\ UNCHANGED <<os, alias, osFuture, aliasFuture>>
    BY <1>8 DEF AliasBegin
  <2>2. TypeOK'
    BY <1>5, <2>1 DEF TypeOK, main
  <2>3. WorkerInv(w)' /\ EvidenceInv(w)'
    BY <2>1, <1>1, <1>4, <1>5 DEF WorkerInv, EvidenceInv, Mismatch, TypeOK
  <2>4. MainInv' /\ HermitianStatus'
    BY <2>1, CallerUndisturbed
  <2> QED BY <1>3, <2>2, <2>3, <2>4
<1>9. CASE AliasDone(w)
  <2>1. /\ pc[w] = "alias" /\ todo[w] = {} /\ aliasFuture' = [aliasFuture EXCEPT ![w] = "value"]
        /\ pc' = [pc EXCEPT ![w] = "done"]
        /\ UNCHANGED <<todo, nonHermitian, os, alias, osFuture>>
    BY <1>9 DEF AliasDone
  <2>2. MainInv' /\ HermitianStatus'
    BY <2>1, CallerUndisturbed DEF TypeOK
  <2>3. TypeOK'
    BY <2>1 DEF TypeOK, main, Futures
  <2>4. WorkerInv(w)' /\ EvidenceInv(w)'
    BY <2>1, <1>1, <1>4, <1>5 DEF WorkerInv, EvidenceInv, Mismatch, TypeOK
  <2> QED BY <1>3, <2>2, <2>3, <2>4
<1> QED BY <1>6, <1>7, <1>8, <1>9

(* Steps of a worker at a pair of cells.                                   *)
LEMMA PairStep ==
  ASSUME Inv, NEW w \in Workers, NEW c \in Pairs, c \in todo[w], UNCHANGED <<task, main>>,
         Pair(w, c)
  PROVE  Inv'
<1> USE DEF Inv
<1>1. aliasFlag' = aliasFlag /\ osFlag' = osFlag
  BY DEF main
<1>2. c \in Stripe(w)
  BY DEF WorkerInv
<1>3. /\ Stripe(w) \subseteq Pairs
      /\ \A v \in Workers : v # w => \A d \in Stripe(v) : d \in Pairs /\ d # c
  BY <1>2, OtherStripes DEF Stripe
<1>4. CASE OsPair(w, c)
  <2>1. /\ pc[w] = "os" /\ c \notin task.osThrows
        /\ todo' = [todo EXCEPT ![w] = @ \ {c}]
        /\ UNCHANGED <<pc, alias, osFuture, aliasFuture>>
        /\ Test(w, os', c)
    BY <1>4 DEF OsPair
  <2>2. /\ os' \in [Cells -> Values \cup {Blank}]
        /\ os'[c] = task.product[c] /\ os'[Mirror(c)] = task.product[Mirror(c)]
        /\ \A d \in Pairs : d # c => os'[d] = os[d] /\ os'[Mirror(d)] = os[Mirror(d)]
    BY <1>4, OsPairFacts
  <2>3. Mismatch(os', c) <=> Mismatch(task.product, c)
    BY <2>2 DEF Mismatch
  <2>4. /\ nonHermitian' \in [Workers -> Pairs \cup {NoInfo}]
        /\ \A v \in Workers \ {w} : nonHermitian'[v] = nonHermitian[v]
        /\ nonHermitian'[w] # NoInfo => Mismatch(task.product, nonHermitian'[w])
        /\ nonHermitian'[w] = NoInfo => /\ nonHermitian[w] = NoInfo
                                       /\ ~Mismatch(task.product, c)
    BY <2>1, <2>3, TestFacts
  <2>5. TypeOK'
    <3>1. todo' \in [Workers -> SUBSET Pairs] /\ pc' = pc
      BY <2>1 DEF TypeOK
    <3> QED BY <1>1, <2>1, <2>2, <2>4, <3>1 DEF TypeOK, main
  <2>6. MainInv' /\ HermitianStatus'
    BY <2>1, CallerUndisturbed
  <2>7. ASSUME NEW v \in Workers, v # w PROVE WorkerInv(v)' /\ EvidenceInv(v)'
    BY <1>1, <1>3, <2>1, <2>2, <2>4, <2>7, Undisturbed DEF TypeOK
  <2>8. \A d \in Stripe(w) \ todo'[w] : OsFilled(d)'
    <3>1. ASSUME NEW d \in Stripe(w) \ todo'[w], d # c PROVE OsFilled(d)'
      <4>1. OsFilled(d)
        BY <2>1, <3>1 DEF WorkerInv, TypeOK
      <4> QED BY <1>3, <2>2, <3>1, <4>1 DEF OsFilled
    <3>2. OsFilled(c)'
      BY <2>1, <2>2 DEF OsFilled
    <3> QED BY <3>1, <3>2
  <2>9. WorkerInv(w)'
    BY <2>1, <2>8 DEF WorkerInv, TypeOK, Futures
  <2>10. EvidenceInv(w)'
    <3>1. \A d \in Stripe(w) \ todo'[w] : d = c \/ d \in Stripe(w) \ todo[w]
      BY <2>1 DEF TypeOK
    <3>2. osFuture'[w] # "value"
      BY <2>1 DEF WorkerInv
    <3> QED BY <2>1, <2>4, <3>1, <3>2 DEF EvidenceInv, Mismatch
  <2> QED BY <2>5, <2>6, <2>7, <2>9, <2>10
<1>5. CASE AliasPair(w, c)
  <2>1. /\ pc[w] = "alias" /\ c \notin task.aliasThrows
        /\ todo' = [todo EXCEPT ![w] = @ \ {c}]
        /\ UNCHANGED <<pc, os, osFuture, aliasFuture>>
        /\ Test(w, os, c)
    BY <1>5 DEF AliasPair
  <2>2. /\ os = task.product
        /\ alias' \in [Cells -> Values \cup {Blank}]
        /\ alias'[c] = Simplify[task.product[c]]
        /\ alias'[Mirror(c)] = Simplify[task.product[Mirror(c)]]
        /\ \A d \in Pairs : d # c => alias'[d] = alias[d] /\ alias'[Mirror(d)] = alias[Mirror(d)]
    BY <1>5, AliasPairFacts
  <2>3. Mismatch(os, c) <=> Mismatch(task.product, c)
    BY <2>2
  <2>4. /\ nonHermitian' \in [Workers -> Pairs \cup {NoInfo}]
        /\ \A v \in Workers \ {w} : nonHermitian'[v] = nonHermitian[v]
        /\ nonHermitian'[w] # NoInfo => Mismatch(task.product, nonHermitian'[w])
    BY <2>1, <2>3, TestFacts
  <2>5. TypeOK'
    <3>1. todo' \in [Workers -> SUBSET Pairs] /\ pc' = pc
      BY <2>1 DEF TypeOK
    <3> QED BY <1>1, <2>1, <2>2, <2>4, <3>1 DEF TypeOK, main
  <2>6. MainInv' /\ HermitianStatus'
    BY <2>1, CallerUndisturbed
  <2>7. ASSUME NEW v \in Workers, v # w PROVE WorkerInv(v)' /\ EvidenceInv(v)'
    BY <1>1, <1>3, <2>1, <2>2, <2>4, <2>7, Undisturbed DEF TypeOK
  <2>8. \A d \in Stripe(w) \ todo'[w] : AliasFilled(d)'
    <3>1. ASSUME NEW d \in Stripe(w) \ todo'[w], d # c PROVE AliasFilled(d)'
      <4>1. AliasFilled(d)
        BY <2>1, <3>1 DEF WorkerInv, TypeOK
      <4> QED BY <1>3, <2>2, <3>1, <4>1 DEF AliasFilled
    <3>2. AliasFilled(c)'
      BY <2>1, <2>2 DEF AliasFilled
    <3> QED BY <3>1, <3>2
  <2>9. WorkerInv(w)'
    BY <2>1, <2>8 DEF WorkerInv, TypeOK, Futures, OsFilled
  <2>10. EvidenceInv(w)'
    BY <1>1, <2>1, <2>4 DEF EvidenceInv, Mismatch, TypeOK
  <2> QED BY <2>5, <2>6, <2>7, <2>9, <2>10
<1>6. CASE OsThrow(w, c)
  <2>1. /\ pc[w] = "os" /\ c \in task.osThrows
        /\ osFuture' = [osFuture EXCEPT ![w] = "exception"]
        /\ pc' = [pc EXCEPT ![w] = "done"]
        /\ UNCHANGED <<todo, nonHermitian, os, alias, aliasFuture>>
    BY <1>6 DEF OsThrow
  <2>2. MainInv' /\ HermitianStatus' /\ (aliasFlag' => \A v \in Workers : osFuture'[v] = "value")
    BY <2>1, CallerUndisturbed DEF TypeOK, WorkerInv
  <2>3. TypeOK'
    BY <2>1, <2>2 DEF TypeOK, main, Futures
  <2>4. ASSUME NEW v \in Workers, v # w PROVE WorkerInv(v)' /\ EvidenceInv(v)'
    BY <1>1, <2>1, <2>4, Undisturbed DEF TypeOK
  <2>5. WorkerInv(w)' /\ EvidenceInv(w)'
    BY <1>1, <2>1 DEF WorkerInv, EvidenceInv, AliasFilled, TypeOK, Mismatch
  <2> QED BY <2>2, <2>3, <2>4, <2>5
<1>7. CASE AliasThrow(w, c)
  <2>1. /\ pc[w] = "alias" /\ c \in task.aliasThrows
        /\ aliasFuture' = [aliasFuture EXCEPT ![w] = "exception"]
        /\ pc' = [pc EXCEPT ![w] = "done"]
        /\ UNCHANGED <<todo, nonHermitian, os, alias, osFuture>>
    BY <1>7 DEF AliasThrow
  <2>2. MainInv' /\ HermitianStatus'
    BY <2>1, CallerUndisturbed DEF TypeOK, WorkerInv
  <2>3. TypeOK'
    BY <2>1 DEF TypeOK, main, Futures
  <2>4. ASSUME NEW v \in Workers, v # w PROVE WorkerInv(v)' /\ EvidenceInv(v)'
    BY <1>1, <2>1, <2>4, Undisturbed DEF TypeOK
  <2>5. WorkerInv(w)' /\ EvidenceInv(w)'
    BY <1>1, <2>1 DEF WorkerInv, EvidenceInv, OsFilled, TypeOK, Mismatch
  <2> QED BY <2>2, <2>3, <2>4, <2>5
<1> QED BY <1>4, <1>5, <1>6, <1>7 DEF Pair

-----------------------------------------------------------------------------
(* What the caller decides about Hermiticity when it has all futures.      *)
LEMMA StatusIsRight ==
  ASSUME Inv, mainPc = "osGather", gathered = NumWorkers,
         NEW status, status \in IF Found = {} THEN {NoInfo} ELSE Lowest
  PROVE  /\ os = task.product /\ os # NoMatrix
         /\ status \in Pairs \cup {NoInfo}
         /\ (status = NoInfo) <=> HermitianUpToSign(os)
         /\ status # NoInfo => os[status] # Conj[os[Mirror(status)]]
<1> USE DEF Inv
<1>1. \A w \in Workers : osFuture[w] = "value"
  BY GatheredAll
<1>2. ~aliasFlag
  BY DEF MainInv
<1>3. os = task.product /\ task.product \in [Cells -> Values]
  BY <1>1, OsComplete, TasksAssumption DEF TypeOK
<1>4. os # NoMatrix
  BY <1>3, ValuesAssumption
<1>5. NoInfo \notin Pairs
  BY PairFacts, BlankAssumption
<1>6. CASE Found = {}
  <2>1. \A w \in Workers : nonHermitian[w] = NoInfo
    BY <1>6 DEF Found
  <2>2. \A c \in Pairs : ~Mismatch(os, c)
    BY <1>1, <1>2, <1>3, <2>1, PairFacts DEF EvidenceInv
  <2> QED BY <1>3, <1>4, <1>6, <2>2, HermitianByPairs
<1>7. CASE Found # {}
  <2>1. status \in Found
    BY <1>7 DEF Lowest
  <2>2. PICK w \in Workers : status = nonHermitian[w] /\ status # NoInfo
    BY <2>1 DEF Found
  <2>3. status \in Pairs /\ Mismatch(os, status)
    BY <1>3, <2>2 DEF EvidenceInv, TypeOK
  <2>4. ~HermitianUpToSign(os) /\ os[status] # Conj[os[Mirror(status)]]
    BY <1>3, <2>3, HermitianByPairs
  <2> QED BY <1>3, <1>4, <2>2, <2>3, <2>4
<1> QED BY <1>6, <1>7

(* The caller's steps change nothing of the workers'.                      *)
LEMMA WorkersUndisturbed ==
  ASSUME Inv, UNCHANGED <<task, worker>>, aliasFlag => aliasFlag'
  PROVE  \A v \in Workers : WorkerInv(v)' /\ EvidenceInv(v)'
BY Undisturbed DEF worker

LEMMA MainStep ==
  ASSUME Inv, Main
  PROVE  Inv'
<1> USE DEF Inv
<1>1. UNCHANGED <<task, pc, todo, nonHermitian, os, alias, osFuture, aliasFuture>>
  BY DEF Main, worker
<1>2. aliasFlag => aliasFlag'
  BY DEF Main, OsSignal, OsGather, OsRethrow, OsCreate, AliasSignal, AliasGather, AliasRethrow,
         AliasCreate, Join, Rethrow
<1>3. \A v \in Workers : WorkerInv(v)' /\ EvidenceInv(v)'
  BY <1>1, <1>2, WorkersUndisturbed DEF worker
<1>4. NumWorkers \in Nat /\ gathered \in 0..NumWorkers
  BY WorkersAssumption, ValuesAssumption DEF TypeOK
<1>5. CASE OsSignal
  <2>1. /\ mainPc = "osBegin" /\ osFlag' = TRUE /\ mainPc' = "osGather" /\ gathered' = 0
        /\ UNCHANGED <<aliasFlag, minimumNonH, unaliased, aliased, outcome>>
    BY <1>5 DEF OsSignal
  <2>2. TypeOK' /\ HermitianStatus'
    BY <1>1, <1>4, <2>1 DEF TypeOK, HermitianStatus, HermitianUpToSign
  <2>3. MainInv'
    BY <1>1, <2>1 DEF MainInv
  <2> QED BY <1>3, <2>2, <2>3
<1>6. CASE OsGather
  <2>1. /\ mainPc = "osGather" /\ gathered < NumWorkers /\ osFuture[gathered] = "value"
        /\ gathered' = gathered + 1
        /\ UNCHANGED <<osFlag, aliasFlag, mainPc, minimumNonH, unaliased, aliased, outcome>>
    BY <1>6 DEF OsGather
  <2>2. gathered' \in 0..NumWorkers /\ 0..(gathered' - 1) = (0..(gathered - 1)) \cup {gathered}
    BY <1>4, <2>1
  <2>3. TypeOK' /\ HermitianStatus'
    BY <1>1, <2>1, <2>2 DEF TypeOK, HermitianStatus, HermitianUpToSign
  <2>4. MainInv'
    BY <1>1, <2>1, <2>2 DEF MainInv
  <2> QED BY <1>3, <2>3, <2>4
<1>7. CASE OsRethrow \/ AliasRethrow
  <2>1. /\ mainPc' = "join" /\ outcome' = "threw" /\ unaliased' = NoMatrix
        /\ UNCHANGED <<osFlag, aliasFlag, gathered, minimumNonH, aliased>>
    BY <1>7 DEF OsRethrow, AliasRethrow, Rethrow
  <2>2. TypeOK' /\ HermitianStatus'
    BY <1>1, <2>1 DEF TypeOK, HermitianStatus
  <2>3. MainInv'
    BY <1>1, <2>1 DEF MainInv
  <2> QED BY <1>3, <2>2, <2>3
<1>8. CASE OsCreate
  <2>1. /\ mainPc = "osGather" /\ gathered = NumWorkers
        /\ minimumNonH' \in IF Found = {} THEN {NoInfo} ELSE Lowest
        /\ unaliased' = os
        /\ \/ task.aliases /\ mainPc' = "aliasBegin" /\ outcome' = outcome
           \/ ~task.aliases /\ mainPc' = "join" /\ outcome' = "returned"
        /\ UNCHANGED <<osFlag, aliasFlag, gathered, aliased>>
    BY <1>8 DEF OsCreate
  <2>2. /\ os = task.product /\ os # NoMatrix
        /\ minimumNonH' \in Pairs \cup {NoInfo}
        /\ (minimumNonH' = NoInfo) <=> HermitianUpToSign(os)
        /\ minimumNonH' # NoInfo => os[minimumNonH'] # Conj[os[Mirror(minimumNonH')]]
    BY <2>1, StatusIsRight
  <2>3. HermitianStatus'
    BY <2>1, <2>2 DEF HermitianStatus, HermitianUpToSign
  <2>4. TypeOK'
    BY <1>1, <2>1, <2>2 DEF TypeOK
  <2>5. MainInv'
    BY <1>1, <2>1, <2>2, GatheredAll DEF MainInv
  <2> QED BY <1>3, <2>3, <2>4, <2>5
<1>9. CASE AliasSignal
  <2>1. /\ mainPc = "aliasBegin" /\ aliasFlag' = TRUE /\ mainPc' = "aliasGather" /\ gathered' = 0
        /\ UNCHANGED <<osFlag, minimumNonH, unaliased, aliased, outcome>>
    BY <1>9 DEF AliasSignal
  <2>2. TypeOK' /\ HermitianStatus'
    BY <1>1, <1>4, <2>1 DEF TypeOK, HermitianStatus, HermitianUpToSign, MainInv
  <2>3. MainInv'
    BY <1>1, <2>1 DEF MainInv
  <2> QED BY <1>3, <2>2, <2>3
<1>10. CASE AliasGather
  <2>1. /\ mainPc = "aliasGather" /\ gathered < NumWorkers /\ aliasFuture[gathered] = "value"
        /\ gathered' = gathered + 1
        /\ UNCHANGED <<osFlag, aliasFlag, mainPc, minimumNonH, unaliased, aliased, outcome>>
    BY <1>10 DEF AliasGather
  <2>2. gathered' \in 0..NumWorkers /\ 0..(gathered' - 1) = (0..(gathered - 1)) \cup {gathered}
    BY <1>4, <2>1
  <2>3. TypeOK' /\ HermitianStatus'
    BY <1>1, <2>1, <2>2 DEF TypeOK, HermitianStatus, HermitianUpToSign
  <2>4. MainInv'
    BY <1>1, <2>1, <2>2 DEF MainInv
  <2> QED BY <1>3, <2>3, <2>4
<1>11. CASE AliasCreate \/ Join
  <2>1. /\ \/ mainPc' = "join" /\ outcome' = "returned"
           \/ mainPc' = "ended" /\ mainPc = "join" /\ outcome' = outcome
        /\ UNCHANGED <<osFlag, aliasFlag, gathered, minimumNonH, unaliased>>
    BY <1>11 DEF AliasCreate, Join
  <2>2. TypeOK' /\ HermitianStatus'
    BY <1>1, <2>1 DEF TypeOK, HermitianStatus, HermitianUpToSign
  <2>3. MainInv'
    BY <1>1, <2>1 DEF MainInv
  <2> QED BY <1>3, <2>2, <2>3
<1> QED BY <1>5, <1>6, <1>7, <1>8, <1>9, <1>10, <1>11 DEF Main

LEMMA StutterStep == ASSUME Inv, UNCHANGED vars PROVE Inv'
<1> USE DEF Inv
<1>1. \A v \in Workers : WorkerInv(v)' /\ EvidenceInv(v)'
  BY WorkersUndisturbed DEF vars, main
<1>2. MainInv' /\ HermitianStatus'
  BY CallerUndisturbed DEF vars, worker
<1>3. TypeOK'
  BY DEF TypeOK, vars, worker, main
<1> QED BY <1>1, <1>2, <1>3

-----------------------------------------------------------------------------
(* In every reachable state, what the promises and flags say is true of    *)
(* the arrays.                                                             *)
THEOREM Invariance == Spec => []Inv
<1>1. Init => Inv
  BY InitInv
<1>2. Inv /\ [Next]_vars => Inv'
  <2> SUFFICES ASSUME Inv, [Next]_vars PROVE Inv'
    OBVIOUS
  <2>1. CASE Main
    BY <2>1, MainStep
  <2>2. ASSUME NEW w \in Workers, Worker(w) PROVE Inv'
    BY <2>2, PlainStep, PairStep DEF Worker, IsCurrent
  <2>3. CASE UNCHANGED vars
    BY <2>3, StutterStep
  <2> QED BY <2>1, <2>2, <2>3 DEF Next, Terminated
<1> QED BY <1>1, <1>2, PTL DEF Spec

(* A worker is in a phase only when its flag is up, and the second flag    *)
(* goes up when every worker has kept its first promise.                   *)
THEOREM TypeCorrect == Spec => []TypeOK
<1>1. Inv => TypeOK
  BY DEF Inv
<1> QED BY <1>1, Invariance, PTL

(* is_hermitian is right of the matrix as a whole, up to signs: if there   *)
(* is evidence against it, two cells differ, and if there is none, all     *)
(* cells have the hashes of their mirrors' conjugates.                     *)
THEOREM HermitianStatusCorrect == Spec => []HermitianStatus
<1>1. Inv => HermitianStatus
  BY DEF Inv
<1> QED BY <1>1, Invariance, PTL

(* The multi-threaded factory hands over what the single-threaded one      *)
(* makes, or the exception.                                                *)
THEOREM Implements == Spec => ImplementsSinglethreaded
<1>1. Init => Singlethreaded!Init
  BY DEF Init, Singlethreaded!Init
<1>2. Inv /\ [Next]_vars => [Singlethreaded!Next]_(Singlethreaded!vars)
  <2> SUFFICES ASSUME Inv, [Next]_vars PROVE [Singlethreaded!Next]_(Singlethreaded!vars)
    OBVIOUS
  <2> USE DEF Inv
  <2>1. ASSUME UNCHANGED <<task, unaliased, aliased, outcome>>
        PROVE  [Singlethreaded!Next]_(Singlethreaded!vars)
    BY <2>1 DEF Singlethreaded!vars
  <2>2. ASSUME NEW w \in Workers, Worker(w) PROVE UNCHANGED <<task, unaliased, aliased, outcome>>
    BY <2>2 DEF Worker, main
  <2>3. CASE OsSignal /\ UNCHANGED task
    BY <2>1, <2>3 DEF OsSignal
  <2>4. CASE (OsGather \/ AliasGather \/ AliasSignal \/ Join) /\ UNCHANGED task
    BY <2>1, <2>4 DEF OsGather, AliasGather, AliasSignal, Join
  <2>5. CASE OsCreate /\ UNCHANGED task
    <3>1. os = task.product /\ task.osThrows = {}
      BY <2>5, GatheredAll, OsComplete DEF OsCreate
    <3>2. outcome = "running" /\ unaliased = NoMatrix
      BY <2>5 DEF OsCreate, MainInv
    <3>3. /\ unaliased' = task.product /\ UNCHANGED <<task, aliased>>
          /\ outcome' = IF task.aliases THEN "running" ELSE "returned"
      BY <2>5, <3>1, <3>2 DEF OsCreate
    <3> QED BY <3>1, <3>2, <3>3 DEF Singlethreaded!Next, Singlethreaded!MakeOperatorMatrix
  <2>6. CASE AliasCreate /\ UNCHANGED task
    <3>1. alias = Simplified(task.product) /\ task.aliasThrows = {}
      BY <2>6, GatheredAll, AliasComplete DEF AliasCreate
    <3>2. outcome = "running" /\ unaliased # NoMatrix /\ unaliased = task.product
      BY <2>6 DEF AliasCreate, MainInv
    <3>3. aliased' = Simplified(unaliased) /\ outcome' = "returned" /\ UNCHANGED <<task, unaliased>>
      BY <2>6, <3>1, <3>2 DEF AliasCreate
    <3> QED BY <3>1, <3>2, <3>3
            DEF Singlethreaded!Next, Singlethreaded!MakeAliasedOperatorMatrix,
                Singlethreaded!Simplified, Simplified, Singlethreaded!Cells, Cells,
                Singlethreaded!Index, Index
  <2>7. CASE OsRethrow /\ UNCHANGED task
    <3>1. gathered \in Workers
      BY <2>7, WorkersAssumption, ValuesAssumption DEF OsRethrow, Rethrow, TypeOK, Workers
    <3>2. task.osThrows # {}
      BY <2>7, <3>1 DEF OsRethrow, Rethrow, WorkerInv
    <3>3. outcome = "running" /\ unaliased = NoMatrix
      BY <2>7 DEF OsRethrow, MainInv
    <3>4. outcome' = "threw" /\ unaliased' = NoMatrix /\ UNCHANGED <<task, aliased>>
      BY <2>7 DEF OsRethrow, Rethrow
    <3> QED BY <3>2, <3>3, <3>4 DEF Singlethreaded!Next, Singlethreaded!Throw
  <2>8. CASE AliasRethrow /\ UNCHANGED task
    <3>1. gathered \in Workers
      BY <2>8, WorkersAssumption, ValuesAssumption DEF AliasRethrow, Rethrow, TypeOK, Workers
    <3>2. task.aliasThrows # {}
      BY <2>8, <3>1 DEF AliasRethrow, Rethrow, WorkerInv
    <3>3. outcome = "running" /\ unaliased # NoMatrix
      BY <2>8 DEF AliasRethrow, MainInv
    <3>4. outcome' = "threw" /\ unaliased' = NoMatrix /\ UNCHANGED <<task, aliased>>
      BY <2>8 DEF AliasRethrow, Rethrow
    <3> QED BY <3>2, <3>3, <3>4 DEF Singlethreaded!Next, Singlethreaded!Throw
  <2>9. CASE UNCHANGED vars
    BY <2>1, <2>9 DEF vars, main
  <2> QED BY <2>1, <2>2, <2>3, <2>4, <2>5, <2>6, <2>7, <2>8, <2>9 DEF Next, Main, Terminated
<1> QED BY <1>1, <1>2, Invariance, PTL DEF Spec, ImplementsSinglethreaded, Singlethreaded!Spec
=============================================================================
