----------------------------- MODULE Threads_proofs -----------------------------
(***************************************************************************)
(* Proofs about two pieces of the program that are made of threads and     *)
(* have nothing else in common: the file logger, whose threads share a     *)
(* queue, and the factory of monomial matrices, whose workers merge their  *)
(* maps in a tree.                                                         *)
(*                                                                         *)
(* The logger, for any events and any number of reports. What is proved of *)
(* the queue for any threads is taken over, as the logger's threads use    *)
(* the queue the way its clients may.                                      *)
(***************************************************************************)
EXTENDS ToFileLogger, MonomialMatrixFactory, SequenceTheorems, FiniteSetTheorems,
        WellFoundedInduction, TLAPS


QP == INSTANCE Queue_proofs WITH Producers <- {Reporter}, Consumers <- {Writer},
                                 Aborters <- {Destroyer}, MaxLength <- MaxReports

\* The queue's invariant, for the logger's one consumer.
QueueInv ==
  /\ list \in Seq(Data)
  /\ taken \in [{Writer} -> Seq(Data)]
  /\ waiting \subseteq {Writer}
  /\ pc \in [{Reporter, Writer, Destroyer} -> QP!Labels]
  /\ Writer \in waiting => pc[Writer] = "blocked"
  /\ pc[Writer] # "idle" => taken[Writer] = <<>>

-----------------------------------------------------------------------------
(* Every step of the logger is a step of the queue or leaves it alone.     *)
LEMMA QueueStep ==
  ASSUME [Next]_vars
  PROVE  [QP!Next]_queueVars
<1> USE DEF QP!Next, QP!ConsumerCall, queueVars
<1>1. ASSUME NEW d \in Data, Report(d)
      PROVE  QP!Next
  BY <1>1 DEF Report, Q!Push, QP!Push, Q!Goto, QP!Goto
<1>2. CASE FinishReport
  BY <1>2 DEF FinishReport, Q!NotifyOne, QP!NotifyOne
<1>3. CASE Abort
  BY <1>3 DEF Abort, Q!SetAbort, QP!SetAbort, Q!Goto, QP!Goto
<1>4. CASE AbortNotify
  BY <1>4 DEF AbortNotify, Q!NotifyAll, QP!NotifyAll, Q!Threads, QP!Threads
<1>5. CASE WriterCalls
  BY <1>5 DEF WriterCalls, Q!CallWaitPop, QP!CallWaitPop, Q!Goto, QP!Goto
<1>6. CASE WriterWaits
  <2>1. Q!ConsumerStep(Writer) => QP!ConsumerStep(Writer)
    BY DEF Q!ConsumerStep, Q!LockHead, Q!TestTail, Q!TestFlag, Q!Block, Q!Recheck, Q!PopHead, Q!TryFlag,
           Q!TryTail, Q!Goto, QP!ConsumerStep, QP!LockHead, QP!TestTail, QP!TestFlag, QP!Block,
           QP!Recheck, QP!PopHead, QP!TryFlag, QP!TryTail, QP!Goto
  <2>2. Q!SpuriousWakeup(Writer) => QP!SpuriousWakeup(Writer)
    BY DEF Q!SpuriousWakeup, QP!SpuriousWakeup, Q!Goto, QP!Goto
  <2>3. QED BY <1>6, <2>1, <2>2 DEF WriterWaits
<1>7. CASE FileChanges \/ Construct \/ ClearLog \/ JoinWriter \/ WriterReturns \/ Write \/ UNCHANGED vars
  BY <1>7 DEF FileChanges, Construct, ClearLog, JoinWriter, WriterReturns, Write, vars
<1>8. QED BY <1>1, <1>2, <1>3, <1>4, <1>5, <1>6, <1>7 DEF Next

(* The logger keeps to the queue's protocol, so the queue's invariant,     *)
(* proved for any clients, holds of its queue.                             *)
THEOREM UsesTheQueue == Spec => QP!Spec
<1>1. Init => QP!Init
  BY DEF Init, Q!Init, QP!Init, Q!Threads, QP!Threads
<1>2. [Next]_vars => [QP!Next]_QP!vars
  BY QueueStep DEF queueVars, QP!vars
<1>3. QED BY <1>1, <1>2, PTL DEF Spec, QP!Spec

LEMMA QueueInvariant == Spec => []QueueInv
<1>1. QP!ThreadsAssumption
  BY LoggerAssumption DEF QP!ThreadsAssumption, QP!Threads
<1>2. QP!Spec => []QP!Inv
  BY <1>1, QP!Invariant
<1>3. QP!Inv => QueueInv
  BY DEF QP!Inv, QP!TypeOK, QP!ConsumerInv, QP!Threads, QueueInv
<1>4. QED BY <1>2, <1>3, UsesTheQueue, PTL

-----------------------------------------------------------------------------
(* The writer only leaves "waiting" through WriterReturns, so elsewhere it  *)
(* is outside the queue, and the reports are accounted for.                *)
LoggerInv ==
  /\ reported \in Seq(Data) /\ handled \in Seq(Data)
  /\ writer # "waiting" => pc[Writer] = "idle"
  /\ main = "new" => writer = "none"
  /\ EventsAccountedFor

LEMMA InitLoggerInv == Init => LoggerInv
<1> SUFFICES ASSUME Init PROVE LoggerInv
  OBVIOUS
<1>1. <<>> \in Seq(Data)
  OBVIOUS
<1>2. <<>> \o <<>> = <<>>
  BY <1>1, ConcatEmptySeq
<1>3. QED BY <1>1, <1>2 DEF Init, Q!Init, Q!Threads, LoggerInv, EventsAccountedFor, InFlight

LEMMA InFlightType == QueueInv => InFlight \in Seq(Data)
<1>1. <<>> \in Seq(Data)
  OBVIOUS
<1>2. QED BY <1>1 DEF QueueInv, InFlight

(* A reported event joins the end of what is queued.                       *)
LEMMA ReportStep ==
  ASSUME QueueInv, LoggerInv, NEW d \in Data, Report(d)
  PROVE  LoggerInv'
<1> DEFINE done == handled \o InFlight
<1>1. done \in Seq(Data) /\ reported = done \o list /\ list \in Seq(Data)
  BY InFlightType, ConcatProperties DEF QueueInv, LoggerInv, EventsAccountedFor
<1>2. <<d>> \in Seq(Data) /\ list' = list \o <<d>> /\ reported' = reported \o <<d>>
  BY <1>1, AppendIsConcat DEF Report, Q!Push, LoggerInv
<1>3. reported' = done \o list' /\ reported' \in Seq(Data)
  <2>1. (done \o list) \o <<d>> = done \o (list \o <<d>>)
    BY <1>1, <1>2, ConcatAssociative
  <2>2. (done \o list) \o <<d>> \in Seq(Data)
    BY <1>1, <1>2, ConcatProperties
  <2>3. QED BY <1>1, <1>2, <2>1, <2>2
<1>4. pc'[Writer] = pc[Writer]
  BY LoggerAssumption DEF Report, Q!Push, Q!Goto, QueueInv
<1>5. InFlight' = InFlight
  BY <1>4 DEF InFlight, Report, Q!Push
<1>6. QED BY <1>3, <1>4, <1>5 DEF LoggerInv, EventsAccountedFor, Report, Q!Push

(* What the consumer takes off the queue is in flight.                     *)
LEMMA WaitStep ==
  ASSUME QueueInv, QueueInv', LoggerInv, WriterWaits
  PROVE  LoggerInv'
<1>1. writer = "waiting" /\ writer' = "waiting" /\ main' = main /\ handled' = handled /\ reported' = reported
  BY DEF WriterWaits
<1>2. pc[Writer] # "idle" /\ InFlight = <<>> /\ InFlight' = IF pc'[Writer] = "idle" THEN taken'[Writer] ELSE <<>>
  BY <1>1 DEF WriterWaits, InFlight, QueueInv, Q!ConsumerStep, Q!LockHead, Q!TestTail, Q!TestFlag, Q!Block,
         Q!Recheck, Q!PopHead, Q!TryFlag, Q!TryTail, Q!SpuriousWakeup, Q!Goto
<1>3. InFlight' \o list' = list
  <2>1. CASE Q!PopHead(Writer) /\ list # <<>>
    <3>1. Head(list) \in Data /\ Tail(list) \in Seq(Data) /\ list \in Seq(Data)
      BY <2>1 DEF QueueInv
    <3>2. InFlight' = <<Head(list)>> /\ list' = Tail(list)
      BY <1>2, <2>1 DEF Q!PopHead, Q!Goto, QueueInv
    <3>3. <<Head(list)>> \o Tail(list) = list
      BY <3>1, <2>1
    <3>4. QED BY <3>2, <3>3
  <2>2. CASE ~(Q!PopHead(Writer) /\ list # <<>>)
    <3>1. taken'[Writer] = <<>> /\ list' = list
      BY <1>2, <2>2 DEF WriterWaits, QueueInv, Q!ConsumerStep, Q!LockHead, Q!TestTail, Q!TestFlag, Q!Block,
             Q!Recheck, Q!PopHead, Q!TryFlag, Q!TryTail, Q!SpuriousWakeup, Q!Goto
    <3>2. <<>> \o list = list
      BY ConcatEmptySeq DEF QueueInv
    <3>3. QED BY <1>2, <3>1, <3>2
  <2>3. QED BY <2>1, <2>2
<1>4. handled \o InFlight = handled /\ handled \in Seq(Data)
  BY <1>2, ConcatEmptySeq DEF LoggerInv
<1>5. InFlight' \in Seq(Data) /\ list' \in Seq(Data)
  <2>1. <<>> \in Seq(Data)
    OBVIOUS
  <2>2. QED BY <1>2, <2>1 DEF QueueInv
<1>6. (handled \o InFlight') \o list' = handled \o (InFlight' \o list')
  <2>1. \A s, t, u \in Seq(Data) : (s \o t) \o u = s \o (t \o u)
    BY ConcatAssociative
  <2>2. QED BY <1>4, <1>5, <2>1
<1>7. reported' = (handled' \o InFlight') \o list'
  BY <1>1, <1>3, <1>4, <1>6 DEF LoggerInv, EventsAccountedFor
<1>8. QED BY <1>1, <1>7 DEF LoggerInv, EventsAccountedFor

(* The writer is done with what was in flight.                             *)
LEMMA WriteStep ==
  ASSUME QueueInv, LoggerInv, Write
  PROVE  LoggerInv'
<1>1. InFlight = taken[Writer] /\ InFlight' = <<>> /\ list' = list
  BY DEF Write, InFlight, queueVars
<1>2. taken[Writer] \in Seq(Data) /\ handled \o taken[Writer] \in Seq(Data)
  BY ConcatProperties DEF QueueInv, LoggerInv
<1>3. handled' \o InFlight' = handled \o InFlight
  BY <1>1, <1>2, ConcatEmptySeq DEF Write
<1>4. QED BY <1>1, <1>2, <1>3 DEF Write, LoggerInv, EventsAccountedFor, queueVars

(* Every other step leaves the reports where they are.                     *)
LEMMA OtherSteps ==
  ASSUME QueueInv, LoggerInv,
         \/ FileChanges \/ Construct \/ FinishReport \/ ClearLog \/ Abort \/ AbortNotify
         \/ JoinWriter \/ WriterCalls \/ WriterReturns \/ UNCHANGED vars
  PROVE  LoggerInv'
<1> SUFFICES /\ InFlight' = InFlight /\ list' = list /\ handled' = handled /\ reported' = reported
             /\ writer' # "waiting" => pc'[Writer] = "idle"
             /\ main' = "new" => writer' = "none"
             /\ main' = "destroyed" => writer' = "finished"
  <2>1. writer' = "finished" => InFlight' = <<>>
    BY DEF InFlight
  <2>2. handled \o <<>> = handled
    BY ConcatEmptySeq DEF LoggerInv
  <2>3. QED BY <2>1, <2>2 DEF LoggerInv, EventsAccountedFor
<1> USE LoggerAssumption DEF LoggerInv, EventsAccountedFor, QueueInv, InFlight, queueVars
<1>1. CASE FinishReport
  BY <1>1 DEF FinishReport, Q!NotifyOne
<1>2. CASE Abort
  BY <1>2 DEF Abort, Q!SetAbort, Q!Goto
<1>3. CASE AbortNotify
  BY <1>3 DEF AbortNotify, Q!NotifyAll, Q!Threads
<1>4. CASE WriterCalls
  BY <1>4 DEF WriterCalls, Q!CallWaitPop, Q!Goto
<1>5. CASE WriterReturns
  BY <1>5 DEF WriterReturns
<1>6. CASE FileChanges \/ Construct \/ ClearLog \/ JoinWriter \/ UNCHANGED vars
  BY <1>6 DEF FileChanges, Construct, ClearLog, JoinWriter, vars
<1>7. QED BY <1>1, <1>2, <1>3, <1>4, <1>5, <1>6

(* No event is lost, duplicated or reordered between report_event and the  *)
(* writer, whatever the queue, the abort and the destructor do; and the    *)
(* destructor returns only when the writer thread is finished.             *)
THEOREM EventsAreAccountedFor == Spec => []EventsAccountedFor
<1>1. QueueInv /\ QueueInv' /\ LoggerInv /\ [Next]_vars => LoggerInv'
  BY ReportStep, WaitStep, WriteStep, OtherSteps DEF Next
<1>2. LoggerInv => EventsAccountedFor
  BY DEF LoggerInv
<1>3. QED BY InitLoggerInv, QueueInvariant, <1>1, <1>2, PTL DEF Spec

-----------------------------------------------------------------------------
(***************************************************************************)
(* The factory of monomial matrices, for any number of workers, any words  *)
(* and whatever each worker finds in its columns. First, powers of two.    *)
(***************************************************************************)
(* A set of natural numbers that has a member has a least one. *)
LEMMA LeastOne ==
  ASSUME NEW S \in SUBSET Nat, S # {}
  PROVE  \E m \in S : \A n \in S : m <= n
<1>1. PICK m \in S : \A n \in S : ~(<<n, m>> \in OpToRel(<, Nat))
  BY WFMin, NatLessThanWellFounded
<1>2. ASSUME NEW n \in S PROVE m <= n
  <2>1. m \in Nat /\ n \in Nat
    OBVIOUS
  <2>2. n < m => <<n, m>> \in OpToRel(<, Nat)
    BY <2>1 DEF OpToRel
  <2>3. ~(n < m)
    BY <1>1, <2>2
  <2> QED BY <2>1, <2>3
<1> QED BY <1>2

(* A set with n members has 2^n subsets: half of them have one of its      *)
(* members, the other half have not.                                       *)
LEMMA TwiceThePower ==
  ASSUME NEW k \in Nat
  PROVE  2^k \in Nat /\ 2^(k + 1) = 2 * 2^k
<1> DEFINE S == 1..k
           T == 1..(k + 1)
           With == {A \cup {k + 1} : A \in SUBSET S}
<1>1. IsFiniteSet(S) /\ Cardinality(S) = k /\ IsFiniteSet(T) /\ Cardinality(T) = k + 1
  BY FS_Interval
<1>2. IsFiniteSet(SUBSET S) /\ Cardinality(SUBSET S) = 2^k /\ Cardinality(SUBSET T) = 2^(k + 1)
  BY <1>1, FS_SUBSET
<1>3. SUBSET T = (SUBSET S) \cup With /\ (SUBSET S) \cap With = {}
  <2>1. T = S \cup {k + 1} /\ k + 1 \notin S
    OBVIOUS
  <2>2. ASSUME NEW A \in SUBSET T, A \notin SUBSET S PROVE A \in With
    <3>1. k + 1 \in A /\ A \ {k + 1} \in SUBSET S
      BY <2>1, <2>2
    <3>2. A = (A \ {k + 1}) \cup {k + 1}
      BY <3>1
    <3> QED BY <3>1, <3>2
  <2>3. \A A \in With : A \in SUBSET T /\ k + 1 \in A
    BY <2>1
  <2>4. SUBSET S \subseteq SUBSET T
    BY <2>1
  <2> HIDE DEF S, T, With
  <2> QED BY <2>1, <2>2, <2>3, <2>4
<1>4. IsFiniteSet(With) /\ Cardinality(With) = Cardinality(SUBSET S)
  <2> DEFINE f == [A \in SUBSET S |-> A \cup {k + 1}]
  <2>1. f \in Bijection(SUBSET S, With)
    <3>1. \A A, B \in SUBSET S : A \cup {k + 1} = B \cup {k + 1} => A = B
      <4>1. k + 1 \notin S
        OBVIOUS
      <4> QED BY <4>1
    <3>2. f \in [SUBSET S -> With]
      OBVIOUS
    <3>3. IsInjective(f)
      BY <3>1 DEF IsInjective
    <3>4. \A B \in With : \E A \in SUBSET S : f[A] = B
      OBVIOUS
    <3> HIDE DEF f, With
    <3> QED BY <3>2, <3>3, <3>4 DEF Bijection, Injection, Surjection
  <2> QED BY <2>1, <1>2, FS_Bijection DEF ExistsBijection
<1>5. Cardinality(SUBSET T) = 2^k + 2^k
  <2>1. Cardinality((SUBSET S) \cap With) = 0
    BY <1>3, FS_EmptySet
  <2>2. Cardinality(SUBSET S) \in Nat
    BY <1>2, FS_CardinalityType
  <2>3. Cardinality(With) = 2^k /\ 2^k \in Nat
    BY <1>2, <1>4, <2>2
  <2>4. Cardinality((SUBSET S) \cup With) = Cardinality(SUBSET S) + Cardinality(With) - Cardinality((SUBSET S) \cap With)
    BY <1>2, <1>4, FS_Union
  <2> HIDE DEF S, T, With
  <2>5. Cardinality(SUBSET T) = Cardinality(SUBSET S) + Cardinality(With) - Cardinality((SUBSET S) \cap With)
    BY <1>3, <2>4
  <2>6. Cardinality(SUBSET T) = 2^k + 2^k - 0
    BY <1>2, <2>1, <2>3, <2>5
  <2> QED BY <2>3, <2>6
<1>6. 2^k \in Nat
  BY <1>2, FS_CardinalityType
<1> QED BY <1>2, <1>5, <1>6

LEMMA PowerRises ==
  ASSUME NEW j \in Nat, NEW k \in Nat
  PROVE  /\ 2^k \in Nat /\ k < 2^k
         /\ 2^j < 2^k <=> j < k
<1>1. 2^0 = 1
  OBVIOUS
<1>2. \A n \in Nat : n < 2^n
  <2> DEFINE Bad == {n \in Nat : ~(n < 2^n)}
  <2>1. SUFFICES ASSUME Bad # {} PROVE FALSE
    OBVIOUS
  <2>2. PICK m \in Bad : \A n \in Bad : m <= n
    BY <2>1, LeastOne
  <2>3. m # 0
    <3>1. ~(m < 2^m) /\ 0 < 2^0
      BY <1>1
    <3> QED BY <3>1
  <2>4. m - 1 \in Nat /\ m - 1 \notin Bad
    BY <2>2, <2>3
  <2>5. 2^(m - 1) \in Nat /\ 2^((m - 1) + 1) = 2 * 2^(m - 1)
    BY <2>4, TwiceThePower
  <2>6. (m - 1) + 1 = m
    OBVIOUS
  <2>7. m - 1 < 2^(m - 1)
    BY <2>4
  <2>8. 2^m = 2 * 2^(m - 1)
    BY <2>5, <2>6
  <2> HIDE DEF Bad
  <2>9. m \in Nat /\ ~(m < 2^m)
    BY DEF Bad
  <2> QED BY <2>4, <2>5, <2>7, <2>8, <2>9
<1>3. \A a, b \in Nat : a < b => 2^a < 2^b
  <2> SUFFICES ASSUME NEW a \in Nat, NEW b \in Nat, a < b PROVE 2^a < 2^b
    OBVIOUS
  <2> DEFINE Bad == {n \in Nat : a < n /\ ~(2^a < 2^n)}
  <2>1. SUFFICES ASSUME Bad # {} PROVE FALSE
    OBVIOUS
  <2>2. PICK m \in Bad : \A n \in Bad : m <= n
    BY <2>1, LeastOne
  <2>3. m - 1 \in Nat /\ m - 1 \notin Bad /\ a <= m - 1
    BY <2>2
  <2>4. 2^(m - 1) \in Nat /\ 2^((m - 1) + 1) = 2 * 2^(m - 1) /\ 2^a \in Nat /\ a < 2^a /\ m - 1 < 2^(m - 1)
    BY <2>3, TwiceThePower, <1>2
  <2>5. (m - 1) + 1 = m
    OBVIOUS
  <2>6. 2^m = 2 * 2^(m - 1)
    BY <2>4, <2>5
  <2>7. 2^a <= 2^(m - 1)
    BY <2>3, <2>4
  <2> HIDE DEF Bad
  <2>8. ~(2^a < 2^m)
    BY DEF Bad
  <2> QED BY <2>3, <2>4, <2>6, <2>7, <2>8
<1>4. 2^j \in Nat /\ 2^k \in Nat
  BY TwiceThePower
<1> QED BY <1>2, <1>3, <1>4

(* The power of two next below a number, and its place among the powers.   *)
LEMMA BitFacts ==
  ASSUME NEW n \in Nat \ {0}
  PROVE  \E p \in 0..n : /\ BitFloor(n) = 2^p
                         /\ BitWidth(2^p) = p + 1
                         /\ 2^p <= n /\ n < 2^(p + 1)
<1> DEFINE Above == {j \in Nat : n < 2^j}
<1>1. \A j \in Nat : 2^j \in Nat /\ j < 2^j /\ 2^(j + 1) = 2 * 2^j
  BY PowerRises, TwiceThePower
<1>2. n \in Above
  BY <1>1
<1>3. PICK m \in Above : \A j \in Above : m <= j
  BY <1>2, LeastOne
<1>4. m # 0
  <2>1. n < 2^m /\ 1 <= n
    OBVIOUS
  <2>2. 2^0 = 1
    OBVIOUS
  <2>3. ~(n < 2^0)
    BY <2>1, <2>2
  <2> QED BY <2>1, <2>3
<1> DEFINE p == m - 1
<1>5. p \in Nat /\ p + 1 = m /\ 2^p <= n /\ n < 2^(p + 1)
  <2>1. p \in Nat /\ p \notin Above /\ p + 1 = m
    BY <1>3, <1>4
  <2>2. n < 2^m
    OBVIOUS
  <2> QED BY <2>1, <2>2, <1>1
<1> HIDE DEF p, Above
<1>6. p \in 0..n
  BY <1>1, <1>5
<1>7. BitFloor(n) = 2^p
  <2> DEFINE S == {2^k : k \in {j \in 0..n : 2^j <= n}}
  <2>1. 2^p \in S
    BY <1>5, <1>6
  <2>2. ASSUME NEW x \in S PROVE x \in Nat /\ x <= 2^p
    <3>1. PICK k \in 0..n : x = 2^k /\ 2^k <= n
      OBVIOUS
    <3>2. 2^k < 2^(p + 1)
      BY <3>1, <1>5, <1>1
    <3>3. k < p + 1
      BY <3>2, <1>5, PowerRises
    <3>4. k = p \/ k < p
      BY <3>3, <1>5
    <3>5. 2^k = 2^p \/ 2^k < 2^p
      BY <3>4, <1>5, PowerRises
    <3> QED BY <3>1, <3>5, <1>1, <1>5
  <2>3. 2^p \in Nat
    BY <1>1, <1>5
  <2> HIDE DEF S
  <2>4. \A x \in S : (\A y \in S : x >= y) => x = 2^p
    BY <2>1, <2>2, <2>3
  <2>5. \A y \in S : 2^p >= y
    BY <2>2, <2>3
  <2>6. Max(S) = 2^p
    BY <2>1, <2>4, <2>5 DEF Max
  <2> QED BY <2>6 DEF BitFloor, S
<1>8. BitWidth(2^p) = p + 1
  <2> DEFINE S == {k \in 1..2^p : 2^k > 2^p}
  <2>1. 2^p \in Nat /\ p < 2^p
    BY <1>1, <1>5
  <2>2. \A k \in Nat : 2^k > 2^p <=> k > p
    BY <1>1, <1>5, PowerRises
  <2>3. S = {k \in 1..2^p : k > p}
    BY <2>1, <2>2
  <2>4. p + 1 \in S /\ \A k \in S : p + 1 <= k /\ k \in Nat
    BY <2>1, <2>3, <1>5
  <2> HIDE DEF S
  <2>5. Min(S) = p + 1
    <3>1. \A x \in S : (\A y \in S : x =< y) => x = p + 1
      BY <2>4, <1>5
    <3> QED BY <2>4, <3>1 DEF Min
  <2>6. 2^p # 0
    BY <2>1, <1>5
  <2> QED BY <2>5, <2>6 DEF BitWidth, S
<1> QED BY <1>5, <1>6, <1>7, <1>8

-----------------------------------------------------------------------------
(* The levels of the merge. The worker that takes over the map of another. *)
Parent(v) == v - 2^(FinalMergeLevel(v) - 1)

LEMMA FinalLevelFacts ==
  ASSUME NEW v \in Nat
  PROVE  LET final == FinalMergeLevel(v)
         IN  /\ final \in Nat /\ final <= v
             /\ v < 2^final
             /\ v = 0 => final = 0
             /\ v # 0 => final # 0 /\ 2^(final - 1) <= v
             /\ \A l \in Nat \ {0} : 2^(l - 1) <= v /\ v < 2^l => final = l
<1>1. 2^0 = 1
  OBVIOUS
<1>2. CASE v = 0
  <2>1. FinalMergeLevel(v) = 0
    BY <1>2 DEF FinalMergeLevel
  <2>2. ASSUME NEW l \in Nat \ {0} PROVE ~(2^(l - 1) <= v)
    <3>1. l - 1 \in Nat
      OBVIOUS
    <3> QED BY <1>2, <3>1, PowerRises
  <2> QED BY <1>1, <1>2, <2>1, <2>2
<1>3. CASE v # 0
  <2>1. PICK p \in 0..v : /\ BitFloor(v) = 2^p /\ BitWidth(2^p) = p + 1
                          /\ 2^p <= v /\ v < 2^(p + 1)
    BY <1>3, BitFacts
  <2>2. FinalMergeLevel(v) = p + 1 /\ (p + 1) - 1 = p /\ p \in Nat
    BY <1>3, <2>1 DEF FinalMergeLevel
  <2>3. ASSUME NEW l \in Nat \ {0}, 2^(l - 1) <= v, v < 2^l PROVE p + 1 = l
    <3>1. l - 1 \in Nat /\ l \in Nat /\ p + 1 \in Nat
      BY <2>2
    <3>2. 2^(l - 1) \in Nat /\ 2^l \in Nat /\ 2^p \in Nat /\ 2^(p + 1) \in Nat
      BY <2>2, <3>1, PowerRises
    <3>3. 2^(l - 1) < 2^(p + 1) /\ 2^p < 2^l
      BY <2>1, <2>3, <3>2
    <3>4. l - 1 < p + 1 /\ p < l
      BY <2>2, <3>1, <3>3, PowerRises
    <3> QED BY <2>2, <3>1, <3>4
  <2>4. p < 2^p /\ 2^p \in Nat
    BY <2>2, PowerRises
  <2>5. p + 1 <= v
    BY <2>1, <2>2, <2>4
  <2> QED BY <1>3, <2>1, <2>2, <2>3, <2>5
<1> QED BY <1>2, <1>3

(* Of n workers, one begins no lower than it ends, and that in between it  *)
(* merges are workers that there are; the worker that takes over another's *)
(* map begins high enough for it.                                          *)
LEMMA FirstLevelFacts ==
  ASSUME NEW n \in Nat \ {0}, NEW w \in 0..(n - 1)
  PROVE  LET first == FirstMergeLevel(w, n)
         IN  /\ first \in Nat /\ FinalMergeLevel(w) <= first /\ first <= n
             /\ \A l \in Nat : FinalMergeLevel(w) < l /\ l <= first => Partner(w, l) < n
<1> DEFINE final == FinalMergeLevel(w)
           first == FirstMergeLevel(w, n)
<1>1. PICK p \in 0..n : /\ BitFloor(n) = 2^p /\ BitWidth(2^p) = p + 1
                        /\ 2^p <= n /\ n < 2^(p + 1)
  BY BitFacts
<1>2. /\ 2^p \in Nat /\ p < 2^p /\ 2^(p + 1) \in Nat /\ p \in Nat /\ p + 1 \in Nat
      /\ 2^(p + 1) = 2 * 2^p
  BY <1>1, PowerRises, TwiceThePower
<1>3. first = IF 2^p # n /\ (w >= 2^p \/ w + 2^p < n) THEN p + 1 ELSE p
  BY <1>1, <1>2 DEF FirstMergeLevel
<1>4. /\ final \in Nat /\ w < 2^final
      /\ w # 0 => final # 0 /\ 2^(final - 1) <= w
      /\ w = 0 => final = 0
  BY FinalLevelFacts
<1>5. final <= p + 1 /\ (final = p + 1 => w >= 2^p)
  <2>1. CASE w = 0
    BY <1>2, <1>4, <2>1
  <2>2. CASE w # 0
    <3>1. final - 1 \in Nat /\ 2^(final - 1) \in Nat
      BY <1>4, <2>2, PowerRises
    <3>2. 2^(final - 1) < 2^(p + 1)
      BY <1>1, <1>2, <1>4, <2>2, <3>1
    <3>3. final - 1 < p + 1
      BY <1>2, <3>1, <3>2, PowerRises
    <3>4. final = p + 1 => final - 1 = p
      BY <1>2, <1>4
    <3> QED BY <1>2, <1>4, <2>2, <3>1, <3>3, <3>4
  <2> QED BY <2>1, <2>2
<1> HIDE DEF final, first
<1>6. first \in Nat /\ first <= n
  BY <1>1, <1>2, <1>3
<1>7. final <= first
  <2>1. CASE final = p + 1
    BY <1>1, <1>2, <1>3, <1>5, <2>1
  <2>2. CASE final <= p
    BY <1>2, <1>3, <1>4, <2>2
  <2> QED BY <1>2, <1>4, <1>5, <2>1, <2>2
<1>8. ASSUME NEW l \in Nat, final < l, l <= first
      PROVE  Partner(w, l) < n
  <2>1. l - 1 \in Nat /\ 2^(l - 1) \in Nat /\ 2^final \in Nat
    BY <1>4, <1>8, PowerRises
  <2>2. final <= l - 1
    BY <1>4, <1>8
  <2>3. 2^final <= 2^(l - 1)
    <3>1. final = l - 1 \/ final < l - 1
      BY <1>4, <2>1, <2>2
    <3> QED BY <1>4, <2>1, <3>1, PowerRises
  <2>4. w < 2^(l - 1)
    BY <1>4, <2>1, <2>3
  <2>5. CASE l <= p
    <3>1. 2^(l - 1) < 2^p
      BY <1>2, <2>1, <2>5, PowerRises
    <3>2. (l - 1) + 1 = l /\ 2^l = 2 * 2^(l - 1) /\ 2^l \in Nat
      BY <2>1, TwiceThePower, PowerRises
    <3>3. l = p \/ l < p
      BY <1>2, <2>5
    <3>4. 2^l <= 2^p
      BY <1>2, <3>2, <3>3, PowerRises
    <3> QED BY <1>1, <1>2, <2>1, <2>4, <3>2, <3>4 DEF Partner
  <2>6. CASE l = p + 1
    <3>1. l - 1 = p
      BY <1>2, <2>6
    <3>2. first = p + 1
      BY <1>2, <1>3, <1>8, <2>6
    <3>3. w >= 2^p \/ w + 2^p < n
      BY <1>2, <1>3, <3>2
    <3>4. w < 2^p
      BY <2>4, <3>1
    <3> QED BY <1>2, <3>1, <3>3, <3>4 DEF Partner
  <2>7. l <= p \/ l = p + 1
    BY <1>2, <1>3, <1>8
  <2> QED BY <2>5, <2>6, <2>7
<1> QED BY <1>6, <1>7, <1>8 DEF final, first

(* A worker's map is taken over by one other, at the level at which it     *)
(* ends, and that one comes past this level.                               *)
LEMMA PartnerFacts ==
  ASSUME NEW w \in Nat, NEW l \in Nat, FinalMergeLevel(w) < l
  PROVE  /\ Partner(w, l) \in Nat \ {0} /\ Partner(w, l) # w
         /\ FinalMergeLevel(Partner(w, l)) = l
         /\ Parent(Partner(w, l)) = w
<1> DEFINE final == FinalMergeLevel(w)
<1>1. final \in Nat /\ w < 2^final
  BY FinalLevelFacts
<1>2. l \in Nat \ {0} /\ l - 1 \in Nat /\ 2^(l - 1) \in Nat /\ 2^final \in Nat /\ 2^l = 2 * 2^(l - 1)
  <2>1. l - 1 \in Nat /\ (l - 1) + 1 = l
    BY <1>1
  <2> QED BY <1>1, <2>1, TwiceThePower
<1> HIDE DEF final
<1>3. 2^final <= 2^(l - 1) /\ l - 1 < 2^(l - 1)
  <2>1. final = l - 1 \/ final < l - 1
    BY <1>1, <1>2 DEF final
  <2> QED BY <1>1, <1>2, <2>1, PowerRises
<1>4. w < 2^(l - 1) /\ 2^(l - 1) # 0
  BY <1>1, <1>2, <1>3
<1>5. Partner(w, l) = w + 2^(l - 1)
  BY DEF Partner
<1>6. Partner(w, l) \in Nat \ {0} /\ Partner(w, l) # w /\ 2^(l - 1) <= Partner(w, l) /\ Partner(w, l) < 2^l
  BY <1>2, <1>4, <1>5
<1>7. FinalMergeLevel(Partner(w, l)) = l
  BY <1>2, <1>6, FinalLevelFacts
<1>8. Parent(Partner(w, l)) = w
  BY <1>2, <1>5, <1>7 DEF Parent
<1> QED BY <1>6, <1>7, <1>8

LEMMA ParentFacts ==
  ASSUME NEW n \in Nat \ {0}, NEW v \in 1..(n - 1)
  PROVE  /\ Parent(v) \in 0..(n - 1) /\ Parent(v) # v
         /\ Partner(Parent(v), FinalMergeLevel(v)) = v
         /\ FinalMergeLevel(Parent(v)) < FinalMergeLevel(v)
         /\ FinalMergeLevel(v) <= FirstMergeLevel(Parent(v), n)
<1> DEFINE final == FinalMergeLevel(v)
           u == Parent(v)
<1>1. v \in Nat /\ final \in Nat \ {0} /\ 2^(final - 1) <= v /\ v < 2^final
  BY FinalLevelFacts
<1>2. /\ final - 1 \in Nat /\ 2^(final - 1) \in Nat /\ final - 1 < 2^(final - 1)
      /\ 2^final = 2 * 2^(final - 1) /\ 2^final \in Nat
  <2>1. final - 1 \in Nat /\ (final - 1) + 1 = final
    BY <1>1
  <2> QED BY <1>1, <2>1, TwiceThePower, PowerRises
<1> HIDE DEF final
<1>3. u = v - 2^(final - 1)
  BY DEF Parent, final
<1> HIDE DEF u
<1>4. u \in 0..(n - 1) /\ u # v /\ u < 2^(final - 1) /\ u \in Nat
  BY <1>1, <1>2, <1>3
<1>5. FinalMergeLevel(u) < final
  <2> DEFINE below == FinalMergeLevel(u)
  <2>1. below \in Nat /\ (u # 0 => below # 0 /\ 2^(below - 1) <= u) /\ (u = 0 => below = 0)
    BY <1>4, FinalLevelFacts
  <2> SUFFICES below < final
    OBVIOUS
  <2> HIDE DEF below
  <2>2. CASE u = 0
    BY <1>1, <2>1, <2>2
  <2>3. CASE u # 0
    <3>1. below - 1 \in Nat /\ 2^(below - 1) \in Nat
      BY <2>1, <2>3, PowerRises
    <3>2. 2^(below - 1) < 2^(final - 1)
      BY <1>2, <1>4, <2>1, <2>3, <3>1
    <3>3. below - 1 < final - 1
      BY <1>2, <3>1, <3>2, PowerRises
    <3> QED BY <1>1, <2>1, <3>3
  <2> QED BY <2>2, <2>3
<1>6. final <= FirstMergeLevel(u, n)
  <2>1. PICK p \in 0..n : /\ BitFloor(n) = 2^p /\ BitWidth(2^p) = p + 1
                          /\ 2^p <= n /\ n < 2^(p + 1)
    BY BitFacts
  <2>2. 2^p \in Nat /\ 2^(p + 1) \in Nat /\ p \in Nat /\ p + 1 \in Nat
    BY <2>1, PowerRises
  <2>3. FirstMergeLevel(u, n) = IF 2^p # n /\ (u >= 2^p \/ u + 2^p < n) THEN p + 1 ELSE p
    BY <2>1, <2>2 DEF FirstMergeLevel
  <2>4. 2^(final - 1) < 2^(p + 1)
    BY <1>1, <1>2, <2>1, <2>2
  <2>5. final - 1 < p + 1
    BY <1>2, <2>2, <2>4, PowerRises
  <2>6. CASE final = p + 1
    <3>1. final - 1 = p
      BY <2>2, <2>6
    <3>2. v = u + 2^p /\ 2^p <= v
      BY <1>1, <1>2, <1>3, <3>1
    <3>3. 2^p # n /\ u + 2^p < n
      BY <2>2, <3>2
    <3> QED BY <2>2, <2>3, <2>6, <3>3
  <2>7. CASE final <= p
    BY <1>1, <2>2, <2>3, <2>7
  <2> QED BY <1>1, <2>2, <2>5, <2>6, <2>7
<1>7. Partner(u, final) = v
  BY <1>1, <1>2, <1>3 DEF Partner
<1> QED BY <1>4, <1>5, <1>6, <1>7 DEF final, u

-----------------------------------------------------------------------------
(* The state of the workers. The invariants below are stated for all       *)
(* workers in the order in which one needs the other: a worker's level     *)
(* tells which maps were merged; no worker has gone past the level at      *)
(* which it takes over the map of one that still merges into it; so a map  *)
(* that holds symbols is worker 0's or is still to be taken over.          *)
WorkerStates == {"started", "identifying", "merging", "linearMerge", "identified", "done"}
Searching(w) == worker[w] \in {"started", "identifying"}
Number       == Cardinality(Workers)

MergeType ==
  /\ Number \in Nat /\ Number <= MaxWorkers /\ Workers = 0..(Number - 1)
  /\ worker \in [Workers -> WorkerStates]
  /\ merge_level \in [Workers -> Nat]
  /\ unique = [w \in Workers |-> unique[w]]
  /\ phase \in {"none", "identify", "register", "generate"}
  /\ phase # "none" => Number # 0
  /\ phase = "register" => \A w \in Workers : worker[w] = "identified"
  /\ phase = "generate" => \A w \in Workers : worker[w] \in {"identified", "done"}

LevelInv(w) ==
  /\ Searching(w) => merge_level[w] = NotIdentified /\ DOMAIN unique[w] = {}
  /\ ~Searching(w) => FinalMergeLevel(w) <= merge_level[w] /\ merge_level[w] <= FirstMergeLevel(w, Number)
  /\ worker[w] \in {"identified", "done"} => merge_level[w] = FinalMergeLevel(w)
  /\ worker[w] = "linearMerge" => /\ FinalMergeLevel(w) < merge_level[w]
                                  /\ merge_level[Partner(w, merge_level[w])] <= merge_level[w]

\* The map of v is still to be taken over.
ToBeMerged(v) == v = 0 \/ FinalMergeLevel(v) <= merge_level[Parent(v)]

ParentInv(v) == merge_level[v] > FinalMergeLevel(v) => ToBeMerged(v)

\* What one has identified is in such a map, and a map has nothing else.
Held(hash) == \E v \in Workers : hash \in DOMAIN unique[v] /\ ToBeMerged(v)

FoundInv(w) ==
  /\ ~Searching(w) => \A hash \in DOMAIN Identified(w) : Held(hash)
  /\ \A hash \in DOMAIN unique[w] :
       \E v \in Workers : hash \in DOMAIN Identified(v) /\ unique[w][hash] = Identified(v)[hash]

MergeInv ==
  /\ MergeType
  /\ \A w \in Workers : LevelInv(w) /\ ParentInv(w) /\ FoundInv(w)

-----------------------------------------------------------------------------
(* What the levels mean for n workers, and for the workers that there are. *)
LEMMA TreeOf ==
  ASSUME NEW n \in Nat, n <= MaxWorkers
  PROVE  /\ \A w \in 0..(n - 1) :
              /\ w \in Nat /\ n \in Nat \ {0}
              /\ FinalMergeLevel(w) \in Nat /\ FirstMergeLevel(w, n) \in Nat
              /\ FinalMergeLevel(w) <= FirstMergeLevel(w, n)
              /\ FirstMergeLevel(w, n) < NotIdentified
              /\ w # 0 => /\ Parent(w) \in 0..(n - 1) /\ Parent(w) # w
                          /\ Partner(Parent(w), FinalMergeLevel(w)) = w
                          /\ FinalMergeLevel(Parent(w)) < FinalMergeLevel(w)
                          /\ FinalMergeLevel(w) <= FirstMergeLevel(Parent(w), n)
         /\ \A w \in 0..(n - 1) : \A l \in Nat :
              FinalMergeLevel(w) < l /\ l <= FirstMergeLevel(w, n) =>
                /\ Partner(w, l) \in 0..(n - 1) /\ Partner(w, l) # w /\ Partner(w, l) # 0
                /\ FinalMergeLevel(Partner(w, l)) = l /\ Parent(Partner(w, l)) = w
<1>1. ASSUME NEW w \in 0..(n - 1)
      PROVE  /\ w \in Nat /\ n \in Nat \ {0} /\ w \in 0..(n - 1)
             /\ w # 0 => w \in 1..(n - 1)
  OBVIOUS
<1>2. ASSUME NEW w \in 0..(n - 1)
      PROVE  /\ FinalMergeLevel(w) \in Nat /\ FirstMergeLevel(w, n) \in Nat
             /\ FinalMergeLevel(w) <= FirstMergeLevel(w, n)
             /\ FirstMergeLevel(w, n) < NotIdentified
  <2>1. FirstMergeLevel(w, n) <= n /\ FirstMergeLevel(w, n) \in Nat
    BY <1>1, FirstLevelFacts
  <2>2. NotIdentified = MaxWorkers + 1
    BY DEF NotIdentified
  <2>3. FirstMergeLevel(w, n) < NotIdentified
    BY <2>1, <2>2, MaxWorkersAssumption
  <2> QED BY <1>1, <2>1, <2>3, FirstLevelFacts, FinalLevelFacts
<1>3. ASSUME NEW w \in 0..(n - 1), w # 0
      PROVE  /\ Parent(w) \in 0..(n - 1) /\ Parent(w) # w
             /\ Partner(Parent(w), FinalMergeLevel(w)) = w
             /\ FinalMergeLevel(Parent(w)) < FinalMergeLevel(w)
             /\ FinalMergeLevel(w) <= FirstMergeLevel(Parent(w), n)
  BY <1>1, <1>3, ParentFacts
<1>4. ASSUME NEW w \in 0..(n - 1), NEW l \in Nat,
             FinalMergeLevel(w) < l, l <= FirstMergeLevel(w, n)
      PROVE  /\ Partner(w, l) \in 0..(n - 1) /\ Partner(w, l) # w /\ Partner(w, l) # 0
             /\ FinalMergeLevel(Partner(w, l)) = l /\ Parent(Partner(w, l)) = w
  <2>1. /\ Partner(w, l) \in Nat \ {0} /\ Partner(w, l) # w
        /\ FinalMergeLevel(Partner(w, l)) = l /\ Parent(Partner(w, l)) = w
    BY <1>1, <1>4, PartnerFacts
  <2>2. Partner(w, l) < n
    BY <1>1, <1>4, FirstLevelFacts
  <2> QED BY <1>1, <2>1, <2>2
<1> QED BY <1>1, <1>2, <1>3, <1>4

LEMMA TreeFacts ==
  ASSUME MergeType
  PROVE  /\ \A w \in Workers :
              /\ w \in Nat /\ Number \in Nat \ {0}
              /\ FinalMergeLevel(w) \in Nat /\ FirstMergeLevel(w, Number) \in Nat
              /\ FinalMergeLevel(w) <= FirstMergeLevel(w, Number)
              /\ FirstMergeLevel(w, Number) < NotIdentified
              /\ w # 0 => /\ Parent(w) \in Workers /\ Parent(w) # w
                          /\ Partner(Parent(w), FinalMergeLevel(w)) = w
                          /\ FinalMergeLevel(Parent(w)) < FinalMergeLevel(w)
                          /\ FinalMergeLevel(w) <= FirstMergeLevel(Parent(w), Number)
         /\ \A w \in Workers : \A l \in Nat :
              FinalMergeLevel(w) < l /\ l <= FirstMergeLevel(w, Number) =>
                /\ Partner(w, l) \in Workers /\ Partner(w, l) # w /\ Partner(w, l) # 0
                /\ FinalMergeLevel(Partner(w, l)) = l /\ Parent(Partner(w, l)) = w
<1>1. Number \in Nat /\ Number <= MaxWorkers /\ Workers = 0..(Number - 1)
  BY DEF MergeType
<1> QED BY <1>1, TreeOf

LEMMA MergeInvImpliesMapsUsedAlone == MergeInv => MapsUsedAlone
<1> SUFFICES ASSUME MergeInv PROVE MapsUsedAlone
  OBVIOUS
<1>1. MergeType /\ \A w \in Workers : LevelInv(w)
  BY DEF MergeInv
<1>2. ASSUME NEW w \in Workers, worker[w] = "linearMerge"
      PROVE  LET v == Partner(w, merge_level[w])
             IN  /\ v \in Workers /\ v # w /\ Parent(v) = w
                 /\ worker[v] # "linearMerge" /\ worker[v] # "identifying"
                 /\ MapsUsedBy(w) = {w, v}
  <2> DEFINE v == Partner(w, merge_level[w])
  <2>1. /\ FinalMergeLevel(w) < merge_level[w] /\ merge_level[w] <= FirstMergeLevel(w, Number)
        /\ merge_level[v] <= merge_level[w] /\ merge_level[w] \in Nat
    BY <1>1, <1>2 DEF LevelInv, Searching, MergeType
  <2>2. v \in Workers /\ v # w /\ FinalMergeLevel(v) = merge_level[w] /\ Parent(v) = w
    BY <1>1, <2>1, TreeFacts
  <2>3. FirstMergeLevel(w, Number) < NotIdentified /\ FirstMergeLevel(w, Number) \in Nat /\ NotIdentified \in Nat
    BY <1>1, TreeFacts, MaxWorkersAssumption DEF NotIdentified
  <2>4. LevelInv(v) /\ merge_level[v] \in Nat
    BY <1>1, <2>2 DEF MergeType
  <2> HIDE DEF v
  <2>5. worker[v] # "linearMerge"
    BY <2>1, <2>2, <2>4 DEF LevelInv
  <2>6. worker[v] # "identifying"
    BY <2>1, <2>3, <2>4 DEF LevelInv, Searching
  <2>7. MapsUsedBy(w) = {w, v}
    BY <1>2 DEF MapsUsedBy, v
  <2> QED BY <2>2, <2>5, <2>6, <2>7 DEF v
<1>3. ASSUME NEW w \in Workers, worker[w] # "linearMerge"
      PROVE  MapsUsedBy(w) = IF worker[w] = "identifying" THEN {w} ELSE {}
  BY <1>3 DEF MapsUsedBy
<1>4. ASSUME NEW w \in Workers PROVE MapsUsedBy(w) \subseteq Workers
  BY <1>2, <1>3
<1>5. ASSUME NEW v \in Workers, NEW w \in Workers, v # w
      PROVE  MapsUsedBy(v) \cap MapsUsedBy(w) = {}
  <2>1. CASE worker[v] = "linearMerge" /\ worker[w] = "linearMerge"
    BY <1>2, <1>5, <2>1
  <2>2. CASE worker[v] = "linearMerge" /\ worker[w] # "linearMerge"
    BY <1>2, <1>3, <1>5, <2>2
  <2>3. CASE worker[v] # "linearMerge" /\ worker[w] = "linearMerge"
    BY <1>2, <1>3, <1>5, <2>3
  <2>4. CASE worker[v] # "linearMerge" /\ worker[w] # "linearMerge"
    BY <1>3, <1>5, <2>4
  <2> QED BY <2>1, <2>2, <2>3, <2>4
<1>6. ASSUME phase = "register", NEW w \in Workers PROVE MapsUsedBy(w) = {}
  <2>1. worker[w] = "identified"
    BY <1>1, <1>6 DEF MergeType
  <2> QED BY <1>3, <2>1
<1> QED BY <1>4, <1>5, <1>6 DEF MapsUsedAlone

LEMMA MergeInvImpliesAllSymbolsGathered == MergeInv => AllSymbolsGathered
<1> SUFFICES ASSUME MergeInv, phase = "register" PROVE AllSymbolsGathered
  BY DEF AllSymbolsGathered
<1>1. MergeType /\ \A w \in Workers : LevelInv(w) /\ FoundInv(w)
  BY DEF MergeInv
<1>2. \A w \in Workers : worker[w] = "identified"
  BY <1>1 DEF MergeType
<1>3. 0 \in Workers
  BY <1>1 DEF MergeType
<1>4. ASSUME NEW v \in Workers, ToBeMerged(v) PROVE v = 0
  <2>1. CASE v # 0
    <3>1. /\ Parent(v) \in Workers /\ FinalMergeLevel(Parent(v)) < FinalMergeLevel(v)
          /\ FinalMergeLevel(v) \in Nat /\ FinalMergeLevel(Parent(v)) \in Nat
      BY <1>1, <2>1, TreeFacts
    <3>2. merge_level[Parent(v)] = FinalMergeLevel(Parent(v))
      BY <1>1, <1>2, <3>1 DEF LevelInv
    <3> QED BY <1>4, <2>1, <3>1, <3>2 DEF ToBeMerged
  <2> QED BY <2>1
<1>5. ASSUME NEW w \in Workers PROVE DOMAIN Identified(w) \subseteq DOMAIN unique[0]
  <2>1. \A hash \in DOMAIN Identified(w) : Held(hash)
    BY <1>1, <1>2 DEF FoundInv, Searching
  <2> QED BY <1>4, <2>1 DEF Held
<1>6. ASSUME NEW hash \in DOMAIN unique[0]
      PROVE  \E w \in Workers : hash \in DOMAIN Identified(w) /\ unique[0][hash] = Identified(w)[hash]
  BY <1>1, <1>3 DEF FoundInv
<1> QED BY <1>5, <1>6 DEF AllSymbolsGathered

-----------------------------------------------------------------------------
(* The workers of a call.                                                  *)
LEMMA SquareWorkers ==
  ASSUME NEW words, IsSquare(words)
  PROVE  NumWorkers(words) \in 1..MaxWorkers
<1>1. PICK d \in Nat \ {0} : DOMAIN words = (0..(d - 1)) \X (0..(d - 1))
  BY DEF IsSquare
<1>2. {c[1] : c \in DOMAIN words} = 0..(d - 1)
  <2>1. ASSUME NEW r \in 0..(d - 1) PROVE \E c \in DOMAIN words : c[1] = r
    <3>1. <<r, r>> \in DOMAIN words /\ <<r, r>>[1] = r
      BY <1>1
    <3> QED BY <3>1
  <2> QED BY <1>1, <2>1
<1>3. Dimension(words) = d
  <2>1. Max(0..(d - 1)) = d - 1
    <3>1. d - 1 \in 0..(d - 1) /\ \A y \in 0..(d - 1) : d - 1 >= y
      OBVIOUS
    <3>2. \A x \in 0..(d - 1) : (\A y \in 0..(d - 1) : x >= y) => x = d - 1
      BY <3>1
    <3> QED BY <3>1, <3>2 DEF Max
  <2>2. Dimension(words) = Max({c[1] : c \in DOMAIN words}) + 1
    BY Zenon DEF Dimension
  <2>3. Max({c[1] : c \in DOMAIN words}) = Max(0..(d - 1))
    BY <1>2, Zenon
  <2>4. Dimension(words) = (d - 1) + 1
    BY <2>1, <2>2, <2>3
  <2> QED BY <2>4
<1>4. NumWorkers(words) = Min({MaxWorkers, d})
  BY <1>3 DEF NumWorkers
<1>5. \E x \in {MaxWorkers, d} : \A y \in {MaxWorkers, d} : x =< y
  BY MaxWorkersAssumption
<1>6. Min({MaxWorkers, d}) \in {MaxWorkers, d} /\ Min({MaxWorkers, d}) <= MaxWorkers
  BY <1>5 DEF Min
<1> QED BY <1>4, <1>6, MaxWorkersAssumption

LEMMA NobodyWorks ==
  ASSUME worker = <<>>, merge_level = <<>>, unique = <<>>, phase = "none"
  PROVE  MergeInv
<1>1. Workers = {} /\ DOMAIN merge_level = {} /\ DOMAIN unique = {}
  BY DEF Workers
<1>2. Number = 0
  BY <1>1, FS_EmptySet DEF Number
<1>3. MergeType
  BY <1>1, <1>2, MaxWorkersAssumption DEF MergeType
<1> QED BY <1>1, <1>3 DEF MergeInv

LEMMA StartKeepsMergeInv ==
  ASSUME NEW words, NEW prefactor, IsSquare(words), StartMultithread(words, prefactor)
  PROVE  MergeInv'
<1> DEFINE n == NumWorkers(words)
           ids == 0..(n - 1)
<1>1. n \in 1..MaxWorkers /\ MaxWorkers \in Nat
  BY SquareWorkers, MaxWorkersAssumption
<1>2. /\ worker' = [w \in ids |-> "started"]
      /\ merge_level' = [w \in ids |-> NotIdentified]
      /\ unique' = [w \in ids |-> <<>>]
      /\ phase' = "identify"
  BY DEF StartMultithread
<1> HIDE DEF n
<1>3. Workers' = ids /\ Number' = n
  <2>1. Cardinality(ids) = n
    BY <1>1, FS_Interval
  <2> QED BY <1>2, <2>1 DEF Workers, Number
<1>4. NotIdentified \in Nat
  BY MaxWorkersAssumption DEF NotIdentified
<1>5. MergeType'
  <2>1. worker' \in [ids -> WorkerStates] /\ merge_level' \in [ids -> Nat]
    BY <1>2, <1>4 DEF WorkerStates
  <2>2. unique' = [w \in ids |-> unique'[w]]
    BY <1>2
  <2>3. /\ phase' \in {"none", "identify", "register", "generate"}
        /\ phase' # "register" /\ phase' # "generate"
    BY <1>2
  <2>4. n \in Nat /\ n <= MaxWorkers /\ n # 0
    BY <1>1
  <2> HIDE DEF ids
  <2> QED BY <1>3, <2>1, <2>2, <2>3, <2>4 DEF MergeType, ids
<1>6. ASSUME NEW w \in ids PROVE LevelInv(w)' /\ ParentInv(w)' /\ FoundInv(w)'
  <2>1. /\ worker'[w] = "started" /\ merge_level'[w] = NotIdentified /\ unique'[w] = <<>>
        /\ DOMAIN unique'[w] = {}
    BY <1>2
  <2>2. LevelInv(w)'
    BY <2>1 DEF LevelInv, Searching
  <2>3. FoundInv(w)'
    BY <2>1 DEF FoundInv, Searching
  <2>4. ToBeMerged(w)'
    <3>1. CASE w = 0
      BY <3>1 DEF ToBeMerged
    <3>2. CASE w # 0
      <4>1. /\ Parent(w) \in ids /\ FinalMergeLevel(w) <= FirstMergeLevel(Parent(w), n)
            /\ FirstMergeLevel(Parent(w), n) < NotIdentified
            /\ FinalMergeLevel(w) \in Nat /\ FirstMergeLevel(Parent(w), n) \in Nat
        BY <1>1, <3>2, TreeOf
      <4>2. FinalMergeLevel(w) <= merge_level'[Parent(w)]
        BY <1>2, <1>4, <4>1
      <4> QED BY <4>2 DEF ToBeMerged
    <3> QED BY <3>1, <3>2
  <2> QED BY <2>2, <2>3, <2>4 DEF ParentInv
<1> QED BY <1>3, <1>5, <1>6 DEF MergeInv

(* A step that leaves levels and maps alone.                               *)
LEMMA QuietStepKeepsMergeInv ==
  ASSUME MergeInv, UNCHANGED <<context, call, merge_level, unique>>,
         worker' \in [Workers -> WorkerStates],
         \A w \in Workers : /\ Searching(w)' <=> Searching(w)
                            /\ worker'[w] \in {"identified", "done"} => merge_level[w] = FinalMergeLevel(w)
                            /\ worker'[w] = "linearMerge" =>
                                 /\ FinalMergeLevel(w) < merge_level[w]
                                 /\ merge_level[Partner(w, merge_level[w])] <= merge_level[w],
         phase' \in {"none", "identify", "register", "generate"},
         phase' # "none" => phase # "none",
         phase' = "register" => \A w \in Workers : worker'[w] = "identified",
         phase' = "generate" => \A w \in Workers : worker'[w] \in {"identified", "done"}
  PROVE  MergeInv'
<1>1. Workers' = Workers /\ Number' = Number
  BY DEF Workers, Number
<1>2. MergeType'
  BY <1>1 DEF MergeInv, MergeType
<1>3. ASSUME NEW w \in Workers PROVE LevelInv(w)' /\ ParentInv(w)' /\ FoundInv(w)'
  <2>1. LevelInv(w) /\ ParentInv(w) /\ FoundInv(w)
    BY DEF MergeInv
  <2>2. LevelInv(w)'
    BY <1>1, <2>1 DEF LevelInv
  <2>3. \A v : ToBeMerged(v)' <=> ToBeMerged(v)
    BY DEF ToBeMerged
  <2>4. ParentInv(w)'
    BY <2>1, <2>3 DEF ParentInv
  <2>5. \A v : Identified(v)' = Identified(v)
    BY DEF Identified
  <2>6. \A hash : Held(hash)' <=> Held(hash)
    BY <1>1, <2>3 DEF Held
  <2>7. FoundInv(w)'
    BY <1>1, <2>1, <2>5, <2>6 DEF FoundInv
  <2> QED BY <2>2, <2>4, <2>7
<1> QED BY <1>1, <1>2, <1>3 DEF MergeInv

LEMMA EndIdentifyKeepsMergeInv ==
  ASSUME MergeInv, NEW w \in Workers, EndIdentify(w)
  PROVE  MergeInv'
<1>1. MergeType /\ \A v \in Workers : LevelInv(v) /\ ParentInv(v) /\ FoundInv(v)
  BY DEF MergeInv
<1>2. /\ worker[w] = "identifying"
      /\ worker' = [worker EXCEPT ![w] = "merging"]
      /\ unique' = [unique EXCEPT ![w] = Identified(w)]
      /\ merge_level' = [merge_level EXCEPT ![w] = FirstMergeLevel(w, Number)]
      /\ UNCHANGED <<context, call, phase>>
  BY DEF EndIdentify, Go, Identified, Number, systemVars
<1>3. Workers' = Workers /\ Number' = Number
  BY <1>2 DEF Workers, Number
<1>4. /\ merge_level[w] = NotIdentified /\ DOMAIN unique[w] = {}
      /\ FinalMergeLevel(w) \in Nat /\ FirstMergeLevel(w, Number) \in Nat
      /\ FinalMergeLevel(w) <= FirstMergeLevel(w, Number)
      /\ FirstMergeLevel(w, Number) < NotIdentified /\ NotIdentified \in Nat
  BY <1>1, <1>2, TreeFacts, MaxWorkersAssumption DEF LevelInv, Searching, NotIdentified
<1>5. /\ worker'[w] = "merging" /\ merge_level'[w] = FirstMergeLevel(w, Number)
      /\ unique'[w] = Identified(w)
      /\ \A v \in Workers \ {w} : /\ worker'[v] = worker[v] /\ merge_level'[v] = merge_level[v]
                                  /\ unique'[v] = unique[v]
  BY <1>1, <1>2 DEF MergeType
<1>6. MergeType'
  <2>1. worker' \in [Workers -> WorkerStates] /\ merge_level' \in [Workers -> Nat]
    BY <1>1, <1>2, <1>4 DEF MergeType, WorkerStates
  <2>2. unique' = [v \in Workers |-> unique'[v]]
    BY <1>1, <1>2 DEF MergeType
  <2>3. phase # "register" /\ phase # "generate"
    BY <1>1, <1>2 DEF MergeType
  <2> QED BY <1>1, <1>2, <1>3, <2>1, <2>2, <2>3 DEF MergeType
<1>7. ASSUME NEW v \in Workers PROVE LevelInv(v)'
  <2>1. CASE v = w
    <3>1. ~Searching(v)'
      BY <1>5, <2>1 DEF Searching
    <3> QED BY <1>3, <1>4, <1>5, <2>1, <3>1 DEF LevelInv
  <2>2. CASE v # w
    <3>1. LevelInv(v) /\ worker'[v] = worker[v] /\ merge_level'[v] = merge_level[v] /\ unique'[v] = unique[v]
      BY <1>1, <1>5, <2>2
    <3>2. ASSUME worker[v] = "linearMerge"
          PROVE  LET p == Partner(v, merge_level[v]) IN merge_level'[p] = merge_level[p]
      <4>1. /\ FinalMergeLevel(v) < merge_level[v] /\ merge_level[v] <= FirstMergeLevel(v, Number)
            /\ merge_level[Partner(v, merge_level[v])] <= merge_level[v] /\ merge_level[v] \in Nat
        BY <1>1, <3>1, <3>2 DEF LevelInv, Searching, MergeType
      <4>2. /\ Partner(v, merge_level[v]) \in Workers
            /\ FirstMergeLevel(v, Number) < NotIdentified /\ FirstMergeLevel(v, Number) \in Nat
        BY <1>1, <4>1, TreeFacts
      <4>3. merge_level[Partner(v, merge_level[v])] < NotIdentified
        BY <1>1, <1>4, <4>1, <4>2 DEF MergeType
      <4> QED BY <1>4, <1>5, <4>2, <4>3
    <3>3. Searching(v)' <=> Searching(v)
      BY <3>1 DEF Searching
    <3> QED BY <1>3, <3>1, <3>2, <3>3 DEF LevelInv
  <2> QED BY <2>1, <2>2
<1>8. ASSUME NEW v \in Workers, ToBeMerged(v) PROVE ToBeMerged(v)'
  <2>1. CASE v = 0
    BY <2>1 DEF ToBeMerged
  <2>2. CASE v # 0
    <3>1. Parent(v) \in Workers /\ FinalMergeLevel(v) <= FirstMergeLevel(Parent(v), Number)
      BY <1>1, <2>2, TreeFacts
    <3> QED BY <1>5, <1>8, <2>2, <3>1 DEF ToBeMerged
  <2> QED BY <2>1, <2>2
<1>9. ToBeMerged(w)
  BY <1>1, <1>4 DEF ParentInv
<1>10. ASSUME NEW v \in Workers PROVE ParentInv(v)'
  <2>1. CASE v = w
    BY <1>8, <1>9, <2>1 DEF ParentInv
  <2>2. CASE v # w
    BY <1>1, <1>5, <1>8, <2>2 DEF ParentInv
  <2> QED BY <2>1, <2>2
<1>11. \A v : Identified(v)' = Identified(v)
  BY <1>2 DEF Identified
<1>12. ASSUME NEW hash, Held(hash) PROVE Held(hash)'
  BY <1>3, <1>4, <1>5, <1>8, <1>12 DEF Held
<1>13. ASSUME NEW v \in Workers PROVE FoundInv(v)'
  <2>1. CASE v = w
    <3>1. \A hash \in DOMAIN Identified(w) : Held(hash)'
      BY <1>3, <1>5, <1>8, <1>9 DEF Held
    <3> QED BY <1>3, <1>5, <1>11, <2>1, <3>1 DEF FoundInv
  <2>2. CASE v # w
    <3>1. Searching(v)' <=> Searching(v)
      BY <1>5, <2>2 DEF Searching
    <3> QED BY <1>1, <1>3, <1>5, <1>11, <1>12, <2>2, <3>1 DEF FoundInv
  <2> QED BY <2>1, <2>2
<1> QED BY <1>3, <1>6, <1>7, <1>10, <1>13 DEF MergeInv

LEMMA EndMergeKeepsMergeInv ==
  ASSUME MergeInv, NEW w \in Workers, EndMerge(w)
  PROVE  MergeInv'
<1> DEFINE level == merge_level[w]
           other == Partner(w, level)
<1>1. MergeType /\ \A v \in Workers : LevelInv(v) /\ ParentInv(v) /\ FoundInv(v)
  BY DEF MergeInv
<1>2. /\ worker[w] = "linearMerge"
      /\ worker' = [worker EXCEPT ![w] = "merging"]
      /\ unique' = [unique EXCEPT ![w] = LinearMapMerge(unique[w], unique[other]), ![other] = <<>>]
      /\ merge_level' = [merge_level EXCEPT ![w] = level - 1]
      /\ UNCHANGED <<context, call, phase>>
  BY DEF EndMerge, Go, systemVars
<1>3. Workers' = Workers /\ Number' = Number
  BY <1>1, <1>2 DEF Workers, Number, MergeType
<1>4. /\ level \in Nat /\ FinalMergeLevel(w) \in Nat
      /\ FinalMergeLevel(w) < level /\ level <= FirstMergeLevel(w, Number)
      /\ merge_level[other] <= level
      /\ FirstMergeLevel(w, Number) \in Nat
  BY <1>1, <1>2, TreeFacts DEF LevelInv, Searching, MergeType
<1>5. /\ other \in Workers /\ other # w /\ other # 0
      /\ FinalMergeLevel(other) = level /\ Parent(other) = w
  BY <1>1, <1>4, TreeFacts
<1> HIDE DEF other, level
<1>6. /\ worker'[w] = "merging" /\ merge_level'[w] = level - 1
      /\ unique'[w] = LinearMapMerge(unique[w], unique[other]) /\ unique'[other] = <<>>
      /\ \A v \in Workers \ {w} : worker'[v] = worker[v] /\ merge_level'[v] = merge_level[v]
      /\ \A v \in Workers \ {w, other} : unique'[v] = unique[v]
  BY <1>1, <1>2, <1>5 DEF MergeType
<1>7. /\ DOMAIN unique'[w] = DOMAIN unique[w] \cup DOMAIN unique[other]
      /\ \A hash \in DOMAIN unique'[w] :
           unique'[w][hash] = IF hash \in DOMAIN unique[w] THEN unique[w][hash] ELSE unique[other][hash]
      /\ DOMAIN unique'[other] = {}
  BY <1>6 DEF LinearMapMerge
<1>8. level - 1 \in Nat /\ FinalMergeLevel(w) <= level - 1 /\ level - 1 <= FirstMergeLevel(w, Number)
  BY <1>4
<1>9. MergeType'
  <2>1. worker' \in [Workers -> WorkerStates] /\ merge_level' \in [Workers -> Nat]
    BY <1>1, <1>2, <1>8 DEF MergeType, WorkerStates
  <2>2. unique' = [v \in Workers |-> unique'[v]]
    BY <1>1, <1>2 DEF MergeType
  <2>3. phase # "register" /\ phase # "generate"
    BY <1>1, <1>2 DEF MergeType
  <2> QED BY <1>1, <1>2, <1>3, <2>1, <2>2, <2>3 DEF MergeType
<1>10. ASSUME NEW v \in Workers PROVE LevelInv(v)'
  <2>1. CASE v = w
    <3>1. ~Searching(v)'
      BY <1>6, <2>1 DEF Searching
    <3> QED BY <1>3, <1>6, <1>8, <2>1, <3>1 DEF LevelInv
  <2>2. CASE v # w
    <3>1. LevelInv(v) /\ worker'[v] = worker[v] /\ merge_level'[v] = merge_level[v]
      BY <1>1, <1>6, <2>2
    <3>2. Searching(v) => DOMAIN unique'[v] = {}
      BY <1>6, <1>7, <2>2, <3>1 DEF LevelInv
    <3>3. ASSUME worker[v] = "linearMerge"
          PROVE  merge_level'[Partner(v, merge_level[v])] <= merge_level[v]
      <4>1. /\ FinalMergeLevel(v) < merge_level[v] /\ merge_level[v] <= FirstMergeLevel(v, Number)
            /\ merge_level[Partner(v, merge_level[v])] <= merge_level[v] /\ merge_level[v] \in Nat
        BY <1>1, <3>1, <3>3 DEF LevelInv, Searching, MergeType
      <4>2. Partner(v, merge_level[v]) \in Workers
        BY <1>1, <4>1, TreeFacts
      <4>3. CASE Partner(v, merge_level[v]) = w
        BY <1>4, <1>6, <1>8, <4>1, <4>3 DEF level
      <4>4. CASE Partner(v, merge_level[v]) # w
        BY <1>6, <4>1, <4>2, <4>4
      <4> QED BY <4>3, <4>4
    <3>4. Searching(v)' <=> Searching(v)
      BY <3>1 DEF Searching
    <3> QED BY <1>3, <3>1, <3>2, <3>3, <3>4 DEF LevelInv
  <2> QED BY <2>1, <2>2
<1>11. ASSUME NEW v \in Workers, v # other, ToBeMerged(v) PROVE ToBeMerged(v)'
  <2>1. CASE v = 0
    BY <2>1 DEF ToBeMerged
  <2>2. CASE v # 0
    <3>1. /\ Parent(v) \in Workers /\ Partner(Parent(v), FinalMergeLevel(v)) = v
          /\ FinalMergeLevel(v) \in Nat /\ FinalMergeLevel(v) <= merge_level[Parent(v)]
      BY <1>1, <1>11, <2>2, TreeFacts DEF ToBeMerged
    <3>2. CASE Parent(v) = w
      <4>1. FinalMergeLevel(v) # level
        BY <1>11, <3>1, <3>2 DEF other
      <4>2. FinalMergeLevel(v) <= level - 1
        BY <1>4, <3>1, <3>2, <4>1 DEF level
      <4> QED BY <1>6, <3>2, <4>2 DEF ToBeMerged
    <3>3. CASE Parent(v) # w
      BY <1>6, <3>1, <3>3 DEF ToBeMerged
    <3> QED BY <3>2, <3>3
  <2> QED BY <2>1, <2>2
<1>12. ToBeMerged(w)'
  <2>1. ToBeMerged(w)
    BY <1>1, <1>4 DEF ParentInv, level
  <2> QED BY <1>5, <1>11, <2>1
<1>13. ASSUME NEW v \in Workers PROVE ParentInv(v)'
  <2>1. CASE v = w
    BY <1>12, <2>1 DEF ParentInv
  <2>2. CASE v = other
    <3>1. ~(merge_level'[v] > FinalMergeLevel(v))
      <4>1. merge_level'[v] = merge_level[v] /\ merge_level[v] \in Nat
        BY <1>1, <1>5, <1>6, <2>2 DEF MergeType
      <4> QED BY <1>4, <1>5, <2>2, <4>1
    <3> QED BY <3>1 DEF ParentInv
  <2>3. CASE v # w /\ v # other
    BY <1>1, <1>6, <1>11, <2>3 DEF ParentInv
  <2> QED BY <2>1, <2>2, <2>3
<1>14. \A v : Identified(v)' = Identified(v)
  BY <1>2 DEF Identified
<1>15. ASSUME NEW hash, Held(hash) PROVE Held(hash)'
  <2>1. PICK v \in Workers : hash \in DOMAIN unique[v] /\ ToBeMerged(v)
    BY <1>15 DEF Held
  <2>2. CASE v = w \/ v = other
    BY <1>3, <1>7, <1>12, <2>1, <2>2 DEF Held
  <2>3. CASE v # w /\ v # other
    BY <1>3, <1>6, <1>11, <2>1, <2>3 DEF Held
  <2> QED BY <2>2, <2>3
<1>16. ASSUME NEW v \in Workers PROVE FoundInv(v)'
  <2>1. Searching(v)' => Searching(v)
    BY <1>2, <1>6 DEF Searching
  <2>2. ~Searching(w)
    BY <1>2 DEF Searching
  <2>3. ~Searching(v)' => ~Searching(v)
    BY <1>6, <2>2 DEF Searching
  <2>4. ~Searching(v)' => \A hash \in DOMAIN Identified(v) : Held(hash)'
    BY <1>1, <1>15, <2>3 DEF FoundInv
  <2>5. ASSUME NEW hash \in DOMAIN unique'[v]
        PROVE  \E u \in Workers : hash \in DOMAIN Identified(u) /\ unique'[v][hash] = Identified(u)[hash]
    <3>1. CASE v = w
      <4>1. CASE hash \in DOMAIN unique[w]
        BY <1>1, <1>7, <3>1, <4>1 DEF FoundInv
      <4>2. CASE hash \notin DOMAIN unique[w]
        BY <1>1, <1>5, <1>7, <2>5, <3>1, <4>2 DEF FoundInv
      <4> QED BY <4>1, <4>2
    <3>2. CASE v = other
      BY <1>7, <2>5, <3>2
    <3>3. CASE v # w /\ v # other
      BY <1>1, <1>6, <2>5, <3>3 DEF FoundInv
    <3> QED BY <3>1, <3>2, <3>3
  <2> QED BY <1>3, <1>14, <2>4, <2>5 DEF FoundInv
<1> QED BY <1>3, <1>9, <1>10, <1>13, <1>16 DEF MergeInv

LEMMA WorkerStepKeepsMergeInv ==
  ASSUME MergeInv, NEW w \in Workers, WorkerStep(w)
  PROVE  MergeInv'
<1>1. MergeType /\ \A v \in Workers : LevelInv(v)
  BY DEF MergeInv
<1>2. CASE EndIdentify(w)
  BY <1>2, EndIdentifyKeepsMergeInv
<1>3. CASE EndMerge(w)
  BY <1>3, EndMergeKeepsMergeInv
<1>4. CASE BeginIdentify(w) \/ BeginMerge(w) \/ DoneIdentification(w) \/ GenerateCell(w) \/ DoneGeneration(w)
  <2>1. UNCHANGED <<context, call, merge_level, unique, phase>>
    BY <1>4 DEF BeginIdentify, BeginMerge, DoneIdentification, GenerateCell, DoneGeneration, systemVars
  <2>2. worker' \in [Workers -> WorkerStates]
    BY <1>1, <1>4 DEF BeginIdentify, BeginMerge, DoneIdentification, GenerateCell, DoneGeneration, Go,
                      MergeType, WorkerStates
  <2>3. /\ \A v \in Workers \ {w} : worker'[v] = worker[v]
        /\ \/ worker[w] = "started" /\ worker'[w] = "identifying" /\ phase = "identify"
           \/ /\ worker[w] = "merging" /\ worker'[w] = "linearMerge"
              /\ merge_level[w] > FinalMergeLevel(w)
              /\ merge_level[Partner(w, merge_level[w])] <= merge_level[w]
           \/ /\ worker[w] = "merging" /\ worker'[w] = "identified"
              /\ merge_level[w] <= FinalMergeLevel(w)
           \/ worker'[w] = worker[w]
           \/ worker[w] = "identified" /\ worker'[w] = "done" /\ phase = "generate"
    BY <1>1, <1>4 DEF BeginIdentify, BeginMerge, DoneIdentification, GenerateCell, DoneGeneration, Go, MergeType
  <2>4. ASSUME NEW v \in Workers
        PROVE  /\ Searching(v)' <=> Searching(v)
               /\ worker'[v] \in {"identified", "done"} => merge_level[v] = FinalMergeLevel(v)
               /\ worker'[v] = "linearMerge" =>
                    /\ FinalMergeLevel(v) < merge_level[v]
                    /\ merge_level[Partner(v, merge_level[v])] <= merge_level[v]
    <3>1. LevelInv(v) /\ merge_level[v] \in Nat /\ FinalMergeLevel(v) \in Nat
      BY <1>1, TreeFacts DEF MergeType
    <3>2. CASE worker'[v] = worker[v]
      BY <3>1, <3>2 DEF LevelInv, Searching
    <3>3. CASE worker'[v] # worker[v]
      <4>1. v = w
        BY <2>3, <3>3
      <4> QED BY <2>3, <3>1, <3>3, <4>1 DEF LevelInv, Searching
    <3> QED BY <3>2, <3>3
  <2>5. /\ phase = "register" => \A v \in Workers : worker'[v] = "identified"
        /\ phase = "generate" => \A v \in Workers : worker'[v] \in {"identified", "done"}
    BY <1>1, <2>3 DEF MergeType
  <2>6. phase' = phase /\ phase \in {"none", "identify", "register", "generate"}
    BY <1>1, <2>1 DEF MergeType
  <2> QED BY <2>1, <2>2, <2>4, <2>5, <2>6, QuietStepKeepsMergeInv
<1> QED BY <1>2, <1>3, <1>4 DEF WorkerStep

LEMMA CallerKeepsMergeInv ==
  ASSUME MergeInv, GatherSymbols \/ RegisterSymbols \/ UNCHANGED <<context, call, factoryVars>>
  PROVE  MergeInv'
<1>1. MergeType /\ \A v \in Workers : LevelInv(v)
  BY DEF MergeInv
<1>2. UNCHANGED <<context, call, worker, merge_level, unique>>
  BY DEF GatherSymbols, RegisterSymbols, systemVars, factoryVars
<1>3. \A w \in Workers : Searching(w)' <=> Searching(w)
  BY <1>2 DEF Searching
<1>4. worker' \in [Workers -> WorkerStates]
  BY <1>1, <1>2 DEF MergeType
<1>5. /\ phase' \in {"none", "identify", "register", "generate"}
      /\ phase' # "none" => phase # "none"
      /\ phase' = "register" => \A w \in Workers : worker'[w] = "identified"
      /\ phase' = "generate" => \A w \in Workers : worker'[w] \in {"identified", "done"}
  <2>1. CASE GatherSymbols
    BY <1>2, <2>1 DEF GatherSymbols
  <2>2. CASE RegisterSymbols
    BY <1>1, <1>2, <2>2 DEF RegisterSymbols, MergeType
  <2>3. CASE UNCHANGED <<context, call, factoryVars>>
    BY <1>1, <1>2, <2>3 DEF factoryVars, MergeType
  <2> QED BY <2>1, <2>2, <2>3
<1>6. \A w \in Workers : /\ worker'[w] \in {"identified", "done"} => merge_level[w] = FinalMergeLevel(w)
                         /\ worker'[w] = "linearMerge" =>
                              /\ FinalMergeLevel(w) < merge_level[w]
                              /\ merge_level[Partner(w, merge_level[w])] <= merge_level[w]
  BY <1>1, <1>2 DEF LevelInv
<1> QED BY <1>2, <1>3, <1>4, <1>5, <1>6, QuietStepKeepsMergeInv

LEMMA CompleteKeepsMergeInv ==
  ASSUME CompleteMultithread
  PROVE  MergeInv'
<1>1. worker' = <<>> /\ merge_level' = <<>> /\ unique' = <<>> /\ phase' = "none"
  BY DEF CompleteMultithread
<1>2. Workers' = {} /\ DOMAIN merge_level' = {} /\ DOMAIN unique' = {}
  BY <1>1 DEF Workers
<1>3. Number' = 0
  BY <1>2, FS_EmptySet DEF Number
<1>4. MergeType'
  BY <1>1, <1>2, <1>3, MaxWorkersAssumption DEF MergeType
<1> QED BY <1>2, <1>4 DEF MergeInv

LEMMA MergeInvariant == FactorySpec => []MergeInv
<1>1. InitFactory => MergeInv
  BY NobodyWorks DEF InitFactory
<1>2. MergeInv /\ [FactoryNext]_<<context, call, factoryVars>> => MergeInv'
  <2> SUFFICES ASSUME MergeInv, [FactoryNext]_<<context, call, factoryVars>> PROVE MergeInv'
    OBVIOUS
  <2>1. CASE \E words, prefactor : IsSquare(words) /\ StartMultithread(words, prefactor)
    BY <2>1, StartKeepsMergeInv
  <2>2. CASE \E w \in Workers : WorkerStep(w)
    BY <2>2, WorkerStepKeepsMergeInv
  <2>3. CASE GatherSymbols \/ RegisterSymbols \/ UNCHANGED <<context, call, factoryVars>>
    BY <2>3, CallerKeepsMergeInv
  <2>4. CASE CompleteMultithread
    BY <2>4, CompleteKeepsMergeInv
  <2> QED BY <2>1, <2>2, <2>3, <2>4 DEF FactoryNext, FactoryStep
<1> QED BY <1>1, <1>2, PTL DEF FactorySpec

(* Whatever the number of workers and however they interleave, no map of   *)
(* new symbols is used by two of them at once, or by one and the caller;   *)
(* no worker waits for one that there is not; and what the caller          *)
(* registers is what the workers identified: the merges lose no map and    *)
(* make up no symbol.                                                      *)
THEOREM MergesAreAlwaysSound == FactorySpec => []MergesAreSound
<1>1. MergeInv => MergesAreSound
  BY MergeInvImpliesMapsUsedAlone, MergeInvImpliesAllSymbolsGathered DEF MergesAreSound
<1> QED BY <1>1, MergeInvariant, PTL
=============================================================================
