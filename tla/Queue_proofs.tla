------------------------------ MODULE Queue_proofs ------------------------------
(***************************************************************************)
(* Proofs about the queue, for any number of producers, consumers and      *)
(* aborting threads, any data and any bound.                               *)
(***************************************************************************)
EXTENDS Queue, TLAPS

Labels == {"idle", "notify", "lock", "relock", "try_lock", "tail", "flag", "block",
           "blocked", "recheck", "pop", "try_flag", "try_tail"}

TypeOK ==
  /\ list \in Seq(Data)
  /\ abort_flag \in BOOLEAN
  /\ head_mutex \in Consumers \cup {NoThread}
  /\ waiting \subseteq Consumers
  /\ pc \in [Threads -> Labels]
  /\ taken \in [Consumers -> Seq(Data)]

(* A consumer between the locking of head_mutex and its release.           *)
HoldsHead(c) == pc[c] \in {"tail", "flag", "block", "recheck", "pop", "try_flag", "try_tail"}

(* Whoever is about to pop has seen data, which nobody else can have taken *)
(* since; and whoever re-reads the flag has seen one or the other.         *)
SeesData(c) ==
  /\ pc[c] = "recheck" => list # <<>> \/ abort_flag
  /\ pc[c] = "pop" => list # <<>>

ConsumerInv(c) ==
  /\ HoldsHead(c) => head_mutex = c
  /\ c \in waiting => pc[c] = "blocked"
  /\ SeesData(c)
  /\ pc[c] # "idle" => taken[c] = <<>>

Inv == TypeOK /\ \A c \in Consumers : ConsumerInv(c)

-----------------------------------------------------------------------------
LEMMA InitInv == Init => Inv
<1> SUFFICES ASSUME Init PROVE Inv
  OBVIOUS
<1>1. \A c \in Consumers : pc[c] = "idle" /\ taken[c] = <<>>
  BY DEF Init, Threads
<1>2. taken \in [Consumers -> Seq(Data)] /\ list \in Seq(Data)
  <2>1. <<>> \in Seq(Data)
    OBVIOUS
  <2>2. QED BY <2>1 DEF Init
<1>3. pc \in [Threads -> Labels]
  BY DEF Init, Labels
<1>4. QED BY <1>1, <1>2, <1>3 DEF Init, Inv, TypeOK, ConsumerInv, HoldsHead, SeesData

(* Producers and aborting threads only link data, set the flag and wake.   *)
LEMMA OthersKeepInv ==
  ASSUME Inv,
         \/ \E p \in Producers : (\E d \in Data : Push(p, d)) \/ NotifyOne(p)
         \/ \E a \in Aborters : SetAbort(a) \/ NotifyAll(a)
  PROVE  Inv'
<1> USE ThreadsAssumption DEF Inv, TypeOK, ConsumerInv, HoldsHead, SeesData, Labels, Threads, Goto
<1>1. ASSUME NEW p \in Producers, NEW d \in Data, Push(p, d)
      PROVE  Inv'
  <2>1. list' \in Seq(Data) /\ list' # <<>>
    BY <1>1 DEF Push
  <2>2. QED BY <1>1, <2>1 DEF Push
<1>2. ASSUME NEW p \in Producers, NotifyOne(p)
      PROVE  Inv'
  <2>1. CASE waiting = {}
    BY <1>2, <2>1 DEF NotifyOne
  <2>2. CASE waiting # {}
    <3>1. PICK c \in waiting : /\ pc' = [pc EXCEPT ![p] = "idle", ![c] = "relock"]
                               /\ waiting' = waiting \ {c}
      BY <1>2, <2>2 DEF NotifyOne
    <3>2. /\ c \in Consumers /\ c # p /\ p \in Threads /\ c \in Threads
          /\ pc'[c] = "relock"
          /\ \A d \in Consumers \ {c} : pc'[d] = pc[d]
      BY <3>1
    <3>3. TypeOK'
      BY <1>2, <3>1, <3>2 DEF NotifyOne
    <3>4. ASSUME NEW d \in Consumers PROVE ConsumerInv(d)'
      <4>1. pc[c] = "blocked" /\ taken[c] = <<>>
        BY <3>1, <3>2
      <4>2. QED BY <1>2, <3>1, <3>2, <4>1 DEF NotifyOne
    <3>5. QED BY <3>3, <3>4
  <2>3. QED BY <2>1, <2>2
<1>3. ASSUME NEW a \in Aborters, SetAbort(a)
      PROVE  Inv'
  BY <1>3 DEF SetAbort
<1>4. ASSUME NEW a \in Aborters, NotifyAll(a)
      PROVE  Inv'
  BY <1>4 DEF NotifyAll
<1>5. QED BY <1>1, <1>2, <1>3, <1>4

LEMMA ConsumerKeepsInv ==
  ASSUME Inv, NEW c \in Consumers, ConsumerCall(c) \/ ConsumerStep(c) \/ SpuriousWakeup(c)
  PROVE  Inv'
<1> USE ThreadsAssumption DEF Inv, TypeOK, ConsumerInv, HoldsHead, SeesData, Labels, Threads, Goto
<1>1. CASE ConsumerCall(c)
  <2>1. <<>> \in Seq(Data)
    OBVIOUS
  <2>2. taken' \in [Consumers -> Seq(Data)]
    BY <1>1, <2>1 DEF ConsumerCall, CallWaitPop, CallTryPop
  <2>3. QED BY <1>1, <2>2 DEF ConsumerCall, CallWaitPop, CallTryPop
<1>2. CASE LockHead(c)
  BY <1>2 DEF LockHead
<1>3. CASE TestTail(c) \/ TestFlag(c)
  BY <1>3 DEF TestTail, TestFlag
<1>4. CASE Block(c)
  BY <1>4 DEF Block
<1>5. CASE SpuriousWakeup(c)
  BY <1>5 DEF SpuriousWakeup
<1>6. CASE Recheck(c)
  BY <1>6 DEF Recheck
<1>7. CASE PopHead(c)
  <2>1. list # <<>>
    BY <1>7 DEF PopHead
  <2>2. Head(list) \in Data /\ Tail(list) \in Seq(Data)
    BY <2>1
  <2>3. <<Head(list)>> \in Seq(Data)
    BY <2>2
  <2>4. TypeOK'
    BY <1>7, <2>1, <2>2, <2>3 DEF PopHead
  <2>5. QED BY <1>7, <2>1, <2>4 DEF PopHead
<1>8. CASE TryFlag(c)
  BY <1>8 DEF TryFlag
<1>9. CASE TryTail(c)
  BY <1>9 DEF TryTail
<1>10. QED BY <1>1, <1>2, <1>3, <1>4, <1>5, <1>6, <1>7, <1>8, <1>9 DEF ConsumerStep

THEOREM Invariant == Spec => []Inv
<1>1. Inv /\ UNCHANGED vars => Inv'
  BY DEF Inv, TypeOK, ConsumerInv, HoldsHead, SeesData, vars
<1>2. Inv /\ [Next]_vars => Inv'
  BY <1>1, OthersKeepInv, ConsumerKeepsInv DEF Next
<1>3. QED BY InitInv, <1>2, PTL DEF Spec

-----------------------------------------------------------------------------
(* No two consumers are between locking and releasing head_mutex at once,  *)
(* one from a wait, one from a try, or several woken by one abort.         *)
HeadIsExclusive == \A c, d \in Consumers : HoldsHead(c) /\ HoldsHead(d) => c = d

THEOREM Exclusive == Spec => []HeadIsExclusive
<1>1. Inv => HeadIsExclusive
  BY DEF Inv, ConsumerInv, HeadIsExclusive
<1>2. QED BY <1>1, Invariant, PTL

(* The queue with its mutexes, wake-ups and abort is a first-in first-out  *)
(* queue: each datum leaves once, in order, and a call that gets nothing   *)
(* leaves the others alone.                                                *)
THEOREM Implements == Spec => ImplementsFifo
<1>1. Init => Fifo!Init
  BY DEF Init, Fifo!Init
<1>2. ASSUME Inv, [Next]_vars
      PROVE  [Fifo!Next]_<<list, taken>>
  <2> USE DEF Fifo!Next
  <2>1. ASSUME NEW p \in Producers, NEW d \in Data, Push(p, d)
        PROVE  Fifo!Next
    BY <2>1 DEF Push, Fifo!Put
  <2>2. ASSUME NEW c \in Consumers, ConsumerCall(c)
        PROVE  Fifo!Next
    BY <2>2 DEF ConsumerCall, CallWaitPop, CallTryPop, Fifo!Call
  <2>3. ASSUME NEW c \in Consumers, PopHead(c)
        PROVE  Fifo!Next
    BY <1>2, <2>3 DEF PopHead, Goto, Inv, ConsumerInv, SeesData, Fifo!Take
  <2>4. ASSUME NEW t \in Threads,
               \/ NotifyOne(t) \/ SetAbort(t) \/ NotifyAll(t) \/ LockHead(t) \/ TestTail(t) \/ TestFlag(t)
               \/ Block(t) \/ SpuriousWakeup(t) \/ Recheck(t) \/ TryFlag(t) \/ TryTail(t)
        PROVE  UNCHANGED <<list, taken>>
    BY <2>4 DEF NotifyOne, SetAbort, NotifyAll, LockHead, TestTail, TestFlag, Block, SpuriousWakeup,
                Recheck, TryFlag, TryTail
  <2>5. CASE UNCHANGED vars
    BY <2>5 DEF vars
  <2>6. QED BY <1>2, <2>1, <2>2, <2>3, <2>4, <2>5 DEF Next, ConsumerStep, Threads
<1>3. QED BY <1>1, <1>2, Invariant, PTL DEF Spec, ImplementsFifo, Fifo!Spec
=============================================================================
