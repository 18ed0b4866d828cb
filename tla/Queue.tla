--------------------------------- MODULE Queue ---------------------------------
(***************************************************************************)
(* Multithreading::Queue (multithreading/queue.h): a linked list with one  *)
(* mutex for its head, one for its tail, a condition variable and an abort *)
(* flag. Consumers wait with head_mutex held; producers link a node under  *)
(* tail_mutex only, and notify after releasing it; abort() takes no mutex. *)
(*                                                                         *)
(* The list is abstracted to the sequence of data between its head and its *)
(* tail: head = tail is the empty sequence. tail_mutex guards single steps *)
(* (the linking in push_back, the read in get_tail), so each is one action;*)
(* head_mutex is held across steps and is modelled.                        *)
(***************************************************************************)
EXTENDS Naturals, Sequences, FiniteSets

CONSTANTS Producers, Consumers, Aborters,  \* the threads
          Data,                            \* what is queued
          NoThread,                        \* head_mutex is free
          MaxLength                        \* bound: no push onto a longer list

Threads == Producers \cup Consumers \cup Aborters

ASSUME ThreadsAssumption ==
    /\ Producers \cap Consumers = {} /\ Producers \cap Aborters = {}
    /\ Consumers \cap Aborters = {} /\ NoThread \notin Threads
    /\ MaxLength \in Nat

VARIABLES list,        \* data from head to tail
          abort_flag,
          head_mutex,  \* its owner, or NoThread
          waiting,     \* threads blocked on data_cv
          pc,          \* per thread
          taken        \* per consumer: what its last call returned, <<>> for nullptr

vars == <<list, abort_flag, head_mutex, waiting, pc, taken>>

Init ==
    /\ list = <<>>
    /\ abort_flag = FALSE
    /\ head_mutex = NoThread
    /\ waiting = {}
    /\ pc = [t \in Threads |-> "idle"]
    /\ taken = [c \in Consumers |-> <<>>]

Goto(t, from, to) == pc[t] = from /\ pc' = [pc EXCEPT ![t] = to]

-----------------------------------------------------------------------------
(* push_back, emplace_back: fill the dummy node at the tail and link a new *)
(* one; then, with no mutex held, notify_one.                              *)

Push(p, d) ==
    /\ Len(list) < MaxLength
    /\ Goto(p, "idle", "notify")
    /\ list' = Append(list, d)
    /\ UNCHANGED <<abort_flag, head_mutex, waiting, taken>>

\* notify_one: wakes some blocked thread; with none blocked it does nothing.
NotifyOne(p) ==
    /\ pc[p] = "notify"
    /\ IF waiting = {}
       THEN pc' = [pc EXCEPT ![p] = "idle"] /\ UNCHANGED waiting
       ELSE \E c \in waiting :
                /\ pc' = [pc EXCEPT ![p] = "idle", ![c] = "relock"]
                /\ waiting' = waiting \ {c}
    /\ UNCHANGED <<list, abort_flag, head_mutex, taken>>

-----------------------------------------------------------------------------
(* abort: set the flag, then notify_all.                                   *)

SetAbort(a) ==
    /\ Goto(a, "idle", "notify")
    /\ abort_flag' = TRUE
    /\ UNCHANGED <<list, head_mutex, waiting, taken>>

NotifyAll(a) ==
    /\ pc[a] = "notify"
    /\ pc' = [t \in Threads |-> IF t = a THEN "idle" ELSE IF t \in waiting THEN "relock" ELSE pc[t]]
    /\ waiting' = {}
    /\ UNCHANGED <<list, abort_flag, head_mutex, taken>>

-----------------------------------------------------------------------------
(* wait_pop_front: wait_for_data, then pop_head.                           *)

CallWaitPop(c) ==
    /\ Goto(c, "idle", "lock")
    /\ taken' = [taken EXCEPT ![c] = <<>>]
    /\ UNCHANGED <<list, abort_flag, head_mutex, waiting>>

LockHead(c) ==
    /\ head_mutex = NoThread
    /\ \/ Goto(c, "lock", "tail")
       \/ Goto(c, "relock", "tail")
       \/ Goto(c, "try_lock", "try_flag")
    /\ head_mutex' = c
    /\ UNCHANGED <<list, abort_flag, waiting, taken>>

\* The predicate, first disjunct: head.get() != get_tail().
TestTail(c) ==
    /\ Goto(c, "tail", IF list # <<>> THEN "recheck" ELSE "flag")
    /\ UNCHANGED <<list, abort_flag, head_mutex, waiting, taken>>

\* The predicate, second disjunct: aborting().
TestFlag(c) ==
    /\ Goto(c, "flag", IF abort_flag THEN "recheck" ELSE "block")
    /\ UNCHANGED <<list, abort_flag, head_mutex, waiting, taken>>

\* Mutant of Block: head_mutex stays locked while the thread is blocked.
BlockHoldingMutex(c) ==
    /\ Goto(c, "block", "blocked")
    /\ waiting' = waiting \cup {c}
    /\ UNCHANGED <<list, abort_flag, head_mutex, taken>>

\* data_cv.wait releases head_mutex and blocks in one step.
Block(c) ==
    /\ Goto(c, "block", "blocked")
    /\ waiting' = waiting \cup {c}
    /\ head_mutex' = NoThread
    /\ UNCHANGED <<list, abort_flag, taken>>

\* A condition variable may wake up with no notification.
SpuriousWakeup(c) ==
    /\ Goto(c, "blocked", "relock")
    /\ waiting' = waiting \ {c}
    /\ UNCHANGED <<list, abort_flag, head_mutex, taken>>

\* The flag is read again: if it is set, nothing is popped and the mutex is
\* released with the lock that wait_for_data returned.
Recheck(c) ==
    /\ IF abort_flag
       THEN Goto(c, "recheck", "idle") /\ head_mutex' = NoThread
       ELSE Goto(c, "recheck", "pop") /\ UNCHANGED head_mutex
    /\ UNCHANGED <<list, abort_flag, waiting, taken>>

\* Mutant of PopHead: the node is copied out but the head stays where it is.
PopHeadUnmoved(c) ==
    /\ Goto(c, "pop", "idle")
    /\ taken' = [taken EXCEPT ![c] = IF list = <<>> THEN <<>> ELSE <<Head(list)>>]
    /\ head_mutex' = NoThread
    /\ UNCHANGED <<list, abort_flag, waiting>>

\* pop_head. On an empty list head would become null.
PopHead(c) ==
    /\ Goto(c, "pop", "idle")
    /\ taken' = [taken EXCEPT ![c] = IF list = <<>> THEN <<>> ELSE <<Head(list)>>]
    /\ list' = IF list = <<>> THEN <<>> ELSE Tail(list)
    /\ head_mutex' = NoThread
    /\ UNCHANGED <<abort_flag, waiting>>

-----------------------------------------------------------------------------
(* try_pop_front.                                                          *)

CallTryPop(c) ==
    /\ Goto(c, "idle", "try_lock")
    /\ taken' = [taken EXCEPT ![c] = <<>>]
    /\ UNCHANGED <<list, abort_flag, head_mutex, waiting>>

TryFlag(c) ==
    /\ IF abort_flag
       THEN Goto(c, "try_flag", "idle") /\ head_mutex' = NoThread
       ELSE Goto(c, "try_flag", "try_tail") /\ UNCHANGED head_mutex
    /\ UNCHANGED <<list, abort_flag, waiting, taken>>

TryTail(c) ==
    /\ IF list = <<>>
       THEN Goto(c, "try_tail", "idle") /\ head_mutex' = NoThread
       ELSE Goto(c, "try_tail", "pop") /\ UNCHANGED head_mutex
    /\ UNCHANGED <<list, abort_flag, waiting, taken>>

-----------------------------------------------------------------------------

\* What a consumer does once it is inside a call.
ConsumerStep(c) ==
    \/ LockHead(c)
    \/ TestTail(c)
    \/ TestFlag(c)
    \/ Block(c)
    \/ Recheck(c)
    \/ PopHead(c)
    \/ TryFlag(c)
    \/ TryTail(c)

ConsumerCall(c) == CallWaitPop(c) \/ CallTryPop(c)

Next ==
    \/ \E p \in Producers : (\E d \in Data : Push(p, d)) \/ NotifyOne(p)
    \/ \E a \in Aborters : SetAbort(a) \/ NotifyAll(a)
    \/ \E c \in Consumers : ConsumerCall(c) \/ ConsumerStep(c) \/ SpuriousWakeup(c)

\* Threads inside a call keep running; nobody has to call, and a spurious
\* wake-up cannot be relied on. A mutex that is free again and again is
\* eventually granted.
Fairness ==
    /\ \A p \in Producers : WF_vars(NotifyOne(p))
    /\ \A a \in Aborters : WF_vars(NotifyAll(a))
    /\ \A c \in Consumers : SF_vars(LockHead(c)) /\ WF_vars(ConsumerStep(c))

Spec     == Init /\ [][Next]_vars
FairSpec == Spec /\ Fairness

-----------------------------------------------------------------------------
(* Properties. *)

\* try_pop_front returns, although other consumers may be waiting inside
\* wait_pop_front: they do not keep head_mutex while they wait.
TryPopReturns == \A c \in Consumers : pc[c] = "try_lock" ~> pc[c] = "idle"

\* Data leave in order, each to one consumer.
Fifo == INSTANCE FifoQueue
ImplementsFifo == Fifo!Spec

\* abort() ends the wait of every consumer that was waiting when it was called
\* (the test AbortInParallel gives it fifteen seconds).
AbortEndsWaiting == \A c \in Consumers : (pc[c] = "blocked" /\ abort_flag) ~> pc[c] # "blocked"
=============================================================================
