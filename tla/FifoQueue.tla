------------------------------- MODULE FifoQueue -------------------------------
(***************************************************************************)
(* What Multithreading::Queue promises its callers: data leave in the      *)
(* order in which they came, each goes to one consumer, and a consumer that*)
(* gets nothing leaves the queue alone.                                    *)
(***************************************************************************)
EXTENDS Sequences

CONSTANTS Consumers, Data

VARIABLES list,   \* what is queued
          taken   \* per consumer: what its last call returned, or <<>>

Init == list = <<>> /\ taken = [c \in Consumers |-> <<>>]

Put(d) == list' = Append(list, d) /\ UNCHANGED taken

\* A call begins: what the previous one returned is forgotten.
Call(c) == taken' = [taken EXCEPT ![c] = <<>>] /\ UNCHANGED list

Take(c) ==
    /\ list # <<>>
    /\ taken[c] = <<>>
    /\ taken' = [taken EXCEPT ![c] = <<Head(list)>>]
    /\ list' = Tail(list)

Next == (\E d \in Data : Put(d)) \/ (\E c \in Consumers : Call(c) \/ Take(c))

Spec == Init /\ [][Next]_<<list, taken>>
=============================================================================
