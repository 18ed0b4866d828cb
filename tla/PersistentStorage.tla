--------------------------- MODULE PersistentStorage ---------------------------
(***************************************************************************)
(* PersistentStorage (utilities/persistent_storage.h): the bank in which   *)
(* matrix systems are kept between calls from MATLAB, under keys made of a *)
(* signature and a 32-bit index. Every operation holds the bank's mutex    *)
(* throughout, so each is one action. Clients also walk through the bank   *)
(* with first() and next(), one call at a time and without a lock between  *)
(* them, while others store and release.                                   *)
(*                                                                         *)
(* Objects are numbered in the order in which they are stored, which keeps *)
(* two of them apart; the bank does not look at them.                      *)
(***************************************************************************)
EXTENDS Integers, FiniteSets, FiniteSetsExt

CONSTANTS Walkers,     \* clients that iterate
          IndexWidth,  \* bits of an index: 32
          MaxStores    \* bound: objects ever stored

ASSUME PersistentStorageAssumption ==
    IndexWidth \in Nat /\ MaxStores \in Nat /\ 2^IndexWidth \in Nat \ {0}

Indices  == 0 .. 2^IndexWidth - 1
EndIndex == 2^IndexWidth - 1  \* 0xFFFFFFFF, paired with a null pointer: the end
NoObject == 0                 \* a null shared_ptr, or a lookup that throws

VARIABLES objects,  \* the map: index |-> object, as a set of pairs
          nextID,
          stored,   \* history: number of objects ever stored
          walk      \* per walker: where it is, and what it has seen

vars == <<objects, nextID, stored, walk>>

Keys     == {p[1] : p \in objects}
ObjectAt(i) == IF i \in Keys THEN (CHOOSE p \in objects : p[1] = i)[2] ELSE NoObject

\* store, both overloads. emplace_hint leaves an existing entry as it is (and
\* drops the object), but the key is returned all the same.
Store ==
    /\ stored < MaxStores
    /\ stored' = stored + 1
    /\ objects' = IF nextID \in Keys THEN objects ELSE objects \cup {<<nextID, stored'>>}
    /\ nextID' = (nextID + 1) % 2^IndexWidth
    /\ UNCHANGED walk

\* release: throws, and changes nothing, if the index is not in the bank. A
\* walker is no longer due to see an object that is released.
Release(i) ==
    /\ i \in Keys
    /\ objects' = {p \in objects : p[1] # i}
    /\ walk' = [w \in Walkers |-> [walk[w] EXCEPT !.due = @ \ {ObjectAt(i)}]]
    /\ UNCHANGED <<nextID, stored>>

\* clear: indices start again from zero.
Clear ==
    /\ objects' = {}
    /\ nextID' = 0
    /\ walk' = [w \in Walkers |-> [walk[w] EXCEPT !.due = {}]]
    /\ UNCHANGED stored

\* The pair that first() and next() return: the least index above `at`.
Upper(at) == IF \E i \in Keys : i > at
             THEN LET i == Min({k \in Keys : k > at}) IN <<i, ObjectAt(i)>>
             ELSE <<EndIndex, NoObject>>

\* first(): begin a walk; the objects now in the bank are due to be seen.
First(w) ==
    /\ walk[w].state = "idle"
    /\ LET r == Upper(-1)
       IN  walk' = [walk EXCEPT ![w] =
                [state |-> IF r[2] = NoObject THEN "done" ELSE "walking",
                 at    |-> r[1],
                 seen  |-> {r[2]} \ {NoObject},
                 due   |-> {p[2] : p \in objects}]]
    /\ UNCHANGED <<objects, nextID, stored>>

\* Mutant of NextItem: looks beyond the index that follows the previous one.
NextItemSkips(w) ==
    /\ walk[w].state = "walking"
    /\ LET r == Upper(walk[w].at + 1)
       IN  walk' = [walk EXCEPT ![w] =
                [state |-> IF r[2] = NoObject THEN "done" ELSE "walking",
                 at    |-> r[1],
                 seen  |-> walk[w].seen \cup ({r[2]} \ {NoObject}),
                 due   |-> walk[w].due]]
    /\ UNCHANGED <<objects, nextID, stored>>

\* next(previous): the entry above the previous one, wherever that has gone.
NextItem(w) ==
    /\ walk[w].state = "walking"
    /\ LET r == Upper(walk[w].at)
       IN  walk' = [walk EXCEPT ![w] =
                [state |-> IF r[2] = NoObject THEN "done" ELSE "walking",
                 at    |-> r[1],
                 seen  |-> walk[w].seen \cup ({r[2]} \ {NoObject}),
                 due   |-> walk[w].due]]
    /\ UNCHANGED <<objects, nextID, stored>>

\* The client has used what it saw.
EndWalk(w) ==
    /\ walk[w].state = "done"
    /\ walk' = [walk EXCEPT ![w] = [state |-> "idle", at |-> -1, seen |-> {}, due |-> {}]]
    /\ UNCHANGED <<objects, nextID, stored>>

-----------------------------------------------------------------------------
(* Properties. *)

\* A walk sees every object that was in the bank from its first() to its end,
\* whatever is stored and released meanwhile.
WalkIsComplete == \A w \in Walkers : walk[w].state = "done" => walk[w].due \subseteq walk[w].seen
=============================================================================
