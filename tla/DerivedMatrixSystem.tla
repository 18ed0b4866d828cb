------------------------- MODULE DerivedMatrixSystem -------------------------
(***************************************************************************)
(* A matrix system and a system derived from it, used by several threads.  *)
(* Each system has its matrices, the indices that find them and a read-    *)
(* write mutex; making a matrix of the derived system takes the locks of   *)
(* both.  Offsets count from 0.  Assertions are not part of the behaviour, *)
(* as in a release build.                                                  *)
(***************************************************************************)
EXTENDS Sequences, Integers

CONSTANTS Threads,
          Keys,         \* indices of moment and localizing matrices
          Parts,        \* per key, the matrices a polynomial one is made of
          TooLong,      \* keys whose words the map of the system does not support
          Calls,        \* the calls each thread is to make: thread |-> set of calls
          Unindexed, Nobody

ASSUME NobodyAssumption    == Nobody \notin Threads
ASSUME UnindexedAssumption == Unindexed \notin Keys
ASSUME PartsAssumption     ==
  \A k \in Keys : Parts[k] \in Seq(Keys) /\ \A i \in DOMAIN Parts[k] : Parts[Parts[k][i]] = <<>>

ASSUME CallsAssumption ==
  Calls \in [Threads -> SUBSET ([index : {"base", "derived"}, key : Keys]
                               \cup [index : {"source"}, key : Nat]
                               \cup [index : {"none"}, key : {Unindexed}])]

(* A call names an index and what it looks for there: "base" and "derived" *)
(* find matrices by key, "source" is DerivedMatrices, by offset of the     *)
(* source; "none" is push_back, which adds a matrix no index knows of.     *)
System(c) == IF c.index \in {"base", "none"} THEN "base" ELSE "derived"

VARIABLES pc, todo, call,
          source,           \* per thread: offset of the source matrix it found
          matrices,         \* base: what each is for; derived: offset of its source
          index,            \* per index: key |-> offset
          readers, writer   \* who holds each system's mutex
lock == <<readers, writer>>
vars == <<pc, todo, call, source, matrices, index, lock>>

Init == /\ pc = [t \in Threads |-> "idle"]
        /\ todo = Calls
        /\ call = [t \in Threads |-> [index |-> "none", key |-> Unindexed]]
        /\ source = [t \in Threads |-> 0]
        /\ matrices = [base |-> <<>>, derived |-> <<>>]
        /\ index = [base |-> <<>>, derived |-> <<>>, source |-> <<>>]
        /\ readers = [base |-> {}, derived |-> {}]
        /\ writer = [base |-> Nobody, derived |-> Nobody]

Goto(t, label) == pc' = [pc EXCEPT ![t] = label]

(* Locks.                                                                  *)
AcquireRead(t, s)  == /\ writer[s] = Nobody
                      /\ readers' = [readers EXCEPT ![s] = @ \cup {t}]
                      /\ UNCHANGED writer
ReleaseRead(t, s)  == /\ readers' = [readers EXCEPT ![s] = @ \ {t}]
                      /\ UNCHANGED writer
AcquireWrite(t, s) == /\ writer[s] = Nobody /\ readers[s] = {}
                      /\ writer' = [writer EXCEPT ![s] = t]
                      /\ UNCHANGED readers
ReleaseWrite(s)    == /\ writer' = [writer EXCEPT ![s] = Nobody]
                      /\ UNCHANGED readers

(* Index storages do not overwrite: an entry that is there stays.          *)
Insert(f, key, offset) ==
  [k \in DOMAIN f \cup {key} |-> IF k \in DOMAIN f THEN f[k] ELSE offset]

(* Mutant of AddToBase: the offset is the one before the parts were made.  *)
AddToBaseTooEarly(key) ==
  /\ matrices' = [matrices EXCEPT !.base = Append(@, key)]
  /\ index' = [index EXCEPT !.base = Insert(@, key, Len(matrices.base) - Len(Parts[key]))]

(* A factory of the base system: a new matrix, and its index.              *)
AddToBase(key) ==
  /\ matrices' = [matrices EXCEPT !.base = Append(@, key)]
  /\ index' = [index EXCEPT !.base = Insert(@, key, Len(matrices.base))]

(* The matrices it is made of that a polynomial one still lacks.           *)
MissingParts(key) ==
  IF key \in DOMAIN index.base THEN {}
  ELSE {i \in DOMAIN Parts[key] : Parts[key][i] \notin DOMAIN index.base}

(* MatrixIndices::create for a key of the base system: nothing if it is    *)
(* there, else its matrix, when those it is made of have been made.        *)
CreateInBase(key) ==
  /\ MissingParts(key) = {}
  /\ IF key \in DOMAIN index.base THEN UNCHANGED <<matrices, index>> ELSE AddToBase(key)

-----------------------------------------------------------------------------
(* A call of MatrixIndices::operator(), which looks under the read lock    *)
(* first, or of create, which takes the write lock at once.                *)
StartCall(t) ==
  /\ pc[t] = "idle"
  /\ \E c \in todo[t] :
       /\ call' = [call EXCEPT ![t] = c]
       /\ todo' = [todo EXCEPT ![t] = @ \ {c}]
       /\ \/ c.index # "none" /\ Goto(t, "read")
          \/ Goto(t, "write")
  /\ UNCHANGED <<source, matrices, index, lock>>

ReadLock(t) ==
  /\ pc[t] = "read"
  /\ AcquireRead(t, System(call[t]))
  /\ Goto(t, "find")
  /\ UNCHANGED <<todo, call, source, matrices, index>>

Find(t) ==
  /\ pc[t] = "find"
  /\ ReleaseRead(t, System(call[t]))
  /\ Goto(t, IF call[t].key \in DOMAIN index[call[t].index] THEN "idle" ELSE "write")
  /\ UNCHANGED <<todo, call, source, matrices, index>>

WriteLock(t) ==
  /\ pc[t] = "write"
  /\ AcquireWrite(t, System(call[t]))
  /\ Goto(t, IF call[t].index = "none" THEN "push" ELSE "create")
  /\ UNCHANGED <<todo, call, source, matrices, index>>

PushBack(t) ==
  /\ pc[t] = "push"
  /\ matrices' = [matrices EXCEPT !.base = Append(@, Unindexed)]
  /\ ReleaseWrite("base")
  /\ Goto(t, "idle")
  /\ UNCHANGED <<todo, call, source, index>>

(* create in the base system, for a call of either system: first the parts *)
(* are made, one by one.                                                   *)
CreatePart(t) ==
  /\ \/ pc[t] = "create" /\ call[t].index = "base"
     \/ pc[t] = "source_create"
  /\ LET missing == MissingParts(call[t].key)
     IN \E i \in missing : /\ \A j \in missing : i <= j
                           /\ AddToBase(Parts[call[t].key][i])
  /\ UNCHANGED <<pc, todo, call, source, lock>>

Create(t) ==
  /\ pc[t] = "create" /\ call[t].index = "base"
  /\ CreateInBase(call[t].key)
  /\ ReleaseWrite("base")
  /\ Goto(t, "idle")
  /\ UNCHANGED <<todo, call, source>>

(* Mutant of CreateDerived: a matrix made since the read lock was released *)
(* is not noticed.                                                         *)
CreateDerivedUnchecked(t) ==
  /\ pc[t] = "create" /\ System(call[t]) = "derived"
  /\ \/ /\ call[t].key \in TooLong
        /\ ReleaseWrite("derived")
        /\ Goto(t, "idle")
     \/ /\ call[t].key \notin TooLong
        /\ Goto(t, "source_read")
        /\ UNCHANGED lock
  /\ UNCHANGED <<todo, call, source, matrices, index>>

(* create in the derived system: the second look, and the error for words  *)
(* that are too long for the map.                                          *)
CreateDerived(t) ==
  /\ pc[t] = "create" /\ System(call[t]) = "derived"
  /\ \/ /\ call[t].key \in DOMAIN index[call[t].index] \cup TooLong
        /\ ReleaseWrite("derived")
        /\ Goto(t, "idle")
     \/ /\ call[t].key \notin DOMAIN index[call[t].index] \cup TooLong
        /\ Goto(t, "source_read")
        /\ UNCHANGED lock
  /\ UNCHANGED <<todo, call, source, matrices, index>>

SourceReadLock(t) ==
  /\ pc[t] = "source_read"
  /\ AcquireRead(t, "base")
  /\ Goto(t, "source_find")
  /\ UNCHANGED <<todo, call, source, matrices, index>>

(* Mutant of SourceFind: the read lock is not released before the write    *)
(* lock is asked for.                                                      *)
SourceFindLocked(t) ==
  /\ pc[t] = "source_find" /\ call[t].index = "derived"
  /\ \/ /\ call[t].key \in DOMAIN index.base
        /\ source' = [source EXCEPT ![t] = index.base[call[t].key]]
        /\ Goto(t, "transform")
        /\ ReleaseRead(t, "base")
     \/ /\ call[t].key \notin DOMAIN index.base
        /\ Goto(t, "source_write")
        /\ UNCHANGED <<source, lock>>
  /\ UNCHANGED <<todo, call, matrices, index>>

(* The source is looked up by key; the reference to it is used without the *)
(* lock afterwards.                                                        *)
SourceFind(t) ==
  /\ pc[t] = "source_find" /\ call[t].index = "derived"
  /\ ReleaseRead(t, "base")
  /\ \/ /\ call[t].key \in DOMAIN index.base
        /\ source' = [source EXCEPT ![t] = index.base[call[t].key]]
        /\ Goto(t, "transform")
     \/ /\ call[t].key \notin DOMAIN index.base
        /\ Goto(t, "source_write")
        /\ UNCHANGED source
  /\ UNCHANGED <<todo, call, matrices, index>>

(* create_derived_matrix: the source is given by its offset, and the lock  *)
(* is kept for the transformation, if there is a matrix there.             *)
SourceAt(t) ==
  /\ pc[t] = "source_find" /\ call[t].index = "source"
  /\ \/ /\ call[t].key < Len(matrices.base)
        /\ source' = [source EXCEPT ![t] = call[t].key]
        /\ Goto(t, "transform")
        /\ UNCHANGED lock
     \/ /\ call[t].key >= Len(matrices.base)
        /\ readers' = [base |-> readers.base \ {t}, derived |-> readers.derived]
        /\ writer' = [writer EXCEPT !.derived = Nobody]
        /\ Goto(t, "idle")
        /\ UNCHANGED source
  /\ UNCHANGED <<todo, call, matrices, index>>

SourceWriteLock(t) ==
  /\ pc[t] = "source_write"
  /\ AcquireWrite(t, "base")
  /\ Goto(t, "source_create")
  /\ UNCHANGED <<todo, call, source, matrices, index>>

SourceCreate(t) ==
  /\ pc[t] = "source_create"
  /\ CreateInBase(call[t].key)
  /\ source' = [source EXCEPT ![t] = index'.base[call[t].key]]
  /\ ReleaseWrite("base")
  /\ Goto(t, "transform")
  /\ UNCHANGED <<todo, call>>

(* The indices of the derived system after a matrix for call c is added:   *)
(* the one that was asked, and DerivedMatrices too if on_new_moment_matrix *)
(* or its like runs, which looks up the source again, without the lock.    *)
Notified(c, offset) ==
  IF c.index = "source"
  THEN [index EXCEPT !.source = Insert(@, c.key, offset)]
  ELSE [index EXCEPT !.derived = Insert(@, c.key, offset),
                     !.source  = Insert(@, index.base[c.key], offset)]

Transform(t) ==
  /\ pc[t] = "transform"
  /\ matrices' = [matrices EXCEPT !.derived = Append(@, source[t])]
  /\ index' = Notified(call[t], Len(matrices.derived))
  /\ readers' = [readers EXCEPT !.base = @ \ {t}]
  /\ writer' = [writer EXCEPT !.derived = Nobody]
  /\ Goto(t, "idle")
  /\ UNCHANGED <<todo, call, source>>

Thread(t) ==
  \/ StartCall(t)   \/ ReadLock(t)   \/ Find(t)          \/ WriteLock(t)
  \/ PushBack(t)    \/ CreatePart(t) \/ Create(t)        \/ CreateDerived(t)
  \/ SourceReadLock(t) \/ SourceFind(t) \/ SourceAt(t)  \/ SourceWriteLock(t)
  \/ SourceCreate(t)   \/ Transform(t)

Finished == \A t \in Threads : pc[t] = "idle" /\ todo[t] = {}

Terminated == Finished /\ UNCHANGED vars

Next == (\E t \in Threads : Thread(t)) \/ Terminated

Spec == Init /\ [][Next]_vars

(* A thread that can go on does, and makes its calls.                      *)
FairSpec == Spec /\ \A t \in Threads : WF_vars(Thread(t))

-----------------------------------------------------------------------------
Offsets(i) == {index[i][k] : k \in DOMAIN index[i]}

(* Threads that ask for the same matrix at the same time do not each add   *)
(* it: every matrix that was asked for through an index is one that an     *)
(* index finds.  So there is one base matrix for a key; a derived matrix   *)
(* may be there twice, once by its key and once by its source's offset.    *)
NoOrphans ==
  /\ Offsets("base") = {i - 1 : i \in {j \in DOMAIN matrices.base : matrices.base[j] # Unindexed}}
  /\ Offsets("derived") \cup Offsets("source") = {i - 1 : i \in DOMAIN matrices.derived}

(* The indices find the right matrices although several are added by one   *)
(* call, and other threads add theirs between the locks: a base matrix is  *)
(* the one for its key, a derived one is the image of its key's source.    *)
IndexedMatrices ==
  /\ \A k \in DOMAIN index.base : matrices.base[index.base[k] + 1] = k
  /\ \A k \in DOMAIN index.derived :
       /\ k \in DOMAIN index.base
       /\ matrices.derived[index.derived[k] + 1] = index.base[k]
  /\ \A o \in DOMAIN index.source : matrices.derived[index.source[o] + 1] = o

(* A derived matrix that is found by its key is the one that is found by   *)
(* its source's offset: "assert(actual_offset == sym_offset);" after the   *)
(* alias is inserted.  Violated when it has been asked for by offset first *)
(* and is then made again for its key.                                     *)
AliasIsTheMatrix == \A k \in DOMAIN index.derived : index.source[index.base[k]] = index.derived[k]

(* Every call returns: the threads do not wait for each other's locks for  *)
(* ever, nor one for its own.                                              *)
Completes == <>Finished
=============================================================================
