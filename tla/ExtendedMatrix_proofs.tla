----------------------- MODULE ExtendedMatrix_proofs -----------------------
(***************************************************************************)
(* Proofs about the multi-threaded extension of a moment matrix, for any   *)
(* number of workers, any lists of factors and any tables to begin with.   *)
(* What the product of two lists is plays no part: Joint stays opaque.     *)
(***************************************************************************)
EXTENDS ExtendedMatrix, TLAPS

Joints == {Joint(c) : c \in Cells}

(* The steps at which a worker is known to have missed its list in the     *)
(* factor table.                                                           *)
Missed == {"readlock", "search", "writelock", "recheck", "add", "push"}

(* The cells left to a worker are its own.                                 *)
Stripes == \A w \in Workers : /\ todo[w] \subseteq {c \in Cells : Owner(c) = w}
                              /\ pc[w] = "done" => todo[w] = {}

(* The new lists and their ids; the list being added has an id in the tree *)
(* before it is in newFactors.                                             *)
NewLists ==
  /\ newFactors \in Seq(Joints)
  /\ nextId = FirstId + Len(newFactors)
  /\ DOMAIN values \subseteq nodes
  /\ \A i \in 1..Len(newFactors) :
       /\ newFactors[i] \in DOMAIN values
       /\ values[newFactors[i]] = FirstId + i - 1
       /\ newFactors[i] \notin DOMAIN Known
  /\ \A list \in DOMAIN values :
       \/ \E i \in 1..Len(newFactors) : newFactors[i] = list
       \/ \E w \in Workers, c \in Cells : /\ pc[w] = "push" /\ IsCurrent(w, c)
                                          /\ list = Joint(c)

(* What a worker has found out about its current list still holds.         *)
Progress ==
  \A w \in Workers, c \in Cells : IsCurrent(w, c) =>
    /\ pc[w] \in Missed => Joint(c) \notin DOMAIN Known
    /\ pc[w] = "add" => Joint(c) \notin DOMAIN values
    /\ pc[w] = "push" => Joint(c) \in DOMAIN values /\ values[Joint(c)] = nextId

(* The tables are those before, or those after, the registration.          *)
Tables ==
  \/ index = Known /\ entries = <<>> /\ symbolCount = FirstId
  \/ /\ Joined /\ newFactors # <<>>
     /\ index = [list \in DOMAIN values \cup DOMAIN Known |->
                   IF list \in DOMAIN values THEN values[list] ELSE Known[list]]
     /\ entries = newFactors /\ symbolCount = nextId

HasNewId(c, id) == \E i \in 1..Len(newFactors) : newFactors[i] = Joint(c) /\ id = FirstId + i - 1

(* A cell is blank until its worker writes the right id.                   *)
Answered ==
  \A c \in Cells :
    \/ c \in todo[Owner(c)] /\ matrix[c] = Blank
    \/ /\ c \notin todo[Owner(c)]
       /\ \/ Joint(c) \in DOMAIN Known /\ matrix[c] = Known[Joint(c)]
          \/ HasNewId(c, matrix[c])

Inv == TypeOK /\ Stripes /\ NewLists /\ Progress /\ Tables /\ Answered

-----------------------------------------------------------------------------
LEMMA CellFacts ==
  ASSUME NEW c \in Cells
  PROVE  /\ c[1] \in Nat /\ c[2] \in Nat
         /\ Owner(c) \in Workers
         /\ Joint(c) \in Joints
<1>1. Len(Lists) \in Nat
  BY ListsAssumption
<1>2. c[1] \in Index /\ c[2] \in Index
  BY DEF Cells
<1>3. c[1] \in Nat /\ c[2] \in Nat
  BY <1>1, <1>2 DEF Index, Dim
<1>4. Owner(c) \in Workers
  <2>1. CASE c[1] < SourceDim
    <3>1. Owner(c) = c[1] % NumWorkers
      BY <2>1 DEF Owner
    <3> QED BY <3>1, <1>3, WorkersAssumption DEF Workers
  <2>2. CASE ~(c[1] < SourceDim)
    <3>1. Owner(c) = (c[1] - SourceDim) % NumWorkers
      BY <2>2 DEF Owner
    <3>2. c[1] - SourceDim \in Nat
      BY <2>2, <1>3, ListsAssumption
    <3> QED BY <3>1, <3>2, WorkersAssumption DEF Workers
  <2> QED BY <2>1, <2>2
<1> QED BY <1>3, <1>4 DEF Joints

(* The cells of a worker are ordered, so that it has one current cell.     *)
LEMMA OneCurrent ==
  ASSUME NEW w \in Workers, NEW c \in Cells, NEW d \in Cells,
         IsCurrent(w, c), IsCurrent(w, d)
  PROVE  c = d
<1> SUFFICES ASSUME c # d PROVE FALSE
  OBVIOUS
<1>1. Before(c, d) /\ Before(d, c)
  BY DEF IsCurrent
<1> QED BY <1>1, CellFacts DEF Before

(* The write lock excludes: only its holder is between Recheck and Push.   *)
LEMMA OneWriter ==
  ASSUME TypeOK, NEW v \in Workers, NEW w \in Workers,
         pc[v] \in {"recheck", "add", "push"}, pc[w] \in {"recheck", "add", "push"}
  PROVE  v = w
BY DEF TypeOK

-----------------------------------------------------------------------------
(* Types and locks.                                                        *)
LEMMA InitType == Init => TypeOK
<1> SUFFICES ASSUME Init PROVE TypeOK
  OBVIOUS
<1>1. pc \in [Workers -> Labels] /\ \A w \in Workers : pc[w] = "lookup"
  BY DEF Init, Labels
<1>2. todo \in [Workers -> SUBSET Cells] /\ matrix \in [Cells -> Nat \cup {Blank}]
  BY DEF Init
<1>3. FirstId \in Nat
  BY KnownAssumption
<1> QED BY <1>1, <1>2, <1>3, NobodyAssumption DEF Init, TypeOK

LEMMA InitInv == Init => Inv
<1> SUFFICES ASSUME Init PROVE Inv
  OBVIOUS
<1>1. TypeOK
  BY InitType
<1>2. Stripes
  BY DEF Init, Stripes
<1>3. NewLists
  <2>1. newFactors \in Seq(Joints) /\ Len(newFactors) = 0
    BY DEF Init
  <2>2. DOMAIN values = {}
    BY DEF Init
  <2> QED BY <2>1, <2>2, KnownAssumption DEF Init, NewLists
<1>4. Progress
  BY DEF Init, Progress, Missed
<1>5. Tables
  BY DEF Init, Tables
<1>6. Answered
  BY CellFacts DEF Init, Answered
<1> QED BY <1>1, <1>2, <1>3, <1>4, <1>5, <1>6 DEF Inv

(* What a step is: one worker at its current cell, a worker that leaves,   *)
(* the registration, or nothing.                                           *)
LEMMA StepCases ==
  ASSUME Inv, [Next]_vars
  PROVE  \/ \E w \in Workers, c \in Cells : IsCurrent(w, c) /\ Fill(w, c)
         \/ \E w \in Workers : Finish(w)
         \/ Register
         \/ UNCHANGED vars
BY DEF Next, Worker, Terminated

(* Before the registration the index is the one the workers started with.  *)
LEMMA IndexIsKnown ==
  ASSUME Inv, NEW w \in Workers, pc[w] # "done"
  PROVE  /\ index = Known /\ entries = <<>> /\ symbolCount = FirstId
         /\ ~Joined
BY DEF Inv, Tables, Joined

(* A list with an id in the tree is a new list with that id, but for the   *)
(* one that is being added; while a worker looks, none is.                 *)
LEMMA FoundIsNew ==
  ASSUME Inv, NEW w \in Workers, pc[w] \in {"search", "recheck"},
         NEW c \in Cells, Joint(c) \in DOMAIN values
  PROVE  HasNewId(c, values[Joint(c)]) /\ values[Joint(c)] \in Nat
<1>1. \A v \in Workers : pc[v] # "push"
  <2> SUFFICES ASSUME NEW v \in Workers, pc[v] = "push" PROVE FALSE
    OBVIOUS
  <2>1. CASE pc[w] = "search"
    BY <2>1, NobodyAssumption DEF Inv, TypeOK
  <2>2. CASE pc[w] = "recheck"
    BY <2>2, OneWriter DEF Inv
  <2> QED BY <2>1, <2>2
<1>2. PICK i \in 1..Len(newFactors) : newFactors[i] = Joint(c)
  BY <1>1 DEF Inv, NewLists
<1>3. values[Joint(c)] = FirstId + i - 1
  BY <1>2 DEF Inv, NewLists
<1> QED BY <1>2, <1>3, KnownAssumption DEF HasNewId

(* A worker's step disturbs no other worker.                               *)
LEMMA OthersStay ==
  ASSUME TypeOK, NEW w \in Workers, NEW c \in Cells, Fill(w, c) \/ Finish(w),
         NEW v \in Workers, v # w
  PROVE  /\ pc'[v] = pc[v] /\ todo'[v] = todo[v]
         /\ \A d \in Cells : IsCurrent(v, d)' <=> IsCurrent(v, d)
<1>1. pc'[v] = pc[v]
  BY DEF Fill, Finish, Lookup, ReadLock, Search, WriteLock, Recheck, AddToTree, Push,
         Answer, Goto, TypeOK
<1>2. todo'[v] = todo[v]
  BY DEF Fill, Finish, Lookup, ReadLock, Search, WriteLock, Recheck, AddToTree, Push,
         Answer, TypeOK
<1> QED BY <1>1, <1>2 DEF IsCurrent

-----------------------------------------------------------------------------
(* Each conjunct of the invariant is preserved.                            *)
LEMMA AnswerType ==
  ASSUME TypeOK, NEW w \in Workers, NEW c \in Cells, NEW id \in Nat, Answer(w, c, id)
  PROVE  /\ pc' \in [Workers -> Labels]
         /\ todo' \in [Workers -> SUBSET Cells]
         /\ matrix' \in [Cells -> Nat \cup {Blank}]
         /\ pc' = [pc EXCEPT ![w] = "lookup"]
BY DEF TypeOK, Answer, Goto, Labels

LEMMA TypeStep == ASSUME Inv, [Next]_vars PROVE TypeOK'
<1> USE DEF Inv
<1>1. ASSUME NEW w \in Workers, NEW c \in Cells, IsCurrent(w, c), Fill(w, c)
      PROVE  TypeOK'
  <2>1. CASE Lookup(w, c)
    <3>1. index = Known
      BY <2>1, IndexIsKnown DEF Lookup
    <3>2. CASE Joint(c) \in DOMAIN index
      <4>1. index[Joint(c)] \in Nat
        BY <3>1, <3>2, KnownAssumption
      <4>2. Answer(w, c, index[Joint(c)])
        BY <2>1, <3>2 DEF Lookup
      <4> QED BY <2>1, <4>1, <4>2, AnswerType DEF Lookup, TypeOK, lock, shared, tables
    <3>3. CASE Joint(c) \notin DOMAIN index
      BY <2>1, <3>3 DEF Lookup, TypeOK, Goto, Labels, lock, shared, tables
    <3> QED BY <3>2, <3>3
  <2>2. CASE ReadLock(w, c)
    BY <2>2, NobodyAssumption DEF ReadLock, TypeOK, Goto, Labels, shared, tables
  <2>3. CASE Search(w, c)
    <3>1. CASE Joint(c) \in DOMAIN values
      <4>1. values[Joint(c)] \in Nat
        BY <2>3, <3>1, FoundIsNew DEF Search
      <4>2. Answer(w, c, values[Joint(c)])
        BY <2>3, <3>1 DEF Search, NewLists
      <4> QED BY <2>3, <4>1, <4>2, AnswerType DEF Search, TypeOK, shared, tables
    <3>2. CASE Joint(c) \notin DOMAIN values
      BY <2>3, <3>2 DEF Search, TypeOK, Goto, Labels, shared, tables
    <3> QED BY <3>1, <3>2
  <2>4. CASE WriteLock(w, c)
    BY <2>4, NobodyAssumption DEF WriteLock, TypeOK, Goto, Labels, shared, tables
  <2>5. CASE Recheck(w, c)
    <3>1. CASE Joint(c) \in DOMAIN values
      <4>1. values[Joint(c)] \in Nat
        BY <2>5, <3>1, FoundIsNew DEF Recheck
      <4>2. Answer(w, c, values[Joint(c)]) /\ writer' = Nobody
        BY <2>5, <3>1 DEF Recheck
      <4> QED BY <2>5, <4>1, <4>2, AnswerType, NobodyAssumption DEF Recheck, TypeOK, shared, tables
    <3>2. CASE Joint(c) \notin DOMAIN values
      BY <2>5, <3>2 DEF Recheck, TypeOK, Goto, Labels, shared, tables
    <3> QED BY <3>1, <3>2
  <2>6. CASE AddToTree(w, c)
    BY <2>6 DEF AddToTree, TypeOK, Goto, Labels, lock, tables
  <2>7. CASE Push(w, c)
    <3>1. Answer(w, c, nextId) /\ nextId \in Nat
      BY <2>7 DEF Push, TypeOK
    <3>2. nextId' \in Nat /\ symbolCount' \in Nat
      BY <2>7, <3>1 DEF Push, TypeOK, tables
    <3>3. /\ pc' = [pc EXCEPT ![w] = "lookup"] /\ pc' \in [Workers -> Labels]
          /\ todo' \in [Workers -> SUBSET Cells]
          /\ matrix' \in [Cells -> Nat \cup {Blank}]
      BY <3>1, AnswerType
    <3>4. pc[w] = "push" /\ writer' = Nobody /\ readers' = readers
      BY <2>7 DEF Push
    <3> QED BY <3>2, <3>3, <3>4, NobodyAssumption DEF TypeOK
  <2> QED BY <1>1, <2>1, <2>2, <2>3, <2>4, <2>5, <2>6, <2>7 DEF Fill
<1>2. ASSUME NEW w \in Workers, Finish(w) PROVE TypeOK'
  BY <1>2 DEF Finish, TypeOK, Goto, Labels, lock, shared, tables
<1>3. CASE Register
  <2>1. symbolCount' \in Nat
    <3>1. nextId - FirstId \in Nat
      BY KnownAssumption DEF NewLists
    <3> QED BY <1>3, <3>1 DEF Register, TypeOK
  <2> QED BY <1>3, <2>1 DEF Register, TypeOK, lock, shared
<1>4. CASE UNCHANGED vars
  BY <1>4 DEF TypeOK, vars, lock, shared, tables
<1> QED BY <1>1, <1>2, <1>3, <1>4, StepCases

LEMMA StripesStep == ASSUME Inv, [Next]_vars PROVE Stripes'
<1> USE DEF Inv
<1>1. ASSUME NEW w \in Workers, NEW c \in Cells, IsCurrent(w, c), Fill(w, c)
      PROVE  Stripes'
  <2>1. \/ \E id : Answer(w, c, id)
        \/ /\ todo' = todo
           /\ \E label \in Missed \cup {"aborted"} : Goto(w, label)
    BY <1>1 DEF Fill, Lookup, ReadLock, Search, WriteLock, Recheck, AddToTree, Push, Missed
  <2> QED BY <2>1 DEF Stripes, Answer, Goto, TypeOK, Missed
<1>2. ASSUME NEW w \in Workers, Finish(w) PROVE Stripes'
  BY <1>2 DEF Finish, Goto, Stripes, TypeOK
<1>3. CASE Register \/ UNCHANGED vars
  BY <1>3 DEF Register, Stripes, vars
<1> QED BY <1>1, <1>2, <1>3, StepCases

LEMMA NewListsStep == ASSUME Inv, [Next]_vars PROVE NewLists'
<1> USE DEF Inv
<1>1. ASSUME NEW w \in Workers, NEW c \in Cells, IsCurrent(w, c), AddToTree(w, c)
      PROVE  NewLists'
  <2>1. Joint(c) \notin DOMAIN values
    BY <1>1 DEF AddToTree, Progress
  <2>2. \A v \in Workers : pc[v] # "push"
    BY <1>1, OneWriter DEF AddToTree
  <2>3. /\ newFactors' = newFactors /\ nextId' = nextId
        /\ DOMAIN values' = DOMAIN values \cup {Joint(c)}
        /\ \A list \in DOMAIN values : values'[list] = values[list]
        /\ nodes \cup {Joint(c)} \subseteq nodes'
    BY <1>1, <2>1 DEF AddToTree
  <2>4. pc'[w] = "push" /\ IsCurrent(w, c)'
    BY <1>1 DEF AddToTree, Goto, IsCurrent, TypeOK
  <2>5. \A i \in 1..Len(newFactors') :
          /\ newFactors'[i] \in DOMAIN values'
          /\ values'[newFactors'[i]] = FirstId + i - 1
          /\ newFactors'[i] \notin DOMAIN Known
    BY <2>3 DEF NewLists
  <2>6. \A list \in DOMAIN values' :
          \/ \E i \in 1..Len(newFactors') : newFactors'[i] = list
          \/ \E v \in Workers, d \in Cells : /\ pc'[v] = "push" /\ IsCurrent(v, d)'
                                             /\ list = Joint(d)
    BY <2>2, <2>3, <2>4 DEF NewLists
  <2> QED BY <2>3, <2>5, <2>6 DEF NewLists
<1>2. ASSUME NEW w \in Workers, NEW c \in Cells, IsCurrent(w, c), Push(w, c)
      PROVE  NewLists'
  <2>1. /\ Joint(c) \notin DOMAIN Known
        /\ Joint(c) \in DOMAIN values /\ values[Joint(c)] = nextId
    BY <1>2 DEF Push, Progress, Missed
  <2>2. /\ newFactors' = Append(newFactors, Joint(c)) /\ nextId' = nextId + 1
        /\ values' = values /\ nodes' = nodes
    BY <1>2 DEF Push
  <2>3. newFactors \in Seq(Joints) /\ newFactors' \in Seq(Joints)
    BY <2>2, CellFacts DEF NewLists
  <2>4. /\ Len(newFactors') = Len(newFactors) + 1
        /\ \A i \in 1..Len(newFactors) : newFactors'[i] = newFactors[i]
        /\ newFactors'[Len(newFactors) + 1] = Joint(c)
    BY <2>2, <2>3
  <2>5. nextId' = FirstId + Len(newFactors')
    BY <2>2, <2>3, <2>4, KnownAssumption DEF NewLists
  <2>6. ASSUME NEW i \in 1..Len(newFactors')
        PROVE  /\ newFactors'[i] \in DOMAIN values'
               /\ values'[newFactors'[i]] = FirstId + i - 1
               /\ newFactors'[i] \notin DOMAIN Known
    <3>1. CASE i \in 1..Len(newFactors)
      BY <3>1, <2>2, <2>4 DEF NewLists
    <3>2. CASE i = Len(newFactors) + 1
      BY <3>2, <2>1, <2>2, <2>3, <2>4, KnownAssumption DEF NewLists
    <3> QED BY <2>3, <2>4, <3>1, <3>2
  <2>7. ASSUME NEW list \in DOMAIN values'
        PROVE  \E i \in 1..Len(newFactors') : newFactors'[i] = list
    <3>1. CASE \E i \in 1..Len(newFactors) : newFactors[i] = list
      BY <3>1, <2>3, <2>4
    <3>2. CASE list = Joint(c)
      BY <3>2, <2>3, <2>4
    <3>3. ASSUME NEW v \in Workers, NEW d \in Cells, pc[v] = "push", IsCurrent(v, d),
                 list = Joint(d)
          PROVE  list = Joint(c)
      BY <1>2, <3>3, OneWriter, OneCurrent DEF Push
    <3> QED BY <2>2, <2>7, <3>1, <3>2, <3>3 DEF NewLists
  <2> QED BY <2>2, <2>3, <2>5, <2>6, <2>7 DEF NewLists
<1>3. ASSUME UNCHANGED <<newFactors, nextId, nodes, values>>,
             \A v \in Workers, d \in Cells :
               pc[v] = "push" /\ IsCurrent(v, d) => pc'[v] = "push" /\ IsCurrent(v, d)'
      PROVE  NewLists'
  BY <1>3 DEF NewLists
<1>4. ASSUME NEW w \in Workers, NEW c \in Cells, IsCurrent(w, c), Fill(w, c),
             ~AddToTree(w, c), ~Push(w, c)
      PROVE  NewLists'
  <2>1. UNCHANGED <<newFactors, nextId, nodes, values>> /\ pc[w] # "push"
    BY <1>4 DEF Fill, Lookup, ReadLock, Search, WriteLock, Recheck, shared
  <2> QED BY <1>3, <1>4, <2>1, OthersStay
<1>5. ASSUME NEW w \in Workers, Finish(w) PROVE NewLists'
  <2>1. UNCHANGED <<newFactors, nextId, nodes, values>> /\ pc[w] # "push"
    BY <1>5 DEF Finish, shared
  <2>2. \A v \in Workers \ {w} : pc'[v] = pc[v] /\ todo'[v] = todo[v]
    BY <1>5 DEF Finish, Goto, TypeOK
  <2> QED BY <1>3, <2>1, <2>2 DEF IsCurrent
<1>6. CASE Register \/ UNCHANGED vars
  BY <1>3, <1>6 DEF Register, vars, shared, IsCurrent
<1> QED BY <1>1, <1>2, <1>4, <1>5, <1>6, StepCases

LEMMA ProgressStep == ASSUME Inv, [Next]_vars PROVE Progress'
<1> USE DEF Inv
<1>1. ASSUME NEW w \in Workers, NEW c \in Cells, IsCurrent(w, c), Fill(w, c),
             NEW v \in Workers, NEW d \in Cells, IsCurrent(v, d)'
      PROVE  /\ pc'[v] \in Missed => Joint(d) \notin DOMAIN Known
             /\ pc'[v] = "add" => Joint(d) \notin DOMAIN values'
             /\ pc'[v] = "push" => Joint(d) \in DOMAIN values' /\ values'[Joint(d)] = nextId'
  <2>1. CASE v # w
    <3>1. pc'[v] = pc[v] /\ IsCurrent(v, d)
      BY <1>1, <2>1, OthersStay
    <3>2. CASE pc[v] \in {"add", "push"}
      <4>1. ~AddToTree(w, c) /\ ~Push(w, c)
        BY <2>1, <3>2, OneWriter DEF AddToTree, Push
      <4>2. UNCHANGED <<values, nextId>>
        BY <1>1, <4>1 DEF Fill, Lookup, ReadLock, Search, WriteLock, Recheck, shared
      <4> QED BY <3>1, <4>2 DEF Progress
    <3> QED BY <3>1, <3>2 DEF Progress
  <2>2. CASE v = w /\ todo' = todo
    <3>1. d = c
      BY <1>1, <2>2, OneCurrent DEF IsCurrent
    <3>2. /\ pc[w] \in Missed => Joint(c) \notin DOMAIN Known
          /\ pc[w] = "add" => Joint(c) \notin DOMAIN values
      BY <1>1 DEF Progress
    <3>3. CASE Lookup(w, c)
      <4>1. index = Known
        BY <3>3, IndexIsKnown DEF Lookup
      <4> QED BY <2>2, <3>1, <3>3, <4>1 DEF Lookup, Answer, Goto, TypeOK, Missed
    <3>4. CASE ReadLock(w, c) \/ WriteLock(w, c)
      BY <2>2, <3>1, <3>2, <3>4 DEF ReadLock, WriteLock, Goto, TypeOK, Missed
    <3>5. CASE Search(w, c)
      BY <2>2, <3>1, <3>2, <3>5 DEF Search, Answer, Goto, TypeOK, Missed
    <3>6. CASE Recheck(w, c)
      BY <2>2, <3>1, <3>2, <3>6 DEF Recheck, Answer, Goto, TypeOK, Missed, shared
    <3>7. CASE AddToTree(w, c)
      BY <2>2, <3>1, <3>2, <3>7 DEF AddToTree, Goto, TypeOK, Missed
    <3>8. CASE Push(w, c)
      BY <2>2, <3>8 DEF Push, Answer, Goto, TypeOK, Missed
    <3> QED BY <1>1, <3>3, <3>4, <3>5, <3>6, <3>7, <3>8 DEF Fill
  <2>3. CASE v = w /\ todo' # todo
    <3>1. pc'[w] = "lookup"
      BY <1>1, <2>3 DEF Fill, Lookup, ReadLock, Search, WriteLock, Recheck, AddToTree, Push,
         Answer, Goto, TypeOK
    <3> QED BY <2>3, <3>1 DEF Missed
  <2> QED BY <2>1, <2>2, <2>3
<1>2. ASSUME NEW w \in Workers, Finish(w) PROVE Progress'
  BY <1>2 DEF Finish, Goto, TypeOK, Progress, Missed, IsCurrent, shared
<1>3. CASE Register \/ UNCHANGED vars
  BY <1>3 DEF Register, vars, shared, IsCurrent, Progress
<1>4. ASSUME NEW w \in Workers, NEW c \in Cells, IsCurrent(w, c), Fill(w, c)
      PROVE  Progress'
  BY <1>1, <1>4 DEF Progress
<1> QED BY <1>2, <1>3, <1>4, StepCases

LEMMA TablesStep == ASSUME Inv, [Next]_vars PROVE Tables'
<1> USE DEF Inv
<1>1. ASSUME NEW w \in Workers, NEW c \in Cells, Fill(w, c) \/ Finish(w)
      PROVE  Tables'
  <2>1. pc[w] # "done" /\ UNCHANGED tables
    BY <1>1 DEF Fill, Finish, Lookup, ReadLock, Search, WriteLock, Recheck, AddToTree, Push, tables
  <2> QED BY <2>1, IndexIsKnown DEF Tables, tables
<1>2. CASE Register
  <2>1. newFactors \in Seq(Joints) /\ newFactors # <<>> /\ symbolCount = FirstId
    BY <1>2 DEF Register, NewLists
  <2>2. nextId # FirstId
    BY <2>1, KnownAssumption DEF NewLists
  <2>3. index = Known /\ entries = <<>>
    BY <2>1, <2>2 DEF Tables
  <2>4. symbolCount' = nextId
    BY <1>2, <2>1, KnownAssumption DEF Register, TypeOK
  <2>5. entries' = newFactors
    BY <1>2, <2>1, <2>3 DEF Register
  <2> QED BY <1>2, <2>3, <2>4, <2>5 DEF Register, Tables, Merged, Joined, shared
<1>3. CASE UNCHANGED vars
  BY <1>3 DEF vars, shared, tables, Tables, Joined
<1>4. ASSUME NEW w \in Workers, Finish(w) PROVE Tables'
  <2>1. pc[w] # "done" /\ UNCHANGED tables
    BY <1>4 DEF Finish, tables
  <2> QED BY <2>1, IndexIsKnown DEF Tables, tables
<1> QED BY <1>1, <1>2, <1>3, <1>4, StepCases

(* The id a worker writes is that of the list of its cell.                 *)
LEMMA AnswerIsRight ==
  ASSUME Inv, NEW w \in Workers, NEW c \in Cells, IsCurrent(w, c), Fill(w, c)
  PROVE  \/ UNCHANGED <<todo, matrix>>
         \/ \E id : /\ Answer(w, c, id)
                    /\ \/ Joint(c) \in DOMAIN Known /\ id = Known[Joint(c)]
                       \/ HasNewId(c, id)'
<1> USE DEF Inv
<1>1. CASE Lookup(w, c)
  BY <1>1, IndexIsKnown DEF Lookup
<1>2. CASE Search(w, c)
  <2>1. newFactors' = newFactors
    BY <1>2 DEF Search, shared
  <2> QED BY <1>2, <2>1, FoundIsNew DEF Search, HasNewId
<1>3. CASE Recheck(w, c)
  <2>1. newFactors' = newFactors
    BY <1>3 DEF Recheck, shared
  <2> QED BY <1>3, <2>1, FoundIsNew DEF Recheck, HasNewId
<1>4. CASE Push(w, c)
  <2>1. /\ newFactors \in Seq(Joints) /\ newFactors' = Append(newFactors, Joint(c))
        /\ nextId = FirstId + Len(newFactors) /\ Answer(w, c, nextId)
    BY <1>4 DEF Push, NewLists
  <2>2. /\ Len(newFactors) + 1 \in 1..Len(newFactors')
        /\ newFactors'[Len(newFactors) + 1] = Joint(c)
        /\ nextId = FirstId + (Len(newFactors) + 1) - 1
    BY <2>1, KnownAssumption, CellFacts
  <2>3. \E id : id = nextId /\ HasNewId(c, id)'
    BY <2>2 DEF HasNewId
  <2> QED BY <2>1, <2>3
<1>5. CASE ReadLock(w, c) \/ WriteLock(w, c) \/ AddToTree(w, c)
  BY <1>5 DEF ReadLock, WriteLock, AddToTree
<1> QED BY <1>1, <1>2, <1>3, <1>4, <1>5 DEF Fill

(* An id once given to a list stays its id.                                *)
LEMMA IdsStay ==
  ASSUME Inv, [Next]_vars, NEW c \in Cells, NEW id, HasNewId(c, id)
  PROVE  HasNewId(c, id)'
<1> USE DEF Inv
<1>1. \/ newFactors' = newFactors
      \/ \E d \in Cells : newFactors' = Append(newFactors, Joint(d))
  BY StepCases DEF Fill, Finish, Lookup, ReadLock, Search, WriteLock, Recheck, AddToTree, Push,
     Register, shared, vars
<1>2. newFactors \in Seq(Joints)
  BY DEF NewLists
<1>3. CASE newFactors' = newFactors
  BY <1>3 DEF HasNewId
<1>4. ASSUME NEW d \in Cells, newFactors' = Append(newFactors, Joint(d))
      PROVE  HasNewId(c, id)'
  <2>1. /\ 1..Len(newFactors) \subseteq 1..Len(newFactors')
        /\ \A i \in 1..Len(newFactors) : newFactors'[i] = newFactors[i]
    BY <1>2, <1>4, CellFacts
  <2> QED BY <2>1 DEF HasNewId
<1> QED BY <1>1, <1>3, <1>4

LEMMA AnsweredStep == ASSUME Inv, [Next]_vars PROVE Answered'
<1> USE DEF Inv
<1>1. ASSUME UNCHANGED <<todo, matrix>> PROVE Answered'
  BY <1>1, IdsStay DEF Answered
<1>2. ASSUME NEW w \in Workers, NEW c \in Cells, IsCurrent(w, c), Fill(w, c),
             NEW id, Answer(w, c, id),
             (Joint(c) \in DOMAIN Known /\ id = Known[Joint(c)]) \/ HasNewId(c, id)'
      PROVE  Answered'
  <2>1. Owner(c) = w
    BY <1>2 DEF IsCurrent, Stripes
  <2>2. matrix'[c] = id /\ c \notin todo'[Owner(c)]
    BY <1>2, <2>1 DEF Answer, TypeOK
  <2>3. ASSUME NEW d \in Cells, d # c
        PROVE  matrix'[d] = matrix[d] /\ (d \in todo'[Owner(d)] <=> d \in todo[Owner(d)])
    BY <1>2, <2>3, CellFacts DEF Answer, TypeOK
  <2>4. ASSUME NEW d \in Cells, d # c
        PROVE  \/ d \in todo'[Owner(d)] /\ matrix'[d] = Blank
               \/ /\ d \notin todo'[Owner(d)]
                  /\ \/ Joint(d) \in DOMAIN Known /\ matrix'[d] = Known[Joint(d)]
                     \/ HasNewId(d, matrix[d])'
    <3>1. HasNewId(d, matrix[d]) => HasNewId(d, matrix[d])'
      <4>1. \A i : HasNewId(d, i) => HasNewId(d, i)'
        BY IdsStay
      <4> QED BY <2>3, <2>4, <4>1 DEF HasNewId
    <3> QED BY <2>3, <2>4, <3>1 DEF Answered
  <2>5. HasNewId(c, id)' => HasNewId(c, matrix[c])'
    BY <2>2 DEF HasNewId
  <2> QED BY <1>2, <2>2, <2>4, <2>5 DEF Answered
<1>3. ASSUME NEW w \in Workers, NEW c \in Cells, IsCurrent(w, c), Fill(w, c)
      PROVE  Answered'
  BY <1>1, <1>2, <1>3, AnswerIsRight
<1>4. ASSUME NEW w \in Workers, Finish(w) PROVE Answered'
  BY <1>1, <1>4 DEF Finish
<1>5. CASE Register \/ UNCHANGED vars
  BY <1>1, <1>5 DEF Register, vars
<1> QED BY <1>3, <1>4, <1>5, StepCases

-----------------------------------------------------------------------------
(* The conjunction of types, locks, what each worker knows, tables and     *)
(* cells holds in every reachable state.                                   *)
THEOREM Invariance == Spec => []Inv
<1>1. Init => Inv
  BY InitInv
<1>2. Inv /\ [Next]_vars => Inv'
  BY TypeStep, StripesStep, NewListsStep, ProgressStep, TablesStep, AnsweredStep DEF Inv
<1> QED BY <1>1, <1>2, PTL DEF Spec

(* The read-write lock excludes: readers, or one writer, between taking    *)
(* and releasing it.                                                       *)
THEOREM TypeCorrect == Spec => []TypeOK
<1>1. Inv => TypeOK
  BY DEF Inv
<1> QED BY <1>1, Invariance, PTL

(* The ids in the tree tell new lists apart, so that no list was added     *)
(* twice.                                                                  *)
THEOREM OneSymbol == Spec => []OneSymbolPerList
<1>1. Inv => OneSymbolPerList
  <2> SUFFICES ASSUME Inv PROVE OneSymbolPerList
    OBVIOUS
  <2>1. DOMAIN newFactors = 1..Len(newFactors)
    BY DEF Inv, NewLists
  <2>2. ASSUME NEW i \in 1..Len(newFactors), NEW j \in 1..Len(newFactors),
               newFactors[i] = newFactors[j]
        PROVE  i = j
    <3>1. FirstId + i - 1 = FirstId + j - 1
      BY <2>2 DEF Inv, NewLists
    <3> QED BY <3>1, KnownAssumption
  <2> QED BY <2>1, <2>2 DEF Inv, NewLists, OneSymbolPerList, IsInjective
<1> QED BY <1>1, Invariance, PTL

(* A list in the tree that is not in newFactors is one that the holder of  *)
(* the write lock is adding.                                               *)
LEMMA UnlockedListsAreNew ==
  ASSUME Inv, writer = Nobody, NEW list \in DOMAIN values
  PROVE  \E i \in 1..Len(newFactors) : newFactors[i] = list /\ values[list] = FirstId + i - 1
<1>1. \A w \in Workers : pc[w] # "push"
  BY NobodyAssumption DEF Inv, TypeOK
<1> QED BY <1>1 DEF Inv, NewLists

(* Tree, definitions and counter agree whenever the lock is free.          *)
THEOREM Aligned == Spec => []NewSymbolsAligned
<1>1. Inv => NewSymbolsAligned
  <2> SUFFICES ASSUME Inv, writer = Nobody
               PROVE  /\ nextId = FirstId + Len(newFactors)
                      /\ DOMAIN values = {newFactors[i] : i \in DOMAIN newFactors}
                      /\ \A list \in DOMAIN values : newFactors[NewId(values[list])] = list
    BY DEF NewSymbolsAligned
  <2>1. /\ DOMAIN newFactors = 1..Len(newFactors) /\ nextId = FirstId + Len(newFactors)
        /\ \A i \in 1..Len(newFactors) : newFactors[i] \in DOMAIN values
    BY DEF Inv, NewLists
  <2>2. DOMAIN values = {newFactors[i] : i \in DOMAIN newFactors}
    BY <2>1, UnlockedListsAreNew
  <2>3. ASSUME NEW list \in DOMAIN values PROVE newFactors[NewId(values[list])] = list
    <3>1. PICK i \in 1..Len(newFactors) : newFactors[i] = list /\ values[list] = FirstId + i - 1
      BY UnlockedListsAreNew
    <3>2. NewId(values[list]) = i
      BY <3>1, KnownAssumption DEF NewId
    <3> QED BY <3>1, <3>2
  <2> QED BY <2>1, <2>2, <2>3
<1> QED BY <1>1, Invariance, PTL

(* Every cell has the symbol of the product of its row and its column.     *)
THEOREM Product == Spec => []MatrixIsProduct
<1>1. Inv => MatrixIsProduct
  <2> SUFFICES ASSUME Inv, Registered
               PROVE  /\ symbolCount = FirstId + Len(entries)
                      /\ \A c \in Cells :
                           /\ Joint(c) \in DOMAIN index /\ index[Joint(c)] = matrix[c]
                           /\ matrix[c] >= FirstId => entries[NewId(matrix[c])] = Joint(c)
    BY DEF MatrixIsProduct
  <2>1. /\ \A w \in Workers : pc[w] = "done"
        /\ Len(entries) = Len(newFactors)
    BY DEF Registered, Joined
  <2>2. newFactors \in Seq(Joints) /\ nextId = FirstId + Len(newFactors)
    BY DEF Inv, NewLists
  <2>3. ASSUME NEW list \in DOMAIN values
        PROVE  \E i \in 1..Len(newFactors) : newFactors[i] = list /\ values[list] = FirstId + i - 1
    BY <2>1 DEF Inv, NewLists
  <2>4. \A i \in 1..Len(newFactors) :
          newFactors[i] \in DOMAIN values /\ newFactors[i] \notin DOMAIN Known
    BY DEF Inv, NewLists
  <2>5. /\ entries = newFactors /\ symbolCount = FirstId + Len(newFactors)
        /\ DOMAIN index = DOMAIN values \cup DOMAIN Known
        /\ \A list \in DOMAIN values : index[list] = values[list]
        /\ \A list \in DOMAIN Known \ DOMAIN values : index[list] = Known[list]
    <3>1. CASE index = Known /\ entries = <<>> /\ symbolCount = FirstId
      <4>1. Len(newFactors) = 0 /\ newFactors = <<>>
        BY <2>1, <2>2, <3>1
      <4>2. DOMAIN values = {}
        BY <2>3, <4>1
      <4>3. entries = newFactors /\ symbolCount = FirstId + Len(newFactors)
        BY <3>1, <4>1, KnownAssumption
      <4> QED BY <3>1, <4>2, <4>3
    <3>2. CASE newFactors # <<>> /\ entries = newFactors /\ symbolCount = nextId
               /\ index = [list \in DOMAIN values \cup DOMAIN Known |->
                             IF list \in DOMAIN values THEN values[list] ELSE Known[list]]
      BY <2>2, <3>2
    <3> QED BY <3>1, <3>2 DEF Inv, Tables
  <2>6. ASSUME NEW c \in Cells
        PROVE  /\ Joint(c) \in DOMAIN index /\ index[Joint(c)] = matrix[c]
               /\ matrix[c] >= FirstId => entries[NewId(matrix[c])] = Joint(c)
    <3>1. c \notin todo[Owner(c)]
      BY <2>1, CellFacts DEF Inv, Stripes
    <3>2. CASE Joint(c) \in DOMAIN Known /\ matrix[c] = Known[Joint(c)]
      <4>1. Joint(c) \notin DOMAIN values
        BY <2>3, <2>4, <3>2
      <4>2. matrix[c] \in 0..(FirstId - 1)
        BY <3>2, KnownAssumption
      <4> QED BY <2>5, <3>2, <4>1, <4>2, KnownAssumption
    <3>3. CASE HasNewId(c, matrix[c])
      <4>1. PICK i \in 1..Len(newFactors) : newFactors[i] = Joint(c) /\ matrix[c] = FirstId + i - 1
        BY <3>3 DEF HasNewId
      <4>2. Joint(c) \in DOMAIN values
        BY <2>4, <4>1
      <4>3. values[Joint(c)] = FirstId + i - 1
        BY <4>1 DEF Inv, NewLists
      <4>4. NewId(matrix[c]) = i
        BY <4>1, KnownAssumption DEF NewId
      <4> QED BY <2>5, <4>1, <4>2, <4>3, <4>4
    <3> QED BY <3>1, <3>2, <3>3 DEF Inv, Answered
  <2> QED BY <2>1, <2>5, <2>6
<1> QED BY <1>1, Invariance, PTL

(* A step that writes a cell is a step of the sequential registry, and any *)
(* other changes neither cells nor new lists.                              *)
LEMMA StepImplements == ASSUME Inv, [Next]_vars PROVE [Registry!Next]_(Registry!vars)
<1> USE DEF Inv
<1>1. ASSUME UNCHANGED <<newFactors, matrix>> PROVE [Registry!Next]_(Registry!vars)
  BY <1>1 DEF Registry!vars
<1>2. ASSUME NEW w \in Workers, NEW c \in Cells, IsCurrent(w, c), Fill(w, c),
             ~UNCHANGED <<newFactors, matrix>>
      PROVE  Registry!Next
  <2>1. matrix[c] = Blank
    BY <1>2 DEF IsCurrent, Stripes, Answered
  <2>2. newFactors \in Seq(Joints) /\ DOMAIN newFactors = 1..Len(newFactors)
    BY DEF NewLists
  <2>3. CASE Lookup(w, c)
    <3>1. /\ Joint(c) \in DOMAIN Known /\ newFactors' = newFactors
          /\ matrix' = [matrix EXCEPT ![c] = Known[Joint(c)]]
      BY <1>2, <2>3, IndexIsKnown DEF Lookup, Answer, shared
    <3> QED BY <2>1, <3>1 DEF Registry!Next, Registry!Resolve, Registry!UseKnown, Registry!Fill
  <2>4. CASE Search(w, c) \/ Recheck(w, c)
    <3>1. /\ Joint(c) \in DOMAIN values /\ newFactors' = newFactors
          /\ matrix' = [matrix EXCEPT ![c] = values[Joint(c)]]
      BY <1>2, <2>4 DEF Search, Recheck, Answer, shared
    <3>2. HasNewId(c, values[Joint(c)])
      BY <2>4, <3>1, FoundIsNew DEF Search, Recheck
    <3>3. PICK i \in DOMAIN newFactors : /\ newFactors[i] = Joint(c)
                                         /\ values[Joint(c)] = FirstId + i - 1
      BY <2>2, <3>2 DEF HasNewId
    <3> QED BY <2>1, <3>1, <3>3 DEF Registry!Next, Registry!Resolve, Registry!UseNew, Registry!Fill
  <2>5. CASE Push(w, c)
    <3>1. /\ Joint(c) \notin DOMAIN Known
          /\ Joint(c) \in DOMAIN values /\ values[Joint(c)] = nextId
      BY <1>2, <2>5 DEF Push, Progress, Missed
    <3>2. \A i \in DOMAIN newFactors : newFactors[i] # Joint(c)
      BY <2>2, <3>1, KnownAssumption DEF NewLists
    <3>3. /\ newFactors' = Append(newFactors, Joint(c))
          /\ matrix' = [matrix EXCEPT ![c] = FirstId + Len(newFactors)]
      BY <2>5 DEF Push, Answer, NewLists
    <3> QED BY <2>1, <3>1, <3>2, <3>3 DEF Registry!Next, Registry!Resolve, Registry!Create, Registry!Fill
  <2>6. CASE ReadLock(w, c) \/ WriteLock(w, c) \/ AddToTree(w, c)
    BY <1>2, <2>6 DEF ReadLock, WriteLock, AddToTree, shared
  <2> QED BY <1>2, <2>3, <2>4, <2>5, <2>6 DEF Fill
<1>3. ASSUME NEW w \in Workers, Finish(w) PROVE UNCHANGED <<newFactors, matrix>>
  BY <1>3 DEF Finish, shared
<1>4. CASE Register \/ UNCHANGED vars
  BY <1>1, <1>4 DEF Register, vars, shared
<1> QED BY <1>1, <1>2, <1>3, <1>4, StepCases

(* However many workers there are, they give the cells symbols as the      *)
(* single-threaded code does, one cell at a time.                          *)
THEOREM Implements == Spec => ImplementsRegistry
<1>1. Init => Registry!Init
  BY DEF Init, Registry!Init
<1>2. Inv /\ [Next]_vars => [Registry!Next]_(Registry!vars)
  BY StepImplements
<1> QED BY <1>1, <1>2, Invariance, PTL DEF Spec, ImplementsRegistry, Registry!Spec
=============================================================================
