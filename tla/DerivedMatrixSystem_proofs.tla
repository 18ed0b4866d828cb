---------------------- MODULE DerivedMatrixSystem_proofs ----------------------
(***************************************************************************)
(* Proofs about a matrix system and one derived from it, for any number of *)
(* threads, any calls and any matrices.                                    *)
(***************************************************************************)
EXTENDS DerivedMatrixSystem, TLAPS

Labels == {"idle", "read", "find", "write", "push", "create", "source_read", "source_find",
           "source_write", "source_create", "transform"}

AnyCall == [index : {"base", "derived"}, key : Keys]
     \cup [index : {"source"}, key : Nat]
     \cup [index : {"none"}, key : {Unindexed}]

TypeOK ==
  /\ pc \in [Threads -> Labels]
  /\ todo \in [Threads -> SUBSET AnyCall]
  /\ call \in [Threads -> AnyCall]
  /\ source \in [Threads -> Nat]
  /\ matrices \in [base : Seq(Keys \cup {Unindexed}), derived : Seq(Nat)]
  /\ index = [base |-> index.base, derived |-> index.derived, source |-> index.source]
  /\ index.base \in [DOMAIN index.base -> Nat] /\ DOMAIN index.base \subseteq Keys
  /\ index.derived \in [DOMAIN index.derived -> Nat]
  /\ index.source \in [DOMAIN index.source -> Nat]
  /\ readers \in [{"base", "derived"} -> SUBSET Threads]
  /\ writer \in [{"base", "derived"} -> Threads \cup {Nobody}]

(* The offset that index i has for k is that of a matrix that is there.    *)
InRange(i, k, system) == index[i][k] < Len(matrices[system])

(* What a thread may rely on before it makes a derived matrix: it holds the *)
(* derived system's mutex since it saw that there is none.                 *)
MakesDerived(t) ==
  pc[t] \in {"source_read", "source_find", "source_write", "source_create", "transform"}

ThreadInv(t) ==
  /\ pc[t] \in {"read", "find", "create"} => call[t].index # "none"
  /\ pc[t] = "push" => call[t].index = "none"
  /\ MakesDerived(t) => /\ call[t].index \in {"derived", "source"}
                        /\ writer.derived = t
                        /\ call[t].key \notin DOMAIN index[call[t].index]
  /\ pc[t] = "create" /\ System(call[t]) = "derived" => writer.derived = t
  /\ pc[t] \in {"source_write", "source_create"} => call[t].index = "derived"
  /\ pc[t] = "transform" =>
       \/ call[t].index = "source" /\ source[t] = call[t].key
       \/ /\ call[t].index = "derived" /\ call[t].key \in DOMAIN index.base
          /\ source[t] = index.base[call[t].key]

IndexInv ==
  /\ \A k \in DOMAIN index.base : InRange("base", k, "base")
  /\ \A k \in DOMAIN index.derived : InRange("derived", k, "derived")
  /\ \A o \in DOMAIN index.source : InRange("source", o, "derived")
  /\ IndexedMatrices
  /\ NoOrphans

Inv == TypeOK /\ IndexInv /\ \A t \in Threads : ThreadInv(t)

-----------------------------------------------------------------------------
LEMMA InitInv == Init => Inv
<1> SUFFICES ASSUME Init PROVE Inv
  OBVIOUS
<1> USE DEF Init
<1>1. <<>> \in Seq(Keys \cup {Unindexed}) /\ <<>> \in Seq(Nat)
  OBVIOUS
<1>2. DOMAIN <<>> = {} /\ <<>> \in [DOMAIN <<>> -> Nat]
  OBVIOUS
<1>3. matrices \in [base : Seq(Keys \cup {Unindexed}), derived : Seq(Nat)]
  BY <1>1
<1>4. TypeOK
  BY <1>2, <1>3, CallsAssumption DEF TypeOK, Labels, AnyCall
<1>5. IndexedMatrices /\ NoOrphans
  BY <1>2 DEF IndexedMatrices, NoOrphans, Offsets
<1>6. IndexInv
  BY <1>2, <1>5 DEF IndexInv
<1>7. \A t \in Threads : ThreadInv(t)
  BY DEF ThreadInv, MakesDerived
<1>8. QED BY <1>4, <1>6, <1>7 DEF Inv

-----------------------------------------------------------------------------
(* What the steps that add matrices do to the matrices and the indices.    *)

BaseGrows ==
  /\ \A k \in DOMAIN index.base : k \in DOMAIN index'.base /\ index'.base[k] = index.base[k]
  /\ DOMAIN index'.base \subseteq Keys
  /\ index' = [base |-> index'.base, derived |-> index'.derived, source |-> index'.source]
  /\ index'.base \in [DOMAIN index'.base -> Nat]
  /\ index'.derived \in [DOMAIN index'.derived -> Nat]
  /\ index'.source \in [DOMAIN index'.source -> Nat]
  /\ matrices' \in [base : Seq(Keys \cup {Unindexed}), derived : Seq(Nat)]

LEMMA AddToBaseFact ==
  ASSUME TypeOK, IndexInv, NEW key \in Keys, key \notin DOMAIN index.base, AddToBase(key)
  PROVE  /\ IndexInv' /\ BaseGrows
         /\ key \in DOMAIN index'.base
         /\ index'.derived = index.derived /\ index'.source = index.source
<1> DEFINE n == Len(matrices.base)
<1>1. /\ n \in Nat /\ matrices.base \in Seq(Keys \cup {Unindexed}) /\ matrices.derived \in Seq(Nat)
      /\ matrices = [base |-> matrices.base, derived |-> matrices.derived]
  BY DEF TypeOK
<1>2. /\ matrices'.derived = matrices.derived
      /\ matrices'.base = Append(matrices.base, key)
      /\ matrices' \in [base : Seq(Keys \cup {Unindexed}), derived : Seq(Nat)]
  <2>1. matrices' = [base |-> Append(matrices.base, key), derived |-> matrices.derived]
    BY <1>1 DEF AddToBase
  <2>2. Append(matrices.base, key) \in Seq(Keys \cup {Unindexed})
    BY <1>1
  <2>3. QED BY <1>1, <2>1, <2>2
<1>3. /\ Len(matrices'.base) = n + 1 /\ matrices'.base[n + 1] = key
      /\ \A i \in 1 .. n : matrices'.base[i] = matrices.base[i]
      /\ DOMAIN matrices'.base = 1 .. n + 1 /\ DOMAIN matrices.base = 1 .. n
  BY <1>1, <1>2
<1>4. /\ index' = [base |-> index'.base, derived |-> index'.derived, source |-> index'.source]
      /\ index'.base = Insert(index.base, key, n)
      /\ index'.derived = index.derived /\ index'.source = index.source
  BY DEF TypeOK, AddToBase
<1>5. /\ DOMAIN index'.base = DOMAIN index.base \cup {key} /\ index'.base[key] = n
      /\ \A k \in DOMAIN index.base : index'.base[k] = index.base[k]
  BY <1>4 DEF Insert
<1>6. index'.base \in [DOMAIN index'.base -> Nat]
  BY <1>1, <1>4, <1>5 DEF TypeOK, Insert
<1>7. BaseGrows
  BY <1>2, <1>4, <1>5, <1>6 DEF BaseGrows, TypeOK
<1>8. IndexedMatrices' /\ \A k \in DOMAIN index'.base : index'.base[k] < Len(matrices'.base)
  BY <1>1, <1>2, <1>3, <1>4, <1>5 DEF IndexInv, IndexedMatrices, InRange, TypeOK
<1>9. NoOrphans'
  <2>1. Offsets("derived")' \cup Offsets("source")' = {i - 1 : i \in DOMAIN matrices'.derived}
    BY <1>2, <1>4 DEF IndexInv, NoOrphans, Offsets
  <2>2. Offsets("base")' = Offsets("base") \cup {n}
    BY <1>5 DEF Offsets
  <2>3. {i - 1 : i \in {j \in DOMAIN matrices'.base : matrices'.base[j] # Unindexed}}
          = {i - 1 : i \in {j \in DOMAIN matrices.base : matrices.base[j] # Unindexed}} \cup {n}
    <3> DEFINE indexed == {j \in DOMAIN matrices.base : matrices.base[j] # Unindexed}
               indexed1 == {j \in DOMAIN matrices'.base : matrices'.base[j] # Unindexed}
    <3>1. indexed1 = indexed \cup {n + 1} /\ indexed \subseteq Nat
      BY <1>1, <1>3, UnindexedAssumption
    <3> HIDE DEF indexed, indexed1
    <3>2. {i - 1 : i \in indexed1} = {i - 1 : i \in indexed} \cup {(n + 1) - 1}
      BY <3>1
    <3>3. QED BY <1>1, <3>2 DEF indexed, indexed1
  <2>4. QED BY <2>1, <2>2, <2>3 DEF IndexInv, NoOrphans
<1>10. QED BY <1>2, <1>4, <1>5, <1>7, <1>8, <1>9 DEF IndexInv, InRange

LEMMA PushFact ==
  ASSUME TypeOK, IndexInv, UNCHANGED index,
         matrices' = [matrices EXCEPT !.base = Append(@, Unindexed)]
  PROVE  IndexInv' /\ BaseGrows
<1> DEFINE n == Len(matrices.base)
<1>1. /\ n \in Nat /\ matrices.base \in Seq(Keys \cup {Unindexed}) /\ matrices.derived \in Seq(Nat)
      /\ matrices = [base |-> matrices.base, derived |-> matrices.derived]
  BY DEF TypeOK
<1>2. /\ matrices'.derived = matrices.derived
      /\ matrices'.base = Append(matrices.base, Unindexed)
      /\ matrices' \in [base : Seq(Keys \cup {Unindexed}), derived : Seq(Nat)]
  <2>1. matrices' = [base |-> Append(matrices.base, Unindexed), derived |-> matrices.derived]
    BY <1>1
  <2>2. Append(matrices.base, Unindexed) \in Seq(Keys \cup {Unindexed})
    BY <1>1
  <2>3. QED BY <1>1, <2>1, <2>2
<1>3. /\ Len(matrices'.base) = n + 1 /\ matrices'.base[n + 1] = Unindexed
      /\ \A i \in 1 .. n : matrices'.base[i] = matrices.base[i]
      /\ DOMAIN matrices'.base = 1 .. n + 1 /\ DOMAIN matrices.base = 1 .. n
  BY <1>1, <1>2
<1>4. BaseGrows
  BY <1>2 DEF BaseGrows, TypeOK
<1>5. IndexedMatrices' /\ \A k \in DOMAIN index'.base : index'.base[k] < Len(matrices'.base)
  BY <1>1, <1>2, <1>3 DEF IndexInv, IndexedMatrices, InRange, TypeOK
<1>6. {j \in DOMAIN matrices'.base : matrices'.base[j] # Unindexed}
        = {j \in DOMAIN matrices.base : matrices.base[j] # Unindexed}
  BY <1>1, <1>3
<1>7. NoOrphans'
  <2>1. Offsets("base")' = Offsets("base") /\ Offsets("derived")' = Offsets("derived")
        /\ Offsets("source")' = Offsets("source")
    BY DEF Offsets
  <2>2. {i - 1 : i \in {j \in DOMAIN matrices'.base : matrices'.base[j] # Unindexed}}
          = {i - 1 : i \in {j \in DOMAIN matrices.base : matrices.base[j] # Unindexed}}
    BY <1>6
  <2>3. QED BY <1>2, <2>1, <2>2 DEF IndexInv, NoOrphans
<1>8. QED BY <1>2, <1>4, <1>5, <1>7 DEF IndexInv, InRange

(* A new derived matrix: the mutex held since the second look makes sure   *)
(* that the index the call asked has none yet.                             *)
LEMMA TransformFact ==
  ASSUME TypeOK, IndexInv, NEW t \in Threads, ThreadInv(t), Transform(t)
  PROVE  IndexInv' /\ BaseGrows /\ index'.base = index.base
<1> DEFINE n == Len(matrices.derived)  c == call[t]
<1>1. /\ n \in Nat /\ matrices.base \in Seq(Keys \cup {Unindexed}) /\ matrices.derived \in Seq(Nat)
      /\ matrices = [base |-> matrices.base, derived |-> matrices.derived] /\ source[t] \in Nat
  BY DEF TypeOK
<1>2. /\ matrices'.base = matrices.base
      /\ matrices'.derived = Append(matrices.derived, source[t])
      /\ matrices' \in [base : Seq(Keys \cup {Unindexed}), derived : Seq(Nat)]
  <2>1. matrices' = [base |-> matrices.base, derived |-> Append(matrices.derived, source[t])]
    BY <1>1 DEF Transform
  <2>2. Append(matrices.derived, source[t]) \in Seq(Nat)
    BY <1>1
  <2>3. QED BY <1>1, <2>1, <2>2
<1>3. /\ Len(matrices'.derived) = n + 1 /\ matrices'.derived[n + 1] = source[t]
      /\ \A i \in 1 .. n : matrices'.derived[i] = matrices.derived[i]
      /\ DOMAIN matrices'.derived = 1 .. n + 1 /\ DOMAIN matrices.derived = 1 .. n
  BY <1>1, <1>2
<1>4. \A x \in Nat : x < n => matrices'.derived[x + 1] = matrices.derived[x + 1] /\ x < Len(matrices'.derived)
  <2>1. \A x \in Nat : x < n => x + 1 \in 1 .. n /\ x < n + 1
    BY <1>1
  <2>2. QED BY <1>3, <2>1
<1>5. {i - 1 : i \in DOMAIN matrices'.derived} = {i - 1 : i \in DOMAIN matrices.derived} \cup {n}
  <2>1. DOMAIN matrices'.derived = DOMAIN matrices.derived \cup {n + 1}
    BY <1>1, <1>3
  <2>2. {i - 1 : i \in DOMAIN matrices'.derived} = {i - 1 : i \in DOMAIN matrices.derived} \cup {(n + 1) - 1}
    BY <2>1
  <2>3. QED BY <1>1, <2>2
<1>6. CASE c.index = "source"
  <2>1. /\ index' = [base |-> index.base, derived |-> index.derived, source |-> Insert(index.source, c.key, n)]
    BY <1>6 DEF Transform, Notified, TypeOK
  <2>2. c.key = source[t] /\ c.key \notin DOMAIN index.source
    BY <1>6 DEF ThreadInv, MakesDerived, Transform
  <2>3. /\ DOMAIN index'.source = DOMAIN index.source \cup {c.key} /\ index'.source[c.key] = n
        /\ \A k \in DOMAIN index.source : index'.source[k] = index.source[k]
    BY <2>1, <2>2 DEF Insert
  <2>4. index'.source \in [DOMAIN index'.source -> Nat]
    BY <1>1, <2>1, <2>3 DEF TypeOK, Insert
  <2>5. BaseGrows
    BY <1>2, <2>1, <2>4 DEF BaseGrows, TypeOK
  <2>6. \A k \in DOMAIN index'.derived : /\ k \in DOMAIN index'.base
                                          /\ index'.derived[k] < Len(matrices'.derived)
                                          /\ matrices'.derived[index'.derived[k] + 1] = index'.base[k]
    <3> SUFFICES ASSUME NEW k \in DOMAIN index.derived
                 PROVE  /\ k \in DOMAIN index.base /\ index.derived[k] < Len(matrices'.derived)
                        /\ matrices'.derived[index.derived[k] + 1] = index.base[k]
      BY <2>1
    <3>1. /\ k \in DOMAIN index.base /\ index.derived[k] \in Nat /\ index.derived[k] < n
          /\ matrices.derived[index.derived[k] + 1] = index.base[k]
      BY DEF IndexInv, IndexedMatrices, InRange, TypeOK
    <3>2. QED BY <1>4, <2>1, <3>1
  <2>7. \A o \in DOMAIN index'.source : /\ index'.source[o] < Len(matrices'.derived)
                                         /\ matrices'.derived[index'.source[o] + 1] = o
    <3> SUFFICES ASSUME NEW o \in DOMAIN index'.source
                 PROVE  /\ index'.source[o] < Len(matrices'.derived)
                        /\ matrices'.derived[index'.source[o] + 1] = o
      OBVIOUS
    <3>1. CASE o = c.key
      BY <1>1, <1>3, <2>2, <2>3, <3>1
    <3>2. CASE o \in DOMAIN index.source
      <4>1. index.source[o] \in Nat /\ index.source[o] < n /\ matrices.derived[index.source[o] + 1] = o
        BY <3>2 DEF IndexInv, IndexedMatrices, InRange, TypeOK
      <4>2. QED BY <1>4, <2>3, <3>2, <4>1
    <3>3. QED BY <2>3, <3>1, <3>2
  <2>8. Offsets("source")' = Offsets("source") \cup {n} /\ Offsets("derived")' = Offsets("derived")
        /\ Offsets("base")' = Offsets("base")
    BY <2>1, <2>3 DEF Offsets
  <2>9. NoOrphans'
    BY <1>2, <1>5, <2>8 DEF IndexInv, NoOrphans
  <2>10. IndexedMatrices' /\ \A k \in DOMAIN index'.base : index'.base[k] < Len(matrices'.base)
    BY <1>2, <2>1, <2>6, <2>7 DEF IndexInv, IndexedMatrices, InRange
  <2>11. QED BY <1>2, <2>1, <2>5, <2>6, <2>7, <2>9, <2>10 DEF IndexInv, InRange
<1>7. CASE c.index = "derived"
  <2> DEFINE s == index.base[c.key]
  <2>1. /\ index' = [base |-> index.base, derived |-> Insert(index.derived, c.key, n),
                     source |-> Insert(index.source, s, n)]
    BY <1>7 DEF Transform, Notified, TypeOK
  <2>2. /\ c.key \in DOMAIN index.base /\ s = source[t] /\ c.key \notin DOMAIN index.derived
    BY <1>7 DEF ThreadInv, MakesDerived, Transform
  <2>3. /\ DOMAIN index'.derived = DOMAIN index.derived \cup {c.key} /\ index'.derived[c.key] = n
        /\ \A k \in DOMAIN index.derived : index'.derived[k] = index.derived[k]
    BY <2>1, <2>2 DEF Insert
  <2>4. /\ DOMAIN index'.source = DOMAIN index.source \cup {s}
        /\ index'.source[s] = IF s \in DOMAIN index.source THEN index.source[s] ELSE n
        /\ \A k \in DOMAIN index.source : index'.source[k] = index.source[k]
    BY <2>1, <2>2 DEF Insert
  <2>5. index'.derived \in [DOMAIN index'.derived -> Nat]
    BY <1>1, <2>1, <2>3 DEF TypeOK, Insert
  <2>6. index'.source \in [DOMAIN index'.source -> Nat]
    BY <1>1, <2>1, <2>4 DEF TypeOK, Insert
  <2>7. BaseGrows
    BY <1>2, <2>1, <2>5, <2>6 DEF BaseGrows, TypeOK
  <2>8. /\ \A k \in DOMAIN index'.derived :
               /\ k \in DOMAIN index'.base /\ index'.derived[k] < Len(matrices'.derived)
               /\ matrices'.derived[index'.derived[k] + 1] = index'.base[k]
    <3> SUFFICES ASSUME NEW k \in DOMAIN index'.derived
                 PROVE  /\ k \in DOMAIN index'.base /\ index'.derived[k] < Len(matrices'.derived)
                        /\ matrices'.derived[index'.derived[k] + 1] = index'.base[k]
      OBVIOUS
    <3>1. CASE k = c.key
      BY <1>1, <1>3, <2>1, <2>2, <2>3, <3>1
    <3>2. CASE k \in DOMAIN index.derived
      <4>1. /\ k \in DOMAIN index.base /\ index.derived[k] \in Nat /\ index.derived[k] < n
            /\ matrices.derived[index.derived[k] + 1] = index.base[k]
        BY <3>2 DEF IndexInv, IndexedMatrices, InRange, TypeOK
      <4>2. QED BY <1>4, <2>1, <2>3, <3>2, <4>1
    <3>3. QED BY <2>3, <3>1, <3>2
  <2>9. /\ \A o \in DOMAIN index'.source :
               /\ index'.source[o] < Len(matrices'.derived)
               /\ matrices'.derived[index'.source[o] + 1] = o
    <3> SUFFICES ASSUME NEW o \in DOMAIN index'.source
                 PROVE  /\ index'.source[o] < Len(matrices'.derived)
                        /\ matrices'.derived[index'.source[o] + 1] = o
      OBVIOUS
    <3>1. CASE o \notin DOMAIN index.source
      BY <1>1, <1>3, <2>2, <2>4, <3>1
    <3>2. CASE o \in DOMAIN index.source
      <4>1. index.source[o] \in Nat /\ index.source[o] < n /\ matrices.derived[index.source[o] + 1] = o
        BY <3>2 DEF IndexInv, IndexedMatrices, InRange, TypeOK
      <4>2. QED BY <1>4, <2>4, <3>2, <4>1
    <3>3. QED BY <3>1, <3>2
  <2>10. Offsets("derived")' = Offsets("derived") \cup {n} /\ Offsets("base")' = Offsets("base")
    BY <2>1, <2>3 DEF Offsets
  <2>11. Offsets("source")' \in {Offsets("source"), Offsets("source") \cup {n}}
    <3>1. CASE s \in DOMAIN index.source
      BY <2>4, <3>1 DEF Offsets
    <3>2. CASE s \notin DOMAIN index.source
      BY <2>4, <3>2 DEF Offsets
    <3>3. QED BY <3>1, <3>2
  <2>12. NoOrphans'
    BY <1>2, <1>5, <2>10, <2>11 DEF IndexInv, NoOrphans
  <2>13. IndexedMatrices' /\ \A k \in DOMAIN index'.base : index'.base[k] < Len(matrices'.base)
    BY <1>2, <2>1, <2>8, <2>9 DEF IndexInv, IndexedMatrices, InRange
  <2>14. QED BY <1>2, <2>1, <2>7, <2>8, <2>9, <2>12, <2>13 DEF IndexInv, InRange
<1>8. QED BY <1>6, <1>7 DEF ThreadInv, Transform, MakesDerived

LEMMA SameFact ==
  ASSUME TypeOK, IndexInv, UNCHANGED <<matrices, index>>
  PROVE  IndexInv' /\ BaseGrows
<1>1. NoOrphans'
  BY DEF IndexInv, NoOrphans, Offsets
<1>2. IndexedMatrices'
  BY DEF IndexInv, IndexedMatrices
<1>3. IndexInv'
  BY <1>1, <1>2 DEF IndexInv, InRange
<1>4. QED BY <1>3 DEF BaseGrows, TypeOK

LEMMA CreateFact ==
  ASSUME TypeOK, IndexInv, NEW key \in Keys, CreateInBase(key)
  PROVE  /\ IndexInv' /\ BaseGrows /\ key \in DOMAIN index'.base
         /\ index'.derived = index.derived /\ index'.source = index.source
<1>1. CASE key \in DOMAIN index.base
  BY <1>1, SameFact DEF CreateInBase
<1>2. CASE key \notin DOMAIN index.base
  BY <1>2, AddToBaseFact DEF CreateInBase
<1>3. QED BY <1>1, <1>2

(* Whatever a thread does, the indices stay right and entries stay.        *)
LEMMA MatricesStep ==
  ASSUME TypeOK, IndexInv, NEW t \in Threads, ThreadInv(t), Thread(t)
  PROVE  /\ IndexInv' /\ BaseGrows
         /\ Transform(t) \/ (index'.derived = index.derived /\ index'.source = index.source)
<1>1. CASE UNCHANGED <<matrices, index>>
  BY <1>1, SameFact
<1>2. CASE PushBack(t)
  BY <1>2, PushFact DEF PushBack
<1>3. CASE CreatePart(t)
  <2>1. call[t].key \in Keys
    BY <1>3 DEF CreatePart, TypeOK, AnyCall, ThreadInv
  <2>2. PICK i \in MissingParts(call[t].key) : AddToBase(Parts[call[t].key][i])
    BY <1>3 DEF CreatePart
  <2>3. i \in DOMAIN Parts[call[t].key] /\ Parts[call[t].key][i] \notin DOMAIN index.base
    BY <2>2 DEF MissingParts
  <2>4. Parts[call[t].key][i] \in Keys
    BY <2>1, <2>3, PartsAssumption
  <2>5. QED BY <2>2, <2>3, <2>4, AddToBaseFact
<1>4. CASE Create(t)
  <2>1. call[t].key \in Keys
    BY <1>4 DEF Create, TypeOK, AnyCall
  <2>2. QED BY <1>4, <2>1, CreateFact DEF Create
<1>5. CASE SourceCreate(t)
  <2>1. call[t].key \in Keys
    BY <1>5 DEF SourceCreate, TypeOK, AnyCall, ThreadInv
  <2>2. QED BY <1>5, <2>1, CreateFact DEF SourceCreate
<1>6. CASE Transform(t)
  BY <1>6, TransformFact
<1>7. CASE \/ StartCall(t) \/ ReadLock(t) \/ Find(t) \/ WriteLock(t) \/ CreateDerived(t) \/ SourceReadLock(t)
           \/ SourceFind(t) \/ SourceAt(t) \/ SourceWriteLock(t)
  BY <1>1, <1>7 DEF StartCall, ReadLock, Find, WriteLock, CreateDerived, SourceReadLock, SourceFind, SourceAt,
     SourceWriteLock
<1>8. QED BY <1>2, <1>3, <1>4, <1>5, <1>6, <1>7 DEF Thread

-----------------------------------------------------------------------------
(* The locks, and what a thread knows.                                     *)

LockType ==
  /\ readers \in [{"base", "derived"} -> SUBSET Threads]
  /\ writer \in [{"base", "derived"} -> Threads \cup {Nobody}]

LEMMA LockStep ==
  ASSUME LockType, NEW t \in Threads, NEW s \in {"base", "derived"},
         \/ AcquireRead(t, s) \/ ReleaseRead(t, s) \/ AcquireWrite(t, s) \/ ReleaseWrite(s)
         \/ UNCHANGED lock
  PROVE  LockType'
  BY DEF LockType, AcquireRead, ReleaseRead, AcquireWrite, ReleaseWrite, lock

LEMMA TypeStep ==
  ASSUME TypeOK, IndexInv, NEW t \in Threads, ThreadInv(t), Thread(t)
  PROVE  TypeOK'
<1> DEFINE Rest == /\ pc \in [Threads -> Labels] /\ todo \in [Threads -> SUBSET AnyCall]
                   /\ call \in [Threads -> AnyCall] /\ source \in [Threads -> Nat]
<1> USE DEF Goto, Labels
<1>1. BaseGrows /\ Rest /\ LockType
  BY MatricesStep DEF TypeOK, LockType
<1>2. SUFFICES Rest' /\ LockType'
  BY <1>1 DEF BaseGrows, TypeOK, LockType
<1>3. System(call[t]) \in {"base", "derived"}
  BY DEF System
<1>4. CASE StartCall(t)
  BY <1>1, <1>4, LockStep DEF StartCall
<1>5. CASE ReadLock(t) \/ Find(t) \/ WriteLock(t)
  <2>1. LockType'
    BY <1>1, <1>3, <1>5, LockStep DEF ReadLock, Find, WriteLock
  <2>2. Rest'
    BY <1>1, <1>5 DEF ReadLock, Find, WriteLock
  <2>3. QED BY <2>1, <2>2
<1>6. CASE PushBack(t) \/ CreatePart(t) \/ Create(t) \/ CreateDerived(t)
  <2>1. LockType'
    BY <1>1, <1>6, LockStep DEF PushBack, CreatePart, Create, CreateDerived
  <2>2. Rest'
    BY <1>1, <1>6 DEF PushBack, CreatePart, Create, CreateDerived
  <2>3. QED BY <2>1, <2>2
<1>7. CASE SourceReadLock(t) \/ SourceWriteLock(t)
  <2>1. LockType'
    BY <1>1, <1>7, LockStep DEF SourceReadLock, SourceWriteLock
  <2>2. Rest'
    BY <1>1, <1>7 DEF SourceReadLock, SourceWriteLock
  <2>3. QED BY <2>1, <2>2
<1>8. CASE SourceFind(t)
  <2>1. LockType'
    BY <1>1, <1>8, LockStep DEF SourceFind
  <2>2. call[t].key \in DOMAIN index.base => index.base[call[t].key] \in Nat
    BY DEF TypeOK
  <2>3. Rest'
    BY <1>1, <1>8, <2>2 DEF SourceFind
  <2>4. QED BY <2>1, <2>3
<1>9. CASE SourceAt(t)
  <2>1. call[t].key \in Nat
    BY <1>1, <1>9 DEF SourceAt, AnyCall
  <2>2. LockType'
    BY <1>1, <1>9 DEF SourceAt, LockType, lock
  <2>3. Rest'
    BY <1>1, <1>9, <2>1 DEF SourceAt
  <2>4. QED BY <2>2, <2>3
<1>10. CASE SourceCreate(t)
  <2>1. call[t].key \in Keys
    BY <1>1, <1>10 DEF SourceCreate, AnyCall, ThreadInv
  <2>2. index'.base[call[t].key] \in Nat
    BY <1>1, <1>10, <2>1, CreateFact DEF SourceCreate, BaseGrows
  <2>3. LockType'
    BY <1>1, <1>10, LockStep DEF SourceCreate
  <2>4. Rest'
    BY <1>1, <1>10, <2>2 DEF SourceCreate
  <2>5. QED BY <2>3, <2>4
<1>11. CASE Transform(t)
  <2>1. LockType'
    BY <1>1, <1>11 DEF Transform, LockType
  <2>2. Rest'
    BY <1>1, <1>11 DEF Transform
  <2>3. QED BY <2>1, <2>2
<1>12. QED BY <1>4, <1>5, <1>6, <1>7, <1>8, <1>9, <1>10, <1>11 DEF Thread

LEMMA OtherThreads ==
  ASSUME TypeOK, IndexInv, NEW t \in Threads, NEW u \in Threads \ {t},
         ThreadInv(t), ThreadInv(u), Thread(t)
  PROVE  ThreadInv(u)'
<1>1. pc'[u] = pc[u] /\ call'[u] = call[u] /\ source'[u] = source[u]
  <2> USE DEF TypeOK, Goto
  <2>1. CASE StartCall(t) \/ ReadLock(t) \/ Find(t) \/ WriteLock(t) \/ PushBack(t) \/ CreatePart(t) \/ Create(t)
    BY <2>1 DEF StartCall, ReadLock, Find, WriteLock, PushBack, CreatePart, Create
  <2>2. CASE CreateDerived(t) \/ SourceReadLock(t) \/ SourceFind(t) \/ SourceAt(t) \/ SourceWriteLock(t)
             \/ SourceCreate(t) \/ Transform(t)
    BY <2>2 DEF CreateDerived, SourceReadLock, SourceFind, SourceAt, SourceWriteLock, SourceCreate, Transform
  <2>3. QED BY <2>1, <2>2 DEF Thread
<1>2. writer.derived = u => writer'.derived = u
  <2> USE NobodyAssumption DEF TypeOK, Goto, AcquireRead, ReleaseRead, AcquireWrite, ReleaseWrite, lock, System,
          ThreadInv, MakesDerived
  <2>1. CASE StartCall(t) \/ ReadLock(t) \/ Find(t) \/ PushBack(t) \/ CreatePart(t) \/ Create(t)
    BY <2>1 DEF StartCall, ReadLock, Find, PushBack, CreatePart, Create
  <2>2. CASE WriteLock(t)
    BY <2>2 DEF WriteLock
  <2>3. CASE CreateDerived(t)
    BY <2>3 DEF CreateDerived
  <2>4. CASE SourceReadLock(t) \/ SourceFind(t) \/ SourceWriteLock(t) \/ SourceCreate(t)
    BY <2>4 DEF SourceReadLock, SourceFind, SourceWriteLock, SourceCreate
  <2>5. CASE SourceAt(t) \/ Transform(t)
    BY <2>5 DEF SourceAt, Transform
  <2>6. QED BY <2>1, <2>2, <2>3, <2>4, <2>5 DEF Thread
<1>3. writer.derived = u => index'.derived = index.derived /\ index'.source = index.source
  BY MatricesStep DEF Transform, ThreadInv, MakesDerived
<1>4. \A k \in DOMAIN index.base : k \in DOMAIN index'.base /\ index'.base[k] = index.base[k]
  BY MatricesStep DEF BaseGrows
<1>5. MakesDerived(u)' = MakesDerived(u) /\ System(call[u])' = System(call[u])
  BY <1>1 DEF MakesDerived, System
<1>6. MakesDerived(u) => call[u].key \notin DOMAIN index'[call[u].index]
  BY <1>3 DEF ThreadInv
<1>7. QED BY <1>1, <1>2, <1>4, <1>5, <1>6 DEF ThreadInv

LEMMA OwnStep ==
  ASSUME TypeOK, IndexInv, NEW t \in Threads, ThreadInv(t), Thread(t)
  PROVE  ThreadInv(t)'
<1> USE DEF TypeOK, ThreadInv, MakesDerived, Goto
<1>1. CASE StartCall(t)
  BY <1>1 DEF StartCall
<1>2. CASE ReadLock(t) \/ Find(t)
  BY <1>2 DEF ReadLock, Find
<1>3. CASE WriteLock(t)
  BY <1>3 DEF WriteLock, AcquireWrite, System
<1>4. CASE PushBack(t) \/ Create(t)
  BY <1>4 DEF PushBack, Create
<1>5. CASE CreatePart(t)
  <2>1. index'.derived = index.derived /\ index'.source = index.source
    BY <1>5, MatricesStep DEF CreatePart, Transform
  <2>2. QED BY <1>5, <2>1 DEF CreatePart, lock, System
<1>6. CASE CreateDerived(t)
  BY <1>6 DEF CreateDerived, lock, System, AnyCall
<1>7. CASE SourceReadLock(t) \/ SourceWriteLock(t)
  BY <1>7 DEF SourceReadLock, SourceWriteLock, AcquireRead, AcquireWrite
<1>8. CASE SourceFind(t)
  BY <1>8 DEF SourceFind, ReleaseRead
<1>9. CASE SourceAt(t)
  BY <1>9 DEF SourceAt, lock
<1>10. CASE SourceCreate(t)
  <2>1. call[t].index = "derived" /\ call[t].key \in Keys
    BY <1>10 DEF SourceCreate, AnyCall
  <2>2. /\ index'.derived = index.derived
        /\ call[t].key \in DOMAIN index'.base
    BY <1>10, <2>1, CreateFact DEF SourceCreate
  <2>3. QED BY <1>10, <2>1, <2>2 DEF SourceCreate, ReleaseWrite
<1>11. CASE Transform(t)
  BY <1>11 DEF Transform
<1>12. QED BY <1>1, <1>2, <1>3, <1>4, <1>5, <1>6, <1>7, <1>8, <1>9, <1>10, <1>11 DEF Thread

-----------------------------------------------------------------------------
LEMMA Invariant == Spec => []Inv
<1>1. Inv /\ [Next]_vars => Inv'
  <2> SUFFICES ASSUME Inv, [Next]_vars PROVE Inv'
    OBVIOUS
  <2>1. CASE UNCHANGED vars
    <3>1. IndexInv'
      BY <2>1, SameFact DEF Inv, vars
    <3>2. QED BY <2>1, <3>1 DEF Inv, TypeOK, ThreadInv, MakesDerived, System, vars, lock
  <2>2. ASSUME NEW t \in Threads, Thread(t)
        PROVE  Inv'
    BY <2>2, MatricesStep, TypeStep, OwnStep, OtherThreads DEF Inv
  <2>3. QED BY <2>1, <2>2 DEF Next, Terminated
<1>2. QED BY InitInv, <1>1, PTL DEF Spec

(* The indices of a system and of one derived from it find the matrix they *)
(* were asked for, in whatever order threads make matrices, parts first.   *)
THEOREM IndicesAreRight == Spec => []IndexedMatrices
<1>1. Inv => IndexedMatrices
  BY DEF Inv, IndexInv
<1>2. QED BY <1>1, Invariant, PTL

(* Every matrix that was asked for through an index is found by one: a     *)
(* thread that looks again under the write lock keeps that lock until its  *)
(* matrix is in the index, so that two threads that ask for the same       *)
(* leave none behind. That a derived matrix is found by its key and by its *)
(* offset alike is not said; it may be there twice (AliasIsTheMatrix).     *)
THEOREM MatricesAreFound == Spec => []NoOrphans
<1>1. Inv => NoOrphans
  BY DEF Inv, IndexInv
<1>2. QED BY <1>1, Invariant, PTL
=============================================================================
