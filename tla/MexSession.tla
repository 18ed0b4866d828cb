------------------------------ MODULE MexSession ------------------------------
(***************************************************************************)
(* Clients that call the functions of mtk (mex_functions/) at the same     *)
(* time: each call looks its matrix system up in the storage that all      *)
(* share, and runs its program on it, in steps between which other clients *)
(* take theirs. A step takes a lock, waiting for it if need be, or is what *)
(* the client does until it next asks for a lock.                          *)
(*                                                                         *)
(* A read lock is given while others read, also when somebody waits to     *)
(* write. A call that asks for a write lock under its own read lock waits   *)
(* for ever. What a call holds is released when it returns or throws.      *)
(***************************************************************************)
EXTENDS MexPrograms, PersistentStorage

CONSTANT Scenarios  \* what is in the storage at first, which calls there are, and how many are made

VARIABLES scenario,
          system,  \* the objects stored, by their number; a client keeps the one it works on alive
          call,    \* per client
          made     \* number of calls made so far

sessionVars == <<scenario, system, call, made>>

NewSystem(kind, source, words) ==
  [kind |-> kind, source |-> source, matrices |-> <<>>, index |-> <<>>, known |-> words, unnamed |-> 1,
   books |-> 0, cg |-> 0, fc |-> 0, pt |-> 0, complete |-> {}]

(* `known' are the lengths of words with symbols: at first the empty word. *)
(* The symbol of zero, and symbols that are imported, stand for no words.  *)
FirstWords == {0}

Symbols(S) == Cardinality(S.known) + S.unnamed

(* The key of a request is that of the matrix that the call returns, if    *)
(* its inputs determine it; a call that returns a tensor says so.          *)
KeySuits(r) ==
  /\ r.fn \in {"moment_matrix", "localizing_matrix", "commutator_matrix", "substituted_matrix", "extended_matrix"}
       => r.key # Raw
  /\ r.fn \in {"operator_matrix", "transform_matrix", "generate_basis"} => r.key = NoKey
  /\ r.fn \in {"collins_gisin", "full_correlator", "probability_table", "make_explicit"} <=> r.key = <<"tensor">>

(* Systems are derived from systems that are there before them.            *)
ASSUME ScenariosAssumption ==
  \A s \in Scenarios :
    /\ Len(s.systems) \in Nat
    /\ \A i \in 1 .. Len(s.systems) :
         /\ s.systems[i].source \in 0 .. i - 1
         /\ s.systems[i].kind = "imported" => s.systems[i].words = FirstWords
    /\ \A r \in s.requests : r.fn \in DOMAIN FunctionTable /\ r.n \in Nat /\ KeySuits(r)

Idle == [r |-> [fn |-> "none", key |-> NoKey, n |-> 0], on |-> NoSource, todo |-> <<>>,
         read |-> {}, write |-> {}, answer |-> -1, known |-> {}, complete |-> FALSE]

SessionInit ==
  /\ scenario \in Scenarios
  /\ stored = Len(scenario.systems)
  /\ nextID = stored
  /\ objects = {<<i - 1, i>> : i \in 1 .. stored}
  /\ walk = [c \in Walkers |-> [state |-> "idle", at |-> -1, seen |-> {}, due |-> {}]]
  /\ system = [i \in 1 .. stored |->
       NewSystem(scenario.systems[i].kind, scenario.systems[i].source, scenario.systems[i].words)]
  /\ call = [c \in Walkers |-> Idle]
  /\ made = 0

-----------------------------------------------------------------------------
(* What matrices are made of, and the lengths of the words in them.        *)
Parts(key) == IF key[1] = "polynomial"
              THEN <<<<"localizing", key[2], 0>>, <<"localizing", key[2], 1>>>>
              ELSE <<>>

Words(key) ==
  CASE key[1] \in {"moment", "extended"}                 -> 0 .. 2 * key[2]
    [] key[1] \in {"localizing", "commutator"}           -> key[3] .. 2 * key[2] + key[3]
    [] key[1] \in {"polynomial", "commutatorpolynomial"} -> {0, 1}
    [] key[1] = "sequences"                              -> {key[2]}
    [] key[1] = "words"                                  -> 0 .. key[2]
    [] OTHER                                             -> {}

WordsMade(key) == UNION {Words(k) : k \in {key} \cup Range(Parts(key))}

(* An imported system has no operators to make words of.                   *)
NewWords(S, key) == IF S.kind = "imported" THEN {} ELSE Words(key)

IsMade(S, key)  == key \in DOMAIN S.index
Absent(S, key)  == IF IsMade(S, key) THEN <<>> ELSE <<key>>
Missing(S, key) == IF Parts(key) = <<>> THEN <<>> ELSE Absent(S, Parts(key)[1]) \o Absent(S, Parts(key)[2])

(* Matrices are added at the end; an index keeps the entry that is there.  *)
Insert(index, key, offset) ==
  [k \in DOMAIN index \cup {key} |-> IF k \in DOMAIN index THEN index[k] ELSE offset]

Pushed(S, key)  == [S EXCEPT !.matrices = Append(@, key)]
Indexed(S, key) == [S EXCEPT !.matrices = Append(@, key),
                             !.index = Insert(@, key, Len(S.matrices)),
                             !.known = @ \cup NewWords(S, key)]

(* The parts that are missing, one after the other.                        *)
WithParts(S, key) ==
  LET new       == Missing(S, key)
      offset(k) == Len(S.matrices) + (CHOOSE i \in DOMAIN new : new[i] = k) - 1
  IN  [S EXCEPT !.matrices = @ \o new,
                !.index = [k \in DOMAIN @ \cup Range(new) |-> IF k \in DOMAIN @ THEN @[k] ELSE offset(k)],
                !.known = @ \cup UNION {NewWords(S, k) : k \in Range(new)}]

(* Mutant of WithMatrix: the offset is that from before the parts.         *)
WithMatrixOffsetEarly(S, key) ==
  IF IsMade(S, key)
  THEN S
  ELSE [Indexed(WithParts(S, key), key) EXCEPT !.index = Insert(WithParts(S, key).index, key, Len(S.matrices))]

(* MatrixIndices::create: the second look, then the parts that are         *)
(* missing, then the matrix itself.                                        *)
WithMatrix(S, key) == IF IsMade(S, key) THEN S ELSE Indexed(WithParts(S, key), key)

(* The tensors cover words of two parties. The Collins-Gisin tensor takes  *)
(* its symbols from the table, the others from the Collins-Gisin tensor    *)
(* that they were made with; if that has been replaced, they read what is  *)
(* no longer there, and stay as they are.                                  *)
TensorWords == 0 .. 2

Filled(S, tensor) ==
  IF CASE tensor = "cg" -> TensorWords \subseteq S.known
       [] OTHER         -> "cg" \in S.complete /\ S[tensor] = S.cg
  THEN [S EXCEPT !.complete = @ \cup {tensor}]
  ELSE S

(* The Collins-Gisin tensor is replaced even if somebody else has made it  *)
(* meanwhile; the others are looked for again.                             *)
WithTensor(S, tensor) ==
  CASE tensor = "cg"  -> Filled([S EXCEPT !.cg = @ + 1, !.complete = @ \ {"cg"}], "cg")
    [] tensor # "cg" /\ S[tensor] = 0 -> Filled([S EXCEPT ![tensor] = S.cg], tensor)
    [] OTHER          -> S

HasTensor(S, tensor) == S[tensor] > 0

(* Mutant of WithSymbols: the size of the table is not looked at again; the *)
(* difference is one of unsigned numbers.                                  *)
WithSymbolsUnchecked(S, largest) ==
  [S EXCEPT !.unnamed = @ + ((largest + 1 - Symbols(S)) % 2^IndexWidth)]

WithSymbols(S, largest) ==
  [S EXCEPT !.unnamed = IF largest + 1 > Symbols(S) THEN @ + (largest + 1 - Symbols(S)) ELSE @]

(* What an instruction does to the system; to the rest it does nothing.    *)
After(i, S) ==
  CASE i.do = "create"          -> WithMatrix(S, i.key)
    [] i.do = "append"          -> [Pushed(S, i.key) EXCEPT !.index = Insert(@, i.key, Len(S.matrices))]
    [] i.do \in {"push", "import"} -> Pushed(S, Raw)
    [] i.do = "push polynomial" -> Pushed(WithParts(S, i.key), Raw)
    [] i.do = "register"        -> [S EXCEPT !.known = @ \cup NewWords(S, i.key)]
    [] i.do = "create symbols"  -> WithSymbols(S, i.n)
    [] i.do = "add book"        -> [S EXCEPT !.books = @ + 1]
    [] i.do = "make"            -> WithTensor(S, i.key[1])
    [] i.do = "fill"            -> Filled(S, i.key[1])
    [] OTHER                    -> S

(* A test that succeeds.                                                   *)
Holds(i, S) ==
  CASE i.do \in {"find", "made", "source"} -> IsMade(S, i.key)
    [] i.do = "knows"       -> Words(i.key) \subseteq S.known
    [] i.do = "has symbols" -> i.n + 1 <= Symbols(S)
    [] i.do = "has"         -> HasTensor(S, i.key[1])
    [] i.do = "complete"    -> i.key[1] \in S.complete
    [] OTHER                -> TRUE

(* An instruction that throws. Imported systems make no matrices of words, *)
(* and derived ones none of words too long for their map.                  *)
Throws(i, S) ==
  CASE i.do = "need matrix"  -> i.n >= Len(S.matrices)
    [] i.do \in {"need key", "peek made"} -> ~IsMade(S, i.key)
    [] i.do \in {"need book", "merge book"} -> i.n >= S.books
    [] i.do = "need symbols" -> i.n + 1 > Symbols(S)
    [] i.do = "need words"   -> ~(Words(i.key) \subseteq S.known)
    [] i.do = "need tensor"  -> ~HasTensor(S, i.key[1])
    [] i.do = "import"       -> i.n + 1 > Symbols(S)
    [] i.do = "made"         -> ~IsMade(S, i.key) /\ ~(WordsMade(i.key) \subseteq S.known)
    [] i.do = "create" /\ i.key[1] = "substituted" -> i.key[2] >= Len(S.matrices) \/ i.key[3] >= S.books
    [] i.do = "create" /\ i.key[1] # "substituted" -> S.kind = "imported"
    [] i.do = "make"         -> i.key[1] = "fc" /\ S.kind # "locality"
    [] OTHER                 -> FALSE

(* The index of the matrix an instruction finds or makes.                  *)
AnswerOf(i, S, before) ==
  CASE i.do \in {"create", "find", "made", "peek made"} /\ IsMade(S, i.key) -> S.index[i.key]
    [] i.do \in {"append", "push", "import", "push polynomial"}             -> Len(S.matrices) - 1
    [] i.do = "need matrix"                                                 -> i.n
    [] i.do = "need tensor"                                                 -> 0
    [] OTHER                                                                -> before

-----------------------------------------------------------------------------
(* Calls.                                                                  *)
Running(c) == call[c].todo # <<>>

(* What is left to do once the locks have been released that come first.   *)
Ahead(todo)    == SelectInSeq(todo, LAMBDA i : i.do # "unlock")
Released(todo) == {todo[j].on : j \in {k \in DOMAIN todo : Ahead(todo) = 0 \/ k < Ahead(todo)}}
Left(todo)     == IF Ahead(todo) = 0 THEN <<>> ELSE SubSeq(todo, Ahead(todo), Len(todo))

(* The call after its first instruction, of which it skips the next n; a   *)
(* call that has nothing left to do returns.                               *)
Proceed(p, n) ==
  LET rest == SubSeq(p.todo, n + 2, Len(p.todo))
      left == Left(rest)
  IN  [p EXCEPT !.todo  = left,
                !.read  = IF left = <<>> THEN {} ELSE @ \ Released(rest),
                !.write = IF left = <<>> THEN {} ELSE @ \ Released(rest)]

Return(p) == [p EXCEPT !.todo = <<>>, !.read = {}, !.write = {}, !.answer = -1]

Sorted(r)  == CleanInputs(FunctionTable[r.fn], r.inputs)
Given(r)   == Sorted(r).flags \cup Sorted(r).params

ValidCall(r) ==
  /\ ValidInputs(FunctionTable[r.fn], Sorted(r))
  /\ ~ReadsBeyond(Sorted(r))
  /\ r.fn \in MatrixFunctions => /\ ParsedMatrixInputs(r.fn, FunctionTable[r.fn], Sorted(r))
                                 /\ OutputsSuitMode(Given(r), r.outputs)
  /\ ValidOutputs(FunctionTable[r.fn], r.outputs)

SystemKinds == [locality_matrix_system |-> "locality", algebraic_matrix_system |-> "algebraic",
                imported_matrix_system |-> "imported", inflation_matrix_system |-> "inflation",
                pauli_matrix_system    |-> "pauli"]

CanCall(c, r) == ~Running(c) /\ walk[c].state = "idle" /\ made < scenario.calls /\ r \in scenario.requests

(* A call that is refused at once: its inputs or outputs do not suit, its  *)
(* system is not there or of the wrong kind.                               *)
Suits(r, o) == o # NoObject /\ system[o].kind \in SuitableKinds(r.fn)

Refuse(c, r) ==
  /\ CanCall(c, r)
  /\ ~ValidCall(r) \/ (r.fn \notin DOMAIN SystemKinds \cup WithoutSystem \cup {"list"} /\ ~Suits(r, ObjectAt(r.at)))
  /\ made' = made + 1
  /\ call' = [call EXCEPT ![c] = Idle]
  /\ UNCHANGED <<vars, scenario, system>>

Begin(c, r) ==
  /\ CanCall(c, r) /\ ValidCall(r)
  /\ r.fn \notin DOMAIN SystemKinds \cup WithoutSystem \cup {"list", "release"}
  /\ Suits(r, ObjectAt(r.at))
  /\ made' = made + 1
  /\ \E o \in {ObjectAt(r.at)} :
       call' = [call EXCEPT ![c] =
         [Idle EXCEPT !.r = r, !.on = o, !.known = system[o].known,
                      !.todo = Program(r, Given(r), o, system[o].source, system[o].kind)]]
  /\ UNCHANGED <<vars, scenario, system>>

(* A system that is derived from no other.                                 *)
CreateSystem(c, r) ==
  /\ CanCall(c, r) /\ ValidCall(r)
  /\ r.fn \in DOMAIN SystemKinds
  /\ Store
  /\ made' = made + 1
  /\ system' = Append(system, NewSystem(SystemKinds[r.fn], NoSource, FirstWords))
  /\ UNCHANGED <<scenario, call>>

ReleaseSystem(c, r) ==
  /\ CanCall(c, r) /\ ValidCall(r)
  /\ r.fn = "release"
  /\ Release(r.at)
  /\ made' = made + 1
  /\ UNCHANGED <<scenario, system, call>>

(* clear mtk: everything is forgotten, with nobody in a call.              *)
ClearMtk ==
  /\ \A c \in Walkers : ~Running(c) /\ walk[c].state = "idle"
  /\ objects # {} /\ made < scenario.calls
  /\ Clear
  /\ made' = made + 1
  /\ UNCHANGED <<scenario, system, call>>

-----------------------------------------------------------------------------
(* Steps of a call.                                                        *)
Next1(c) == Head(call[c].todo)
At(c, do) == Running(c) /\ Next1(c).do = do

ReadLocked(p, o)  == [p EXCEPT !.read = @ \cup {o}]
WriteLocked(p, o) == [p EXCEPT !.write = @ \cup {o}]

TakeReadLock(c) ==
  /\ At(c, "read lock")
  /\ \A d \in Walkers : Next1(c).on \notin call[d].write
  /\ call' = [call EXCEPT ![c] = Proceed(ReadLocked(@, Next1(c).on), Next1(c).skip)]
  /\ UNCHANGED <<vars, scenario, system, made>>

TakeWriteLock(c) ==
  /\ At(c, "write lock")
  /\ \A d \in Walkers : Next1(c).on \notin call[d].write \cup call[d].read
  /\ call' = [call EXCEPT ![c] = Proceed(WriteLocked(@, Next1(c).on), Next1(c).skip)]
  /\ UNCHANGED <<vars, scenario, system, made>>

Works(c) == Running(c) /\ Next1(c).do \notin {"read lock", "write lock", "store"}

Throw(c) ==
  /\ Works(c)
  /\ Throws(Next1(c), system[Next1(c).on])
  /\ call' = [call EXCEPT ![c] = Return(@)]
  /\ UNCHANGED <<vars, scenario, system, made>>

(* The system is `S' before the instruction, and `T' after it.             *)
Answered(p, i, S, T) ==
  [p EXCEPT !.answer   = AnswerOf(i, T, @),
            !.complete = i.do = "need tensor" /\ i.key[1] \in S.complete]

Do(c) ==
  /\ Works(c)
  /\ ~Throws(Next1(c), system[Next1(c).on])
  /\ system' = [system EXCEPT ![Next1(c).on] = After(Next1(c), @)]
  /\ call' = [call EXCEPT ![c] =
       Proceed(Answered(@, Next1(c), system[Next1(c).on], system'[Next1(c).on]),
               IF Holds(Next1(c), system[Next1(c).on]) THEN Next1(c).skip ELSE 0)]
  /\ UNCHANGED <<vars, scenario, made>>

(* A symmetrized system is complete before others can see it. Its map acts *)
(* on words of the length asked for, or as large as in the source.         *)
Levels(S) == {S.matrices[i][2] : i \in {j \in DOMAIN S.matrices : S.matrices[j][1] = "moment"}}
Reach(S, n) == IF n > 0 THEN n ELSE IF Levels(S) = {} THEN 0 ELSE 2 * Max(Levels(S))

StoreSymmetrized(c) ==
  /\ At(c, "store")
  /\ \E reach \in {Reach(system[Next1(c).on], Next1(c).n)} :
       \/ /\ reach > 0
          /\ Store
          /\ system' = Append(system, NewSystem("symmetrized", Next1(c).on, 0 .. reach))
          /\ call' = [call EXCEPT ![c] = Proceed(@, 0)]
       \/ /\ reach = 0
          /\ call' = [call EXCEPT ![c] = Return(@)]
          /\ UNCHANGED <<vars, system>>
  /\ UNCHANGED <<scenario, made>>

(* list: every system that first() and next() find is looked at under its  *)
(* read lock, and kept alive until the next is found.                      *)
VisitAt(c, i) == IF ObjectAt(i) = NoObject
                 THEN Idle
                 ELSE [Idle EXCEPT !.r.fn = "list", !.todo = Reading(ObjectAt(i), Look(ObjectAt(i)))]

BeginList(c, r) ==
  /\ CanCall(c, r) /\ ValidCall(r)
  /\ r.fn = "list"
  /\ First(c)
  /\ made' = made + 1
  /\ call' = [call EXCEPT ![c] = VisitAt(c, walk'[c].at)]
  /\ UNCHANGED <<scenario, system>>

ListNext(c) ==
  /\ ~Running(c)
  /\ NextItem(c)
  /\ call' = [call EXCEPT ![c] = VisitAt(c, walk'[c].at)]
  /\ UNCHANGED <<scenario, system, made>>

EndList(c) ==
  /\ ~Running(c)
  /\ EndWalk(c)
  /\ UNCHANGED sessionVars

Step(c) == \/ TakeReadLock(c) \/ TakeWriteLock(c) \/ Throw(c) \/ Do(c)
           \/ StoreSymmetrized(c) \/ ListNext(c) \/ EndList(c)

Call(c, r) == Refuse(c, r) \/ Begin(c, r) \/ CreateSystem(c, r) \/ ReleaseSystem(c, r) \/ BeginList(c, r)

(* Clients wait for each other for ever only in calls that take the lock   *)
(* of the source before that of the derived system.                        *)
SourceFirst(c) ==
  /\ Running(c)
  /\ \/ call[c].r.fn = "transform_matrix"
     \/ call[c].r.fn = "localizing_matrix" /\ call[c].r.key[1] = "polynomial"

Stop ==
  /\ \/ \A c \in Walkers : ~Running(c) /\ walk[c].state = "idle"
     \/ \E c \in Walkers : SourceFirst(c) /\ At(c, IF call[c].r.fn = "transform_matrix" THEN "write lock" ELSE "read lock")
  /\ UNCHANGED <<vars, sessionVars>>

SessionNext ==
  \/ \E c \in Walkers : Step(c) \/ \E r \in scenario.requests : Call(c, r)
  \/ ClearMtk
  \/ Stop

SessionSpec == SessionInit /\ [][SessionNext]_<<vars, sessionVars>>

-----------------------------------------------------------------------------
(* Properties.                                                             *)

(* What an instruction reads and writes of a system.                       *)
Reads(i) ==
  CASE i.do \in {"look", "store"} -> {"matrices", "symbols", "books"}
    [] i.do \in {"need matrix", "need key", "find", "made", "source"} -> {"matrices"}
    [] i.do = "need book" -> {"books"}
    [] i.do \in {"need symbols", "need words", "knows", "has symbols"} -> {"symbols"}
    [] i.do \in {"has", "complete", "need tensor"} -> {"tensors"}
    [] i.do \in {"make", "fill"} -> {"symbols"}
    [] OTHER -> {}

Writes(i) ==
  CASE i.do \in {"create", "import", "push polynomial"} -> {"matrices", "symbols"}
    [] i.do \in {"append", "push"} -> {"matrices"}
    [] i.do \in {"register", "create symbols"} -> {"symbols"}
    [] i.do \in {"add book", "merge book"} -> {"books"}
    [] i.do \in {"make", "fill"} -> {"tensors"}
    [] OTHER -> {}

(* No client writes what another reads under a lock, or writes, at the     *)
(* time: every function has the write lock of the system that it writes,   *)
(* and writers are alone among those that have asked for a lock. Reads     *)
(* without one ("peek", "peek made") are not meant here: see below.        *)
NoRaces ==
  \A c, d \in Walkers :
    c # d /\ Running(c) /\ Running(d) /\ Next1(c).on = Next1(d).on
      => Writes(Next1(c)) \cap (Reads(Next1(d)) \cup Writes(Next1(d))) = {}

(* No client writes what another reads without a lock, as nobody is to     *)
(* read so: "Functions accessing a matrix system should call for the read  *)
(* lock before accessing anything." This is what matrix_system.h says, but *)
(* not what the functions do: making a matrix of a derived system by its   *)
(* key looks into the indices of the source when the source's lock has     *)
(* been released, while other clients make matrices there.                 *)
PeeksAt(i) == IF i.do \in {"peek", "peek made"} THEN {"matrices", "symbols"} ELSE {}

ReadsAreLocked ==
  \A c, d \in Walkers :
    c # d /\ Running(c) /\ Running(d) /\ Next1(c).on = Next1(d).on
      => Writes(Next1(c)) \cap PeeksAt(Next1(d)) = {}

(* The index that a call has returned is that of the matrix it was asked   *)
(* for, whatever other calls add to the system.                            *)
AnswersNameTheirMatrix ==
  \A c \in Walkers :
    ~Running(c) /\ call[c].answer >= 0 /\ call[c].r.key \notin {NoKey, <<"tensor">>}
      => system[call[c].on].matrices[call[c].answer + 1] \in {call[c].r.key, Raw}

(* Two calls that ask for the same matrix make it once; and symbols are    *)
(* added to an imported system up to the largest that a call named, and no *)
(* further.                                                                *)
Largest == {1} \cup {r.n : r \in {q \in scenario.requests : q.fn = "import_polynomial"}}

NothingMadeTwice ==
  \A o \in DOMAIN system :
    /\ \A i, j \in DOMAIN system[o].matrices :
         system[o].matrices[i] = system[o].matrices[j] => i = j \/ system[o].matrices[i] = Raw
    /\ system[o].kind = "imported" => Symbols(system[o]) - 1 \in Largest

(* A tensor has all its symbols if the table had them when the call for it *)
(* began, although the tensor was made before that. Left out are one full  *)
(* correlator, for which the wrong tensor is refreshed, and systems whose  *)
(* Collins-Gisin tensor has been replaced by one of two first callers.     *)
TensorsAreFresh ==
  \A c \in Walkers :
    /\ ~Running(c)
    /\ call[c].answer = 0 /\ call[c].r.key = <<"tensor">>
    /\ ~(call[c].r.fn = "full_correlator" /\ call[c].r.n # 0)
    /\ TensorWords \subseteq call[c].known
    /\ system[call[c].on].cg = 1
    => call[c].complete
=============================================================================
