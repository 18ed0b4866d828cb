--------------------------- MODULE ExtendedMatrix ---------------------------
(***************************************************************************)
(* The multi-threaded extension of a moment matrix by scalar symbols: the  *)
(* workers of extended_matrix_worker.cpp fill the new cells and share the  *)
(* symbols they make through TemporarySymbolsAndFactors, whose read-write  *)
(* lock is modelled by who holds it.  A cell <<col, row>> stands for both  *)
(* places the code writes; the block copied from the source matrix, which  *)
(* no worker reads, is left out.                                           *)
(***************************************************************************)
EXTENDS FactorLists

CONSTANTS NumWorkers,
          SourceDim,       \* dimension of the source matrix
          Lists,           \* the factors of each column's or scalar's symbol
          Known,           \* factor table's index tree before: list |-> id
          FirstId,         \* number of symbols before
          Blank, Nobody

Workers == 0..(NumWorkers - 1)
Dim     == Len(Lists)
Index   == 0..(Dim - 1)
Cells   == {c \in Index \X Index : c[1] <= c[2] /\ c[2] >= SourceDim}

ASSUME WorkersAssumption == NumWorkers \in Nat \ {0}
ASSUME ListsAssumption   == SourceDim \in Nat /\ Lists \in Seq(Seq(Nat))
ASSUME BlankAssumption   == Blank \notin Nat
ASSUME NobodyAssumption  == Nobody \notin Workers
ASSUME KnownAssumption   == /\ FirstId \in Nat
                            /\ \A list \in DOMAIN Known : Known[list] \in 0..(FirstId - 1)

(* The cells a worker fills and the order in which it does: column by      *)
(* column of its stripe, first those of the source, then the scalars'.     *)
Owner(c)     == (IF c[1] < SourceDim THEN c[1] ELSE c[1] - SourceDim) % NumWorkers
Before(c, d) == c[1] < d[1] \/ (c[1] = d[1] /\ c[2] < d[2])
Products     == Table([c \in Cells |-> CombineFactors(Lists[c[1] + 1], Lists[c[2] + 1])])
Joint(c)     == Products[c]

VARIABLES pc, todo,        \* per worker: its next step, the cells left to it
          matrix,          \* output_data: cell |-> id
          readers, writer, \* who holds the read-write mutex
          nodes, values,   \* index_tree: its nodes' paths; list |-> id
          newFactors,      \* new_factors
          nextId,          \* next_symbol_id
          index, entries,  \* factor table: its index tree; its entries from FirstId on
          symbolCount      \* SymbolTable::size
lock   == <<readers, writer>>
shared == <<nodes, values, newFactors, nextId>>
tables == <<index, entries, symbolCount>>
vars   == <<pc, todo, matrix, lock, shared, tables>>

Init == /\ pc = [w \in Workers |-> "lookup"]
        /\ todo = [w \in Workers |-> {c \in Cells : Owner(c) = w}]
        /\ matrix = [c \in Cells |-> Blank]
        /\ readers = {} /\ writer = Nobody
        /\ nodes = {<<>>} /\ values = <<>>
        /\ newFactors = <<>> /\ nextId = FirstId
        /\ index = Known /\ entries = <<>> /\ symbolCount = FirstId

Goto(w, label) == pc' = [pc EXCEPT ![w] = label]

IsCurrent(w, c) == c \in todo[w] /\ \A d \in todo[w] \ {c} : Before(c, d)

(* find_or_register_factors returns id: the cell is written and the worker *)
(* goes on to its next one.                                                *)
Answer(w, c, id) == /\ matrix' = [matrix EXCEPT ![c] = id]
                    /\ todo' = [todo EXCEPT ![w] = @ \ {c}]
                    /\ Goto(w, "lookup")

-----------------------------------------------------------------------------
(* The look-up in the factor table, which nobody changes meanwhile.        *)
Lookup(w, c) ==
  /\ pc[w] = "lookup"
  /\ \/ /\ Joint(c) \in DOMAIN index
        /\ Answer(w, c, index[Joint(c)])
     \/ /\ Joint(c) \notin DOMAIN index
        /\ Goto(w, "readlock")
        /\ UNCHANGED <<todo, matrix>>
  /\ UNCHANGED <<lock, shared, tables>>

ReadLock(w, c) ==
  /\ pc[w] = "readlock" /\ writer = Nobody
  /\ readers' = readers \cup {w}
  /\ Goto(w, "search")
  /\ UNCHANGED <<todo, matrix, writer, shared, tables>>

(* find_node_or_return_hint: a node for the whole list answers if it has a *)
(* value and fails the assertion if it has none; any other node is the     *)
(* hint for a search under the write lock.  A node is never removed or     *)
(* moved, so that search finds what one from the root would find.          *)
Search(w, c) ==
  /\ pc[w] = "search"
  /\ readers' = readers \ {w}
  /\ \/ /\ Joint(c) \in DOMAIN values
        /\ Answer(w, c, values[Joint(c)])
     \/ /\ Joint(c) \in nodes \ DOMAIN values
        /\ Goto(w, "aborted")
        /\ UNCHANGED <<todo, matrix>>
     \/ /\ Joint(c) \notin nodes
        /\ Goto(w, "writelock")
        /\ UNCHANGED <<todo, matrix>>
  /\ UNCHANGED <<writer, shared, tables>>

WriteLock(w, c) ==
  /\ pc[w] = "writelock" /\ writer = Nobody /\ readers = {}
  /\ writer' = w
  /\ Goto(w, "recheck")
  /\ UNCHANGED <<todo, matrix, readers, shared, tables>>

(* Mutant of Recheck: a list another worker registered between the two     *)
(* locks is not noticed.                                                   *)
RecheckNothing(w, c) ==
  /\ pc[w] = "recheck"
  /\ Goto(w, "add")
  /\ UNCHANGED <<todo, matrix, lock, shared, tables>>

(* Mutant of Recheck: the write lock is kept by a worker that was scooped. *)
RecheckKeepsLock(w, c) ==
  /\ pc[w] = "recheck"
  /\ \/ /\ Joint(c) \in DOMAIN values
        /\ Answer(w, c, values[Joint(c)])
     \/ /\ Joint(c) \notin DOMAIN values
        /\ Goto(w, "add")
        /\ UNCHANGED <<todo, matrix>>
  /\ UNCHANGED <<lock, shared, tables>>

Recheck(w, c) ==
  /\ pc[w] = "recheck"
  /\ \/ /\ Joint(c) \in DOMAIN values
        /\ Answer(w, c, values[Joint(c)])
        /\ writer' = Nobody
     \/ /\ Joint(c) \notin DOMAIN values
        /\ Goto(w, "add")
        /\ UNCHANGED <<todo, matrix, writer>>
  /\ UNCHANGED <<readers, shared, tables>>

(* IndexTree::add makes the nodes for every prefix of the list.            *)
AddToTree(w, c) ==
  /\ pc[w] = "add"
  /\ nodes' = nodes \cup {Joint(c)} \cup Prefixes(Joint(c))
  /\ values' = [list \in DOMAIN values \cup {Joint(c)} |->
                  IF list = Joint(c) THEN nextId ELSE values[list]]
  /\ Goto(w, "push")
  /\ UNCHANGED <<todo, matrix, lock, newFactors, nextId, tables>>

Push(w, c) ==
  /\ pc[w] = "push"
  /\ newFactors' = Append(newFactors, Joint(c))
  /\ nextId' = nextId + 1
  /\ writer' = Nobody
  /\ Answer(w, c, nextId)
  /\ UNCHANGED <<readers, nodes, values, tables>>

Fill(w, c) == \/ Lookup(w, c)    \/ ReadLock(w, c) \/ Search(w, c) \/ WriteLock(w, c)
              \/ Recheck(w, c)   \/ AddToTree(w, c) \/ Push(w, c)

(* A worker whose cells are all written leaves execute().                  *)
Finish(w) == /\ pc[w] = "lookup" /\ todo[w] = {}
             /\ Goto(w, "done")
             /\ UNCHANGED <<todo, matrix, lock, shared, tables>>

Worker(w) == Finish(w) \/ \E c \in Cells : IsCurrent(w, c) /\ Fill(w, c)

(* join_all, then register_new_symbols_and_factors.                        *)
Joined == \A w \in Workers : pc[w] = "done"

Merged == [list \in DOMAIN values \cup DOMAIN index |->
             IF list \in DOMAIN values THEN values[list] ELSE index[list]]

(* Mutant of Register: the definitions are appended last first.            *)
RegisterReversed ==
  /\ Joined /\ symbolCount = FirstId /\ newFactors # <<>>
  /\ symbolCount' = symbolCount + (nextId - FirstId)
  /\ entries' = entries \o Reverse(newFactors)
  /\ index' = Merged
  /\ UNCHANGED <<pc, todo, matrix, lock, shared>>

Register ==
  /\ Joined /\ symbolCount = FirstId /\ newFactors # <<>>
  /\ symbolCount' = symbolCount + (nextId - FirstId)
  /\ entries' = entries \o newFactors
  /\ index' = Merged
  /\ UNCHANGED <<pc, todo, matrix, lock, shared>>

Registered == Joined /\ Len(entries) = Len(newFactors)

(* The failed assertion ends the program.                                  *)
Aborted == \E w \in Workers : pc[w] = "aborted"

Terminated == (Registered \/ Aborted) /\ UNCHANGED vars

Next == \/ ~Aborted /\ \E w \in Workers : Worker(w)
        \/ Register
        \/ Terminated

Spec == Init /\ [][Next]_vars

(* Every thread is scheduled until it ends, and the thread that joins them *)
(* goes on.                                                                *)
FairSpec == Spec /\ (\A w \in Workers : WF_vars(~Aborted /\ Worker(w))) /\ WF_vars(Register)

-----------------------------------------------------------------------------
Labels == {"lookup", "readlock", "search", "writelock", "recheck", "add", "push", "done", "aborted"}

NewId(id) == id - FirstId + 1     \* the place of id in newFactors

(* Every variable has its type; the lock is held by the workers that are   *)
(* between taking and releasing it, and by one writer or by readers.       *)
TypeOK ==
  /\ pc \in [Workers -> Labels]
  /\ todo \in [Workers -> SUBSET Cells]
  /\ matrix \in [Cells -> Nat \cup {Blank}]
  /\ readers = {w \in Workers : pc[w] = "search"}
  /\ \A w \in Workers : (writer = w) <=> pc[w] \in {"recheck", "add", "push"}
  /\ writer = Nobody \/ (writer \in Workers /\ readers = {})
  /\ nextId \in Nat /\ symbolCount \in Nat

(* Two workers that miss the same list in the index at the same time still *)
(* make one symbol for it, and no symbol for a list that has one already:  *)
(* what the second search, under the write lock, is there for.             *)
OneSymbolPerList ==
  /\ IsInjective(newFactors)
  /\ \A i \in DOMAIN newFactors : newFactors[i] \notin DOMAIN Known

(* The three places that know of a new symbol agree whenever no worker is  *)
(* between the updates: tree, definitions and counter, so that the ids     *)
(* given out are those the tables assign when everything is registered.    *)
NewSymbolsAligned ==
  writer = Nobody =>
    /\ nextId = FirstId + Len(newFactors)
    /\ DOMAIN values = {newFactors[i] : i \in DOMAIN newFactors}
    /\ \A list \in DOMAIN values : newFactors[NewId(values[list])] = list

(* In the end every cell has the symbol whose entry in the factor table is *)
(* the product of its row and its column, the index finds it, and the two  *)
(* tables have the same length.                                            *)
MatrixIsProduct ==
  Registered =>
    /\ symbolCount = FirstId + Len(entries)
    /\ \A c \in Cells :
         /\ Joint(c) \in DOMAIN index /\ index[Joint(c)] = matrix[c]
         /\ matrix[c] >= FirstId => entries[NewId(matrix[c])] = Joint(c)

(* However the workers interleave, they all end, and the new symbols are   *)
(* registered: nobody waits for the lock for ever.                         *)
Completes == <>Registered

(* The workers together do what one thread would do: each cell is resolved *)
(* in one step, by a symbol that existed or by the next new one.           *)
Registry == INSTANCE SymbolRegistry
ImplementsRegistry == Registry!Spec
=============================================================================
