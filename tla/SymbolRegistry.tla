--------------------------- MODULE SymbolRegistry ---------------------------
(***************************************************************************)
(* What making an extended matrix promises: each new cell gets the symbol  *)
(* of its list of factors, and a list nobody has a symbol for yet gets the *)
(* next id, in one step.  make_extended_matrix_single_thread takes these   *)
(* steps in one fixed order of the cells.                                  *)
(***************************************************************************)
EXTENDS Integers, Sequences

CONSTANTS Cells,       \* the cells of the matrix to fill
          Joint(_),    \* the list of factors of a cell
          Known,       \* list |-> id, for the symbols there are beforehand
          FirstId,     \* the first free id
          Blank        \* a cell that has no symbol yet

VARIABLES newFactors,  \* the lists that got the ids FirstId, FirstId + 1, ...
          matrix       \* cell |-> id
vars == <<newFactors, matrix>>

Init == /\ newFactors = <<>>
        /\ matrix = [c \in Cells |-> Blank]

Fill(c, id) == matrix' = [matrix EXCEPT ![c] = id]

UseKnown(c) == /\ Joint(c) \in DOMAIN Known
               /\ Fill(c, Known[Joint(c)])
               /\ UNCHANGED newFactors

UseNew(c) == \E i \in DOMAIN newFactors :
               /\ newFactors[i] = Joint(c)
               /\ Fill(c, FirstId + i - 1)
               /\ UNCHANGED newFactors

Create(c) == /\ Joint(c) \notin DOMAIN Known
             /\ \A i \in DOMAIN newFactors : newFactors[i] # Joint(c)
             /\ newFactors' = Append(newFactors, Joint(c))
             /\ Fill(c, FirstId + Len(newFactors))

Resolve(c) == /\ matrix[c] = Blank
              /\ UseKnown(c) \/ UseNew(c) \/ Create(c)

Next == \E c \in Cells : Resolve(c)

Spec == Init /\ [][Next]_vars
=============================================================================
