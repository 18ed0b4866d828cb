---------------- MODULE OperatorMatrixFactorySinglethreaded ----------------
(***************************************************************************)
(* What a call for operator matrices promises, as the single-threaded      *)
(* factory keeps it: the matrix of all products, then, if the context has  *)
(* aliases, the matrix of their simplifications, or an exception.          *)
(***************************************************************************)
EXTENDS OperatorMatrixTask

VARIABLES task,
          unaliased, aliased,  \* the matrices made so far
          outcome              \* "running", "returned" or "threw"
vars == <<task, unaliased, aliased, outcome>>

Init == /\ task \in Tasks
        /\ unaliased = NoMatrix /\ aliased = NoMatrix
        /\ outcome = "running"

MakeOperatorMatrix == /\ outcome = "running" /\ unaliased = NoMatrix
                      /\ task.osThrows = {}
                      /\ unaliased' = task.product
                      /\ outcome' = IF task.aliases THEN "running" ELSE "returned"
                      /\ UNCHANGED <<task, aliased>>

MakeAliasedOperatorMatrix == /\ outcome = "running" /\ unaliased # NoMatrix
                             /\ task.aliasThrows = {}
                             /\ aliased' = Simplified(unaliased)
                             /\ outcome' = "returned"
                             /\ UNCHANGED <<task, unaliased>>

Throw == /\ outcome = "running"
         /\ IF unaliased = NoMatrix THEN task.osThrows # {} ELSE task.aliasThrows # {}
         /\ outcome' = "threw" /\ unaliased' = NoMatrix
         /\ UNCHANGED <<task, aliased>>

Next == MakeOperatorMatrix \/ MakeAliasedOperatorMatrix \/ Throw

Spec == Init /\ [][Next]_vars
=============================================================================
