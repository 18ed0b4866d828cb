-------------------------- MODULE GroupRepSequential --------------------------
(***************************************************************************)
(* The promise of a representation build: the single-threaded builder,     *)
(* build_representations_single_thread (scenarios/symmetrized/group.cpp).   *)
(* Lengths are built one at a time, in the order of the list, each from    *)
(* parents that exist, and none is built twice. The multi-threaded builder *)
(* is to be indistinguishable from it.                                     *)
(***************************************************************************)
EXTENDS RepresentationBuild

VARIABLES representations,  \* per length: Null, or the element data
          idx               \* how much of the build list is done

vars == <<representations, idx>>

Init ==
    /\ representations = InitialRepresentations
    /\ idx = 0

Build ==
    /\ idx < Len(BuildList)
    /\ LET n == BuildList[idx + 1]
       IN  /\ representations[n] = Null
           /\ representations[LeftParent(n)] # Null
           /\ representations[RightParent(n)] # Null
           /\ representations' = [representations EXCEPT
                 ![n] = [e \in Elements |-> Combined(representations, n, e)]]
    /\ idx' = idx + 1

Spec == Init /\ [][Build]_vars
=============================================================================
