------------------------ MODULE MCGroupRepGeneration ------------------------
(***************************************************************************)
(* Length 5 after the fundamental representation: the three levels 2, 4    *)
(* and 5, each of which needs the one before it.                           *)
(***************************************************************************)
EXTENDS GroupRepGeneration

MCBuilt     == {1}
MCBuildList == Pruned(DecomposeBuildList[5], MCBuilt)
=============================================================================
