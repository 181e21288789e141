---------------------------- MODULE MCListPages -----------------------------
(***************************************************************************)
(* Small lists for TLC.                                                    *)
(***************************************************************************)
EXTENDS ListPages, TLC

Symmetry == Permutations(Items) \cup Permutations(Messages)
=============================================================================
