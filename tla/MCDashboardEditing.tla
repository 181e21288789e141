------------------------- MODULE MCDashboardEditing -------------------------
(***************************************************************************)
(* Small dashboards for TLC.  The widgets, the titles and the              *)
(* configurations are interchangeable.                                     *)
(***************************************************************************)
EXTENDS DashboardEditing, TLC

Symmetry == Permutations(Widgets) \cup Permutations(Titles) \cup Permutations(Configs)
=============================================================================
