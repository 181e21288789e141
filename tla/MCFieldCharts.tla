--------------------------- MODULE MCFieldCharts ----------------------------
(***************************************************************************)
(* A few charts for TLC.  The ids and the intervals are interchangeable.   *)
(***************************************************************************)
EXTENDS FieldCharts, TLC

Symmetry == Permutations(Charts) \cup Permutations(Intervals) \cup Permutations(Renderers)
=============================================================================
