--------------------------- MODULE MCPeriodicals ----------------------------
(***************************************************************************)
(* Pollers of a page for TLC: a sequential one that goes on in the         *)
(* background, and the two loops of a widget, of which the value loop asks *)
(* again before it is answered.                                            *)
(***************************************************************************)
EXTENDS Periodicals

CONSTANTS jobs, data, value

MCUnanswered == [p \in Pollers |-> IF p = value THEN 2 ELSE 1]
=============================================================================
