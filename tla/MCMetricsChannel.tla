-------------------------- MODULE MCMetricsChannel --------------------------
(* Instances of MetricsChannel for model checking. *)
EXTENDS MetricsChannel

CONSTANTS n1, n2, gone, all, in, out, global, journal

\* Two nodes, of which the second has no value for one of the metrics; and a
\* node id the cluster does not know.
MCExposed == [n \in {n1, n2} |-> IF n = n1 THEN {in, out} ELSE {in}]

\* The throughput of the cluster, and the journal of a node.
MCListenRequest == [l \in Listeners |->
    IF l = global THEN [nodeId |-> all, names |-> {in}]
    ELSE [nodeId |-> n1, names |-> {in, out}]]
MCStyle == [l \in Listeners |-> IF l = global THEN "text" ELSE "journal"]
=============================================================================
