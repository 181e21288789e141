----------------------------- MODULE MetricsFeed -----------------------------
(***************************************************************************)
(* What the metrics channel promises to the components of a page, whatever *)
(* happens to its connections: a component that listens shows values of    *)
(* the nodes and metrics it asked for, and no others; and a component that *)
(* can say that it has no current values does so while the channel is      *)
(* down.  It promises nothing of the kind to the other components, which   *)
(* go on showing what they have.                                           *)
(***************************************************************************)
CONSTANTS Nodes, NodeIds, AllNodes, Names, Exposed, Listeners, ListenRequest,
          Speakers  \* the components that say when there are no current values

VARIABLES
    listening,  \* the components that called listen()
    connected,
    shown       \* shown[l]: what l displays

vars == <<listening, connected, shown>>

\* The values a component may come to show.
Wanted(l) ==
    {p \in Nodes \X Names : /\ ListenRequest[l].nodeId \in {AllNodes, p[1]}
                            /\ p[2] \in ListenRequest[l].names
                            /\ p[2] \in Exposed[p[1]]}

Displays == [status : {"loading", "error", "data"}, values : SUBSET (Nodes \X Names)]

Init ==
    /\ listening = {}
    /\ connected = FALSE
    /\ shown = [l \in Listeners |->
                  [status |-> IF l \in Speakers THEN "loading" ELSE "data", values |-> {}]]

Listen(l) ==
    /\ listening' = listening \cup {l}
    /\ UNCHANGED <<connected, shown>>

Connect ==
    /\ connected' = TRUE
    /\ UNCHANGED <<listening, shown>>

\* Saying that the values are not current may take them away, and adds none.
MaySayError(l, v) ==
    /\ l \in Speakers
    /\ v.status = "error"
    /\ v.values \subseteq shown[l].values

\* One update reaches some of those who listen.  With values, it adds only what
\* was asked for to what was there.
MayShow(l, v) ==
    /\ l \in listening
    /\ \/ MaySayError(l, v)
       \/ v.status = "data" /\ v.values \subseteq shown[l].values \cup Wanted(l)

Update ==
    /\ connected
    /\ shown' \in [Listeners -> Displays]
    /\ \A l \in Listeners : shown'[l] = shown[l] \/ MayShow(l, shown'[l])
    /\ UNCHANGED <<listening, connected>>

\* The channel goes down: whoever can say so does, or has nothing to take back.
Disconnect ==
    /\ connected' = FALSE
    /\ shown' \in [Listeners -> Displays]
    /\ \A l \in Listeners : \/ MaySayError(l, shown'[l])
                            \/ /\ shown'[l] = shown[l]
                               /\ l \in Speakers => shown[l].status # "data"
    /\ UNCHANGED listening

Next ==
    \/ \E l \in Listeners : Listen(l)
    \/ Connect
    \/ Update
    \/ Disconnect

Spec == Init /\ [][Next]_vars
=============================================================================
