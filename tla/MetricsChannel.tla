--------------------------- MODULE MetricsChannel ---------------------------
(***************************************************************************)
(* The push channel that feeds live metrics to the pages of the web        *)
(* interface.  In the browser, MetricsStore keeps one SockJS connection    *)
(* open and hands updates to the components that called listen().  In the  *)
(* Play server, every connection owns a set of subscriptions and a job     *)
(* that polls the Graylog nodes once a second and writes what it collected *)
(* to the connection.                                                      *)
(*                                                                         *)
(* Connections are numbered in the order the browser makes them.  The      *)
(* server side of a connection outlives its client side: it notices the    *)
(* loss later, and goes on handling commands and polling until it does.    *)
(***************************************************************************)
EXTENDS Naturals, FiniteSets, SequencesExt

CONSTANTS
    Nodes,          \* nodes of the Graylog cluster
    NodeIds,        \* what a subscription may name: nodes, AllNodes, and
                    \* nodes the cluster does not know (any more)
    AllNodes,       \* the null node id
    Names,          \* metric names
    Exposed,        \* Exposed[n]: the metrics node n has a value for
    Listeners,      \* the components of the page
    ListenRequest,  \* ListenRequest[l]: what l asks for
    Style,          \* Style[l]: how l shows what it is told
    MaxConns,       \* bound: connections a page makes in its life
    MaxPushes       \* bound: pushes under way on one connection

Conns == 1 .. MaxConns
Sessions == {"valid", "malformed"}

\* "text" is shown instead of the values when there are none (throughput of the
\* cluster, of a node or a stream, input metrics); the "heap" has such a text,
\* and bars that keep their width; "buffer" and "journal" show numbers from the
\* start and whatever happens.
Styles == {"text", "heap", "buffer", "journal"}

ASSUME MetricsAssumption ==
    /\ Nodes \subseteq NodeIds
    /\ AllNodes \in NodeIds \ Nodes
    /\ Exposed \in [Nodes -> SUBSET Names]
    /\ ListenRequest \in [Listeners -> [nodeId : NodeIds, names : SUBSET Names]]
    /\ Style \in [Listeners -> Styles]
    /\ MaxConns \in Nat
    /\ MaxPushes \in Nat

VARIABLES
    (* MetricsStore, in the browser *)
    gl2UserSessionId,  \* the session the page was rendered with
    sock,              \* the current connection, 0 before connect()
    isOpen,
    reconnecting,      \* the two-second timer of onclose is running
    queuedRequests,    \* sequence of listeners
    callbacks,         \* sequence of listeners
    view,              \* the state of each listener
    (* the two directions of each connection *)
    commands,
    pushes,
    (* the server side of each connection *)
    phase,
    clearSession,      \* a session id was decoded
    metricsPerNode,    \* the subscriptions: pairs <<node id, metric name>>
    job                \* the PollingJob

client == <<gl2UserSessionId, sock, isOpen, reconnecting, queuedRequests,
            callbacks, view>>
server == <<phase, clearSession, metricsPerNode, job>>
vars == <<client, commands, pushes, server>>

-----------------------------------------------------------------------------
(* Data *)

CreateSession(s) == [command |-> "create_session", sessionId |-> s]

Subscribe(l) == [command |-> "metrics_subscribe", request |-> ListenRequest[l]]

Commands == {CreateSession(s) : s \in Sessions} \cup {Subscribe(l) : l \in Listeners}

\* A push carries the values collected, as pairs <<node, metric name>>.
\* "asked" and "raced" are history: what was subscribed when the poll that
\* built it began, and whether a node was added while it iterated.
Push == [hasError : BOOLEAN, metrics : SUBSET (Nodes \X Names),
         asked : SUBSET (NodeIds \X Names), raced : BOOLEAN]

Job == [running : BOOLEAN, todo : SUBSET NodeIds, entries : SUBSET (Nodes \X Names),
        hasError : BOOLEAN, asked : SUBSET (NodeIds \X Names), raced : BOOLEAN]

IdleJob == [running |-> FALSE, todo |-> {}, entries |-> {}, hasError |-> FALSE,
            asked |-> {}, raced |-> FALSE]

Running(todo, entries, hasError, asked, raced) ==
    [running |-> TRUE, todo |-> todo, entries |-> entries, hasError |-> hasError,
     asked |-> asked, raced |-> raced]

\* The key set of a multimap of subscriptions, and the names under one key.
KeySet(m) == {p[1] : p \in m}
NamesOf(m, n) == {p[2] : p \in {q \in m : q[1] = n}}

\* The subscriptions one request stands for.
Pairs(r) == {r.nodeId} \X r.names

\* The state of a component: the values it was last given, whether it ever was,
\* and whether it was told of an error since.  "from" is history: the
\* connection that it last heard of.
View == [initialized : BOOLEAN, hasError : BOOLEAN, from : 0 .. MaxConns,
         values : SUBSET (Nodes \X Names)]

NotCalled(l) == [initialized |-> Style[l] = "buffer", hasError |-> FALSE, from |-> 0,
                 values |-> {}]

-----------------------------------------------------------------------------
Init ==
    /\ gl2UserSessionId \in Sessions
    /\ sock = 0
    /\ isOpen = FALSE
    /\ reconnecting = FALSE
    /\ queuedRequests = <<>>
    /\ callbacks = <<>>
    /\ view = [l \in Listeners |-> NotCalled(l)]
    /\ commands = [k \in Conns |-> <<>>]
    /\ pushes = [k \in Conns |-> <<>>]
    /\ phase = [k \in Conns |-> "none"]
    /\ clearSession = [k \in Conns |-> FALSE]
    /\ metricsPerNode = [k \in Conns |-> {}]
    /\ job = [k \in Conns |-> IdleJob]

-----------------------------------------------------------------------------
(* The browser *)

Registered == ToSet(callbacks)

\* mount.jsx calls connect() when the page loads; onclose calls it again, two
\* seconds later.
Connect ==
    /\ sock = 0 \/ reconnecting
    /\ sock < MaxConns
    /\ sock' = sock + 1
    /\ reconnecting' = FALSE
    /\ phase' = [phase EXCEPT ![sock + 1] = "connecting"]
    /\ UNCHANGED <<gl2UserSessionId, isOpen, queuedRequests, callbacks, view,
                   commands, pushes, clearSession, metricsPerNode, job>>

\* Faults: onopen forgets the requests; it sends them before the session.
GreetingForgets == <<CreateSession(gl2UserSessionId)>>
GreetingTooLate == [i \in DOMAIN queuedRequests |-> Subscribe(queuedRequests[i])]
                   \o <<CreateSession(gl2UserSessionId)>>

\* The requests that onopen sends: the session first, then every request
\* ever made on the page.  queuedRequests is kept for the next reconnect.
Greeting == <<CreateSession(gl2UserSessionId)>> \o
            [i \in DOMAIN queuedRequests |-> Subscribe(queuedRequests[i])]

OnOpen ==
    /\ sock # 0 /\ ~isOpen /\ ~reconnecting
    /\ phase[sock] = "ready"
    /\ isOpen' = TRUE
    /\ callbacks' = callbacks \o queuedRequests
    /\ commands' = [commands EXCEPT ![sock] = @ \o Greeting]
    /\ UNCHANGED <<gl2UserSessionId, sock, reconnecting, queuedRequests, view,
                   pushes, server>>

Listen(l) ==
    /\ l \notin ToSet(queuedRequests)
    /\ queuedRequests' = Append(queuedRequests, l)
    /\ IF isOpen
       THEN /\ callbacks' = Append(callbacks, l)
            /\ commands' = [commands EXCEPT ![sock] = Append(@, Subscribe(l))]
       ELSE UNCHANGED <<callbacks, commands>>
    /\ UNCHANGED <<gl2UserSessionId, sock, isOpen, reconnecting, view, pushes,
                   server>>

\* The part of a push that concerns a request: the values of the nodes and of
\* the names it asked for.  (InterestingNodes, a fault, leaves all names in.)
Concerns(r, n) == r.nodeId \in {AllNodes, n}
InterestingNodes(r, metrics) == {p \in metrics : Concerns(r, p[1])}
Interesting(r, metrics) == {p \in metrics : Concerns(r, p[1]) /\ p[2] \in r.names}

\* A component that is told of an error keeps its values.
Error(l) == [view[l] EXCEPT !.hasError = TRUE, !.from = sock]

\* An update replaces the values; the components of the journal keep those that
\* it does not hold.
Kept(l) == IF Style[l] = "journal" THEN view[l].values ELSE {}
Updated(l, values) ==
    [initialized |-> TRUE, hasError |-> FALSE, from |-> sock,
     values |-> Kept(l) \cup values]

\* The callback runs when a node of the update concerns it, even if none of
\* that node's values does.
Callback(l, push) ==
    IF push.hasError THEN Error(l)
    ELSE IF \E p \in push.metrics : Concerns(ListenRequest[l], p[1])
    THEN Updated(l, Interesting(ListenRequest[l], push.metrics))
    ELSE view[l]

OnMessage ==
    /\ isOpen
    /\ pushes[sock] # <<>>
    /\ view' = [l \in Listeners |->
                  IF l \in Registered THEN Callback(l, Head(pushes[sock])) ELSE view[l]]
    /\ pushes' = [pushes EXCEPT ![sock] = Tail(@)]
    /\ UNCHANGED <<gl2UserSessionId, sock, isOpen, reconnecting, queuedRequests,
                   callbacks, commands, server>>

\* onclose tells every callback.  (NobodyTold is a fault.)
NobodyTold == view
EverybodyTold == [l \in Listeners |-> IF l \in Registered THEN Error(l) ELSE view[l]]

\* The connection fails, opened or not.  What was on its way to the browser is
\* lost; what was on its way to the server may still arrive.
OnClose ==
    /\ sock # 0 /\ ~reconnecting
    /\ isOpen' = FALSE
    /\ reconnecting' = TRUE
    /\ view' = EverybodyTold
    /\ pushes' = [pushes EXCEPT ![sock] = <<>>]
    /\ UNCHANGED <<gl2UserSessionId, sock, queuedRequests, callbacks, commands,
                   server>>

-----------------------------------------------------------------------------
(* What the user sees: the render functions of the components *)

\* The components that say so when they have no current values.  The others
\* keep hasError in their state and never read it.
Speakers == {l \in Listeners : Style[l] \in {"text", "heap"}}

Status(l) ==
    IF l \notin Speakers THEN "data"
    ELSE IF view[l].hasError THEN "error"
    ELSE IF view[l].initialized THEN "data" ELSE "loading"

Shown(l) ==
    [status |-> Status(l),
     values |-> IF Style[l] = "text" /\ Status(l) # "data" THEN {} ELSE view[l].values]

-----------------------------------------------------------------------------
(* The server *)

\* sockjs() and onReady: a controller of its own, with an executor, and an
\* empty set of subscriptions, for every connection.
OnReady(k) ==
    /\ phase[k] = "connecting"
    /\ phase' = [phase EXCEPT ![k] = "ready"]
    /\ UNCHANGED <<client, commands, pushes, clearSession, metricsPerNode, job>>

HandleCreateSession(k, c) ==
    /\ c.command = "create_session"
    /\ clearSession' = [clearSession EXCEPT ![k] = @ \/ c.sessionId = "valid"]
    /\ UNCHANGED <<metricsPerNode, job>>

\* Does the request add a key to the map?
AddsNode(k, r) == r.names # {} /\ r.nodeId \notin KeySet(metricsPerNode[k])

\* Adding a node while the job iterates over the keys races with the iterator:
\* nothing synchronizes the two.
HandleSubscribe(k, c) ==
    /\ c.command = "metrics_subscribe"
    /\ metricsPerNode' = [metricsPerNode EXCEPT ![k] = @ \cup Pairs(c.request)]
    /\ job' = IF job[k].todo # {} /\ AddsNode(k, c.request)
              THEN [job EXCEPT ![k].raced = TRUE] ELSE job
    /\ UNCHANGED clearSession

OnCommand(k) ==
    /\ phase[k] = "ready"
    /\ commands[k] # <<>>
    /\ commands' = [commands EXCEPT ![k] = Tail(@)]
    /\ \/ HandleCreateSession(k, Head(commands[k]))
       \/ HandleSubscribe(k, Head(commands[k]))
    /\ UNCHANGED <<client, pushes, phase>>

\* run() returns at once without a session or without subscriptions.
MayPoll(k) == clearSession[k] /\ metricsPerNode[k] # {}

StartPoll(k) ==
    /\ phase[k] = "ready"
    /\ ~job[k].running
    /\ Len(pushes[k]) < MaxPushes
    /\ MayPoll(k)
    /\ job' = [job EXCEPT ![k] = Running(KeySet(metricsPerNode[k]), {}, FALSE,
                                         metricsPerNode[k], FALSE)]
    /\ UNCHANGED <<client, commands, pushes, phase, clearSession, metricsPerNode>>

\* The keys left after n.  An iterator that lost a race and did not notice may
\* miss some.
Remaining(k, n) ==
    IF job[k].raced THEN SUBSET (job[k].todo \ {n}) ELSE {job[k].todo \ {n}}

\* The values node n has for the names wanted.
Values(n, names) == {n} \X (names \cap Exposed[n])

\* (Swallowed is a fault: the exception is caught and nothing remembers it.)
Answered(e) == [entries |-> e, failed |-> FALSE]
Swallowed == Answered({})
Failed == [entries |-> {}, failed |-> TRUE]

\* A fault: the answers of all nodes are filed under the key they were asked by.
OutcomesByKey(n, names) ==
    IF n \in Nodes THEN {Answered(Values(n, names)), Failed}
    ELSE {Answered({n} \X names)}

\* What asking for the names under one key may bring.  With no node id every
\* node is asked, and those that fail are left out; a node that is not known
\* is skipped; an APIException or IOException is remembered.
Outcomes(n, names) ==
    IF n = AllNodes
    THEN {Answered(UNION {Values(m, names) : m \in up}) : up \in SUBSET Nodes}
    ELSE IF n \in Nodes THEN {Answered(Values(n, names)), Failed}
    ELSE {Answered({})}

PollNode(k, n) ==
    /\ n \in job[k].todo
    /\ \E o \in Outcomes(n, NamesOf(metricsPerNode[k], n)), rest \in Remaining(k, n) :
         job' = [job EXCEPT ![k] = Running(rest, @.entries \cup o.entries,
                                           @.hasError \/ o.failed, @.asked, @.raced)]
    /\ UNCHANGED <<client, commands, pushes, phase, clearSession, metricsPerNode>>

\* No server at all, or the iterator noticed that the map changed
\* (ConcurrentModificationException): the remaining nodes are not asked.
PollAborts(k) ==
    /\ job[k].todo # {}
    /\ job' = [job EXCEPT ![k] = Running({}, @.entries, TRUE, @.asked, @.raced)]
    /\ UNCHANGED <<client, commands, pushes, phase, clearSession, metricsPerNode>>

PushResponse(j) == [hasError |-> j.hasError, metrics |-> j.entries,
                    asked |-> j.asked, raced |-> j.raced]

\* What is written to a connection that either side has given up is lost.
FinishPoll(k) ==
    /\ job[k].running
    /\ job[k].todo = {}
    /\ job' = [job EXCEPT ![k] = IdleJob]
    /\ pushes' = IF phase[k] = "ready" /\ k = sock /\ ~reconnecting
                 THEN [pushes EXCEPT ![k] = Append(@, PushResponse(job[k]))]
                 ELSE pushes
    /\ UNCHANGED <<client, commands, phase, clearSession, metricsPerNode>>

\* The server notices that the connection is gone, or goes away itself.  The
\* job is cancelled: it is not started again, but a run under way may end.
OnServerClose(k) ==
    /\ phase[k] \in {"connecting", "ready"}
    /\ phase' = [phase EXCEPT ![k] = "closed"]
    /\ UNCHANGED <<client, commands, pushes, clearSession, metricsPerNode, job>>

-----------------------------------------------------------------------------
Next ==
    \/ Connect
    \/ OnOpen
    \/ \E l \in Listeners : Listen(l)
    \/ OnMessage
    \/ OnClose
    \/ \E k \in Conns : \/ OnReady(k)
                        \/ OnCommand(k)
                        \/ StartPoll(k)
                        \/ \E n \in NodeIds : PollNode(k, n)
                        \/ PollAborts(k)
                        \/ FinishPoll(k)
                        \/ OnServerClose(k)

Spec == Init /\ [][Next]_vars

(* The timers of the browser and of the executor fire, what was sent arrives
   while the connection lasts, and a request to a node is answered or times
   out.  Nothing makes a component listen, and nothing makes a connection fail
   -- but the browser learns of a connection that the server has closed. *)
Fairness ==
    /\ WF_vars(Connect) /\ WF_vars(OnOpen) /\ WF_vars(OnMessage)
    /\ WF_vars(OnClose /\ phase[sock] = "closed")
    /\ \A k \in Conns :
         /\ WF_vars(OnReady(k)) /\ WF_vars(OnCommand(k)) /\ WF_vars(StartPoll(k))
         /\ WF_vars(PollAborts(k) \/ \E n \in NodeIds : PollNode(k, n))
         /\ WF_vars(FinishPoll(k))

FairSpec == Spec /\ Fairness

-----------------------------------------------------------------------------
(* Properties *)

TypeOK ==
    /\ gl2UserSessionId \in Sessions
    /\ sock \in 0 .. MaxConns
    /\ isOpen \in BOOLEAN
    /\ reconnecting \in BOOLEAN
    /\ isOpen => sock # 0 /\ ~reconnecting
    /\ queuedRequests \in Seq(Listeners)
    /\ callbacks \in Seq(Listeners)
    /\ view \in [Listeners -> View]
    /\ commands \in [Conns -> Seq(Commands)]
    /\ pushes \in [Conns -> Seq(Push)]
    /\ phase \in [Conns -> {"none", "connecting", "ready", "closed"}]
    /\ clearSession \in [Conns -> BOOLEAN]
    /\ metricsPerNode \in [Conns -> SUBSET (NodeIds \X Names)]
    /\ job \in [Conns -> Job]

\* While the connection is open, every component that ever called listen() has
\* a callback, and its request is with the server or on its way there: nobody
\* is forgotten by a listen() before onopen, nor by a reconnect.
NoListenerForgotten ==
    isOpen => \A l \in ToSet(queuedRequests) :
                /\ l \in Registered
                /\ \/ Subscribe(l) \in ToSet(commands[sock])
                   \/ Pairs(ListenRequest[l]) \subseteq metricsPerNode[sock]

\* The server never holds subscriptions of a page with a valid session before
\* it holds the session: create_session overtakes every metrics_subscribe.
SessionBeforeSubscriptions ==
    \A k \in Conns :
        metricsPerNode[k] # {} /\ gl2UserSessionId = "valid" => clearSession[k]

\* A component that can say "unavailable" shows values without saying it only
\* while the connection that brought them is open: the loss of the connection
\* reaches all of them, and values of an earlier connection are never taken for
\* current ones.
NoStaleData ==
    \A l \in Speakers : Status(l) = "data" => isOpen /\ view[l].from = sock

IsAnswer(q) == q[2] \in Exposed[q[1]]
Delivered(q, metrics) == q[1] \in Nodes /\ IsAnswer(q) => q \in metrics

\* A push that reports no error holds every value that was asked of a known
\* node by name when the poll began -- unless a node was added to the map
\* while the poll iterated over it.
CompleteOrError ==
    \A k \in Conns : \A p \in ToSet(pushes[k]) :
        p.hasError \/ p.raced
        \/ \A q \in p.asked : Delivered(q, p.metrics)

\* onopen registers what was queued "before the sockjs connection had been
\* established" again, so that no update is missed after a reconnect; each
\* component still hears of every update once.
OneCallbackPerListener ==
    \A i, j \in DOMAIN callbacks : callbacks[i] = callbacks[j] => i = j

\* Once a connection lasts, every component that listens to one known node is
\* called on it, with values or with an error: no reconnect leaves a component
\* on "unavailable", or on old numbers, for ever.
Served(l) == view[l].from = sock
Lasting == isOpen /\ phase[sock] = "ready"
OfOneNode(l) ==
    LET r == ListenRequest[l] IN r.nodeId \in Nodes /\ r.names \cap Exposed[r.nodeId] # {}

EveryListenerServed ==
    \A l \in Listeners :
        OfOneNode(l) /\ gl2UserSessionId = "valid"
            => (<>[](Lasting /\ l \in ToSet(queuedRequests)) => <>[]Served(l))

-----------------------------------------------------------------------------
(* What the channel promises to a component: see MetricsFeed. *)

Feed == INSTANCE MetricsFeed WITH
            listening <- ToSet(queuedRequests),
            connected <- isOpen,
            shown <- [l \in Listeners |-> Shown(l)]

FeedSpec == Feed!Spec
=============================================================================
