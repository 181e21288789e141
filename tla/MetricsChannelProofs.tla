------------------------ MODULE MetricsChannelProofs ------------------------
(***************************************************************************)
(* Proofs about MetricsChannel, for any cluster, any page and any number   *)
(* of connections: its types, the invariants that say whom the browser     *)
(* serves, and that it implements MetricsFeed.                             *)
(***************************************************************************)
EXTENDS MetricsChannel, SequenceLemmas

-----------------------------------------------------------------------------
(* Types *)

LEMMA TypeInit ==
    ASSUME MetricsAssumption, Init
    PROVE  TypeOK
<1>1. IdleJob \in Job
  BY DEF IdleJob, Job
<1>2. \A l \in Listeners : NotCalled(l) \in View
  BY DEF MetricsAssumption, NotCalled, View
<1>3. /\ sock \in 0 .. MaxConns
      /\ gl2UserSessionId \in Sessions /\ isOpen \in BOOLEAN /\ reconnecting \in BOOLEAN
  <2>1. gl2UserSessionId \in Sessions /\ isOpen \in BOOLEAN /\ reconnecting \in BOOLEAN
    BY DEF Init
  <2>2. sock \in 0 .. MaxConns
    BY DEF Init, MetricsAssumption
  <2> QED
    BY <2>1, <2>2
<1>4. /\ queuedRequests \in Seq(Listeners) /\ callbacks \in Seq(Listeners)
      /\ commands \in [Conns -> Seq(Commands)] /\ pushes \in [Conns -> Seq(Push)]
  BY DEF Init
<1> QED
  BY <1>1, <1>2, <1>3, <1>4 DEF Init, TypeOK

\* The commands onopen sends are commands.
LEMMA GreetingType ==
    ASSUME TypeOK
    PROVE  Greeting \in Seq(Commands)
<1>1. [i \in DOMAIN queuedRequests |-> Subscribe(queuedRequests[i])] \in Seq(Commands)
  BY DEF TypeOK, Commands
<1>2. <<CreateSession(gl2UserSessionId)>> \in Seq(Commands)
  BY DEF TypeOK, Commands
<1> QED
  BY <1>1, <1>2 DEF Greeting

\* A component that is called keeps the shape of its state.
LEMMA CallbackType ==
    ASSUME MetricsAssumption, TypeOK, NEW l \in Listeners
    PROVE  /\ Error(l) \in View
           /\ \A values \in SUBSET (Nodes \X Names) : Updated(l, values) \in View
<1>1. view[l] \in View /\ sock \in 0 .. MaxConns
  BY DEF TypeOK
<1>2. Error(l) \in View
  BY <1>1 DEF Error, View
<1>3. Kept(l) \in SUBSET (Nodes \X Names)
  BY <1>1 DEF Kept, View
<1> QED
  BY <1>1, <1>2, <1>3 DEF Updated, View

\* A subscription command carries a request of one of the listeners.
LEMMA CommandKinds ==
    ASSUME NEW c \in Commands
    PROVE  \/ \E s \in Sessions : c = CreateSession(s) /\ c.command = "create_session"
           \/ \E l \in Listeners : /\ c = Subscribe(l)
                                   /\ c.command = "metrics_subscribe"
                                   /\ c.request = ListenRequest[l]
BY DEF Commands, CreateSession, Subscribe

\* Whatever a node answers is a set of values of known nodes.
LEMMA OutcomesType ==
    ASSUME MetricsAssumption, NEW n \in NodeIds, NEW names \in SUBSET Names,
           NEW o \in Outcomes(n, names)
    PROVE  /\ o.entries \in SUBSET (Nodes \X Names)
           /\ o.failed \in BOOLEAN
<1>1. \A m \in Nodes : Values(m, names) \in SUBSET (Nodes \X Names)
  BY DEF Values
<1>2. \A up \in SUBSET Nodes : UNION {Values(m, names) : m \in up} \in SUBSET (Nodes \X Names)
  BY <1>1
<1>3. CASE n = AllNodes
  <2>1. PICK up \in SUBSET Nodes : o = Answered(UNION {Values(m, names) : m \in up})
    BY <1>3 DEF Outcomes
  <2> QED
    BY <2>1, <1>2 DEF Answered
<1>4. CASE n # AllNodes
  <2>1. \/ n \in Nodes /\ o \in {Answered(Values(n, names)), Failed}
        \/ o \in {Answered({})}
    BY <1>4, Zenon DEF Outcomes
  <2>2. \A e \in SUBSET (Nodes \X Names) :
          Answered(e).entries \in SUBSET (Nodes \X Names) /\ Answered(e).failed \in BOOLEAN
    BY DEF Answered
  <2>3. Failed.entries \in SUBSET (Nodes \X Names) /\ Failed.failed \in BOOLEAN
    BY DEF Failed
  <2>4. CASE n \in Nodes /\ o \in {Answered(Values(n, names)), Failed}
    <3>1. Values(n, names) \in SUBSET (Nodes \X Names)
      BY <2>4, <1>1
    <3> QED
      BY <2>4, <2>2, <2>3, <3>1
  <2>5. CASE o \in {Answered({})}
    BY <2>5, <2>2
  <2> QED
    BY <2>1, <2>4, <2>5
<1> QED
  BY <1>3, <1>4

\* A run of the job, from its parts.
LEMMA RunningType ==
    ASSUME NEW todo \in SUBSET NodeIds, NEW entries \in SUBSET (Nodes \X Names),
           NEW e \in BOOLEAN, NEW asked \in SUBSET (NodeIds \X Names),
           NEW raced \in BOOLEAN
    PROVE  Running(todo, entries, e, asked, raced) \in Job
BY DEF Running, Job

\* A connection that was made is one of Conns.
LEMMA CurrentConnection ==
    ASSUME TypeOK, sock # 0
    PROVE  sock \in Conns
BY DEF TypeOK, Conns

\* Every step keeps the types.
LEMMA TypeStep ==
    ASSUME MetricsAssumption, TypeOK, [Next]_vars
    PROVE  TypeOK'
<1> USE DEF TypeOK, client, server
<1>1. CASE Connect
  <2>1. sock + 1 \in Conns /\ sock' \in 0 .. MaxConns
    BY <1>1 DEF Connect, Conns, MetricsAssumption
  <2> QED
    BY <1>1, <2>1 DEF Connect
<1>2. CASE OnOpen
  <2>1. Greeting \in Seq(Commands)
    BY GreetingType
  <2>2. sock \in Conns
    BY <1>2, CurrentConnection DEF OnOpen
  <2> QED
    BY <1>2, <2>1, <2>2, SMTT(40) DEF OnOpen
<1>3. ASSUME NEW l \in Listeners, Listen(l)
      PROVE  TypeOK'
  <2>1. Subscribe(l) \in Commands
    BY DEF Commands
  <2>2. /\ Append(callbacks, l) \in Seq(Listeners)
        /\ Append(queuedRequests, l) \in Seq(Listeners)
    OBVIOUS
  <2>3. \A k \in Conns : Append(commands[k], Subscribe(l)) \in Seq(Commands)
    BY <2>1
  <2>4. callbacks' \in Seq(Listeners) /\ queuedRequests' \in Seq(Listeners)
    BY <1>3, <2>2 DEF Listen
  <2>5. commands' \in [Conns -> Seq(Commands)]
    <3>1. CASE isOpen
      <4>1. sock \in Conns
        BY <3>1, CurrentConnection
      <4>2. commands' = [commands EXCEPT ![sock] = Append(commands[sock], Subscribe(l))]
        BY <1>3, <3>1 DEF Listen
      <4> QED
        BY <4>1, <4>2, <2>3
    <3>2. CASE ~isOpen
      BY <1>3, <3>2 DEF Listen
    <3> QED
      BY <3>1, <3>2
  <2> QED
    BY <1>3, <2>4, <2>5 DEF Listen
<1>4. CASE OnMessage
  <2>1. sock \in Conns
    BY <1>4, CurrentConnection DEF OnMessage
  <2>2. pushes' \in [Conns -> Seq(Push)]
    BY <1>4, <2>1 DEF OnMessage
  <2>3. Head(pushes[sock]) \in Push
    BY <1>4, <2>1 DEF OnMessage
  <2>4. ASSUME NEW l \in Listeners
        PROVE  Callback(l, Head(pushes[sock])) \in View
    <3>1. Interesting(ListenRequest[l], Head(pushes[sock]).metrics) \in SUBSET (Nodes \X Names)
      BY <2>3 DEF Interesting, Push
    <3>2. view[l] \in View
      OBVIOUS
    <3> HIDE DEF TypeOK
    <3> QED
      BY <3>1, <3>2, CallbackType, TypeOK DEF Callback
  <2>5. view' \in [Listeners -> View]
    BY <1>4, <2>4 DEF OnMessage
  <2> QED
    BY <1>4, <2>2, <2>5 DEF OnMessage
<1>5. CASE OnClose
  <2>1. \A l \in Listeners : Error(l) \in View
    BY CallbackType
  <2>2. view' \in [Listeners -> View]
    BY <1>5, <2>1 DEF OnClose, EverybodyTold
  <2>3. <<>> \in Seq(Push)
    OBVIOUS
  <2>4. pushes' \in [Conns -> Seq(Push)]
    BY <1>5, <2>3 DEF OnClose
  <2> QED
    BY <1>5, <2>2, <2>4 DEF OnClose
<1>6. ASSUME NEW k \in Conns, OnReady(k)
      PROVE  TypeOK'
  BY <1>6 DEF OnReady
<1>7. ASSUME NEW k \in Conns, OnCommand(k)
      PROVE  TypeOK'
  <2>1. commands' \in [Conns -> Seq(Commands)] /\ Head(commands[k]) \in Commands
    BY <1>7 DEF OnCommand
  <2>2. CASE HandleCreateSession(k, Head(commands[k]))
    BY <1>7, <2>1, <2>2 DEF OnCommand, HandleCreateSession
  <2>3. CASE HandleSubscribe(k, Head(commands[k]))
    <3> DEFINE c == Head(commands[k])
    <3>1. PICK l \in Listeners : c.request = ListenRequest[l]
      BY <2>1, <2>3, CommandKinds DEF HandleSubscribe
    <3>2. Pairs(c.request) \in SUBSET (NodeIds \X Names)
      BY <3>1, MetricsAssumption DEF Pairs
    <3>3. metricsPerNode' \in [Conns -> SUBSET (NodeIds \X Names)]
      BY <2>3, <3>2 DEF HandleSubscribe
    <3>4. job[k] \in Job
      OBVIOUS
    <3>5. [job[k] EXCEPT !.raced = TRUE] \in Job
      BY <3>4 DEF Job
    <3>6. job' \in [Conns -> Job]
      <4>1. job' = [job EXCEPT ![k] = [job[k] EXCEPT !.raced = TRUE]] \/ job' = job
        BY <2>3, <3>4 DEF HandleSubscribe
      <4> QED
        BY <4>1, <3>5
    <3> QED
      BY <1>7, <2>1, <2>3, <3>3, <3>6 DEF OnCommand, HandleSubscribe
  <2> QED
    BY <1>7, <2>2, <2>3 DEF OnCommand
<1>8. ASSUME NEW k \in Conns, StartPoll(k)
      PROVE  TypeOK'
  <2>1. KeySet(metricsPerNode[k]) \in SUBSET NodeIds
    BY DEF KeySet
  <2>2. job' \in [Conns -> Job]
    BY <1>8, <2>1, RunningType DEF StartPoll
  <2> QED
    BY <1>8, <2>2 DEF StartPoll
<1>9. ASSUME NEW k \in Conns, NEW n \in NodeIds, PollNode(k, n)
      PROVE  TypeOK'
  <2>1. NamesOf(metricsPerNode[k], n) \in SUBSET Names
    BY DEF NamesOf
  <2>2. PICK o \in Outcomes(n, NamesOf(metricsPerNode[k], n)), rest \in Remaining(k, n) :
           job' = [job EXCEPT ![k] = Running(rest, @.entries \cup o.entries,
                                             @.hasError \/ o.failed, @.asked, @.raced)]
    BY <1>9 DEF PollNode
  <2>3. o.entries \in SUBSET (Nodes \X Names) /\ o.failed \in BOOLEAN
    BY <2>1, OutcomesType
  <2>4. job[k] \in Job
    OBVIOUS
  <2>5. rest \in SUBSET NodeIds
    BY <2>4 DEF Remaining, Job
  <2>6. Running(rest, job[k].entries \cup o.entries, job[k].hasError \/ o.failed,
                job[k].asked, job[k].raced) \in Job
    BY <2>3, <2>4, <2>5 DEF Job, Running
  <2>7. job' \in [Conns -> Job]
    BY <2>2, <2>6
  <2> QED
    BY <1>9, <2>7 DEF PollNode
<1>10. ASSUME NEW k \in Conns, PollAborts(k)
       PROVE  TypeOK'
  <2>1. job' \in [Conns -> Job]
    BY <1>10 DEF PollAborts, Job, Running
  <2> QED
    BY <1>10, <2>1 DEF PollAborts
<1>11. ASSUME NEW k \in Conns, FinishPoll(k)
       PROVE  TypeOK'
  <2>1. PushResponse(job[k]) \in Push
    BY DEF PushResponse, Push, Job
  <2>2. pushes' \in [Conns -> Seq(Push)]
    BY <1>11, <2>1 DEF FinishPoll
  <2>3. job' \in [Conns -> Job]
    BY <1>11 DEF FinishPoll, Job, IdleJob
  <2> QED
    BY <1>11, <2>2, <2>3 DEF FinishPoll
<1>12. ASSUME NEW k \in Conns, OnServerClose(k)
       PROVE  TypeOK'
  BY <1>12 DEF OnServerClose
<1>13. CASE UNCHANGED vars
  BY <1>13 DEF vars
<1> QED
  BY <1>1, <1>2, <1>3, <1>4, <1>5, <1>6, <1>7, <1>8, <1>9, <1>10, <1>11, <1>12,
     <1>13 DEF Next

\* In every behaviour, for every choice of the constants, the variables of the
\* browser, of the connections and of the server keep their types.
THEOREM TypeCorrect == Spec => []TypeOK
<1>1. Init => TypeOK
  BY TypeInit, MetricsAssumption
<1>2. TypeOK /\ [Next]_vars => TypeOK'
  BY TypeStep, MetricsAssumption
<1> QED
  BY <1>1, <1>2, PTL DEF Spec

-----------------------------------------------------------------------------
(* What makes the properties inductive *)

\* Whoever must say when its values are no longer current has a callback, and
\* so will be told when they end.
ViewersAreRegistered ==
    \A l \in Speakers : Status(l) = "data" => l \in Registered

\* Only values that the nodes have are collected and sent.
OnlyAnswers ==
    \A k \in Conns : /\ \A q \in job[k].entries : IsAnswer(q)
                     /\ \A p \in ToSet(pushes[k]) : \A q \in p.metrics : IsAnswer(q)

\* Only components that called listen() have a callback.
RegisteredListen == Registered \subseteq ToSet(queuedRequests)

\* What a running job has kept of the promise of CompleteOrError: what was
\* asked when it began is collected or still to be asked.
JobComplete ==
    \A k \in Conns :
        /\ job[k].asked \subseteq metricsPerNode[k]
        /\ \/ job[k].hasError
           \/ job[k].raced
           \/ \A q \in job[k].asked : q[1] \in job[k].todo \/ Delivered(q, job[k].entries)

-----------------------------------------------------------------------------
(* Who is served *)

\* The steps of the server leave the browser alone.
ServerStep ==
    \E k \in Conns : \/ OnReady(k) \/ OnCommand(k) \/ StartPoll(k)
                     \/ \E n \in NodeIds : PollNode(k, n)
                     \/ PollAborts(k) \/ FinishPoll(k) \/ OnServerClose(k)

LEMMA ServerStepsLeaveBrowser ==
    ASSUME ServerStep
    PROVE  UNCHANGED client
BY DEF ServerStep, OnReady, OnCommand, StartPoll, PollNode, PollAborts, FinishPoll,
       OnServerClose

LEMMA NextCases ==
    ASSUME [Next]_vars
    PROVE  \/ Connect \/ OnOpen \/ (\E l \in Listeners : Listen(l)) \/ OnMessage
           \/ OnClose \/ ServerStep \/ UNCHANGED vars
BY DEF Next, ServerStep

\* A callback is never taken away.
LEMMA RegisteredGrows ==
    ASSUME TypeOK, [Next]_vars
    PROVE  Registered \subseteq Registered'
<1> USE DEF Registered, TypeOK
<1>1. CASE OnOpen
  BY <1>1, ToSetConcat DEF OnOpen
<1>2. ASSUME NEW l \in Listeners, Listen(l)
      PROVE  Registered \subseteq Registered'
  BY <1>2, ToSetAppend, ZenonT(60) DEF Listen
<1>3. CASE Connect \/ OnMessage \/ OnClose \/ ServerStep \/ UNCHANGED vars
  BY <1>3, ServerStepsLeaveBrowser DEF Connect, OnMessage, OnClose, vars, client
<1> QED
  BY <1>1, <1>2, <1>3, NextCases

\* What a component says depends on its state alone.
LEMMA StatusOf ==
    ASSUME NEW l \in Listeners
    PROVE  /\ Speakers' = Speakers
           /\ view'[l] = view[l] => Status(l)' = Status(l) /\ Shown(l)' = Shown(l)
BY DEF Speakers, Status, Shown

\* An error is said by those who can, and adds nothing to what is shown.
LEMMA ErrorSays ==
    ASSUME TypeOK, NEW l \in Listeners, view'[l] = Error(l)
    PROVE  /\ l \in Speakers => Status(l)' = "error"
           /\ l \notin Speakers => Shown(l)' = Shown(l)
           /\ Shown(l)'.values \subseteq Shown(l).values
<1>1. view[l] \in View
  BY DEF TypeOK
<1>2. view'[l].hasError /\ view'[l].values = view[l].values
  BY <1>1 DEF Error, View
<1>3. l \in Speakers => Status(l)' = "error"
  BY <1>2 DEF Status, Speakers
<1>4. CASE l \notin Speakers
  <2>1. Style[l] # "text" /\ Status(l) = "data" /\ Status(l)' = "data"
    BY <1>4 DEF Status, Speakers
  <2> QED
    BY <1>2, <1>4, <2>1 DEF Shown
<1>5. CASE l \in Speakers
  BY <1>2, <1>3, <1>5 DEF Shown
<1> QED
  BY <1>3, <1>4, <1>5

\* At first, those who can say so say that they are loading.
LEMMA NothingSaidFirst ==
    ASSUME Init
    PROVE  \A l \in Speakers : Status(l) = "loading"
<1> SUFFICES ASSUME NEW l \in Speakers
             PROVE  Status(l) = "loading"
  OBVIOUS
<1>1. l \in Listeners /\ Style[l] # "buffer"
  BY DEF Speakers
<1>2. view[l] = NotCalled(l)
  BY <1>1 DEF Init
<1>3. (Style[l] = "buffer") = FALSE
  BY <1>1
<1>4. NotCalled(l) = [initialized |-> FALSE, hasError |-> FALSE, from |-> 0, values |-> {}]
  BY <1>3, Zenon DEF NotCalled
<1> QED
  BY <1>2, <1>4 DEF Status

LEMMA StaleStep ==
    ASSUME TypeOK, NoStaleData, ViewersAreRegistered, [Next]_vars
    PROVE  NoStaleData' /\ ViewersAreRegistered'
<1>0. Speakers' = Speakers /\ Speakers \subseteq Listeners
  BY DEF Speakers
<1>1. CASE Connect \/ OnOpen
  <2>1. ~isOpen /\ UNCHANGED view
    BY <1>1 DEF Connect, OnOpen, TypeOK
  <2>2. \A l \in Speakers : Status(l)' # "data"
    BY <1>0, <2>1, StatusOf DEF NoStaleData
  <2> QED
    BY <1>0, <2>2 DEF NoStaleData, ViewersAreRegistered
<1>2. CASE OnMessage
  <2>1. /\ isOpen /\ UNCHANGED <<isOpen, sock, callbacks>>
        /\ view' = [l \in Listeners |-> IF l \in Registered
                        THEN Callback(l, Head(pushes[sock])) ELSE view[l]]
    BY <1>2 DEF OnMessage
  <2>2. ASSUME NEW l \in Speakers, Status(l)' = "data"
        PROVE  view'[l].from = sock /\ l \in Registered
    <3>1. CASE view'[l] = view[l]
      BY <1>0, <2>2, <3>1, StatusOf DEF NoStaleData, ViewersAreRegistered
    <3>2. CASE view'[l] # view[l]
      <4>1. l \in Registered /\ view'[l] = Callback(l, Head(pushes[sock]))
        BY <1>0, <2>1, <3>2
      <4>2. view'[l] # Error(l)
        BY <1>0, <2>2, ErrorSays
      <4> QED
        BY <3>2, <4>1, <4>2 DEF Callback, Updated
    <3> QED
      BY <3>1, <3>2
  <2>3. Registered' = Registered
    BY <2>1 DEF Registered
  <2> QED
    BY <1>0, <2>1, <2>2, <2>3 DEF NoStaleData, ViewersAreRegistered
<1>3. CASE OnClose
  <2>1. ASSUME NEW l \in Speakers
        PROVE  Status(l)' # "data"
    <3>1. CASE l \in Registered
      <4>1. view'[l] = Error(l)
        BY <1>0, <1>3, <3>1 DEF OnClose, EverybodyTold
      <4> QED
        BY <1>0, <4>1, ErrorSays
    <3>2. CASE l \notin Registered
      <4>1. view'[l] = view[l]
        BY <1>0, <1>3, <3>2 DEF OnClose, EverybodyTold
      <4> QED
        BY <1>0, <3>2, <4>1, StatusOf DEF ViewersAreRegistered
    <3> QED
      BY <3>1, <3>2
  <2> QED
    BY <1>0, <2>1 DEF NoStaleData, ViewersAreRegistered
<1>4. CASE (\E l \in Listeners : Listen(l)) \/ ServerStep \/ UNCHANGED vars
  <2>1. UNCHANGED <<view, isOpen, sock>>
    BY <1>4, ServerStepsLeaveBrowser DEF Listen, vars, client
  <2> QED
    BY <1>0, <2>1, RegisteredGrows, StatusOf DEF NoStaleData, ViewersAreRegistered
<1> QED
  BY <1>1, <1>2, <1>3, <1>4, NextCases

\* A component that can say "unavailable" shows values without saying it only
\* while the connection that brought them is open, whatever the number and
\* styles of components, connections and failures.
THEOREM NoStaleDataHolds == Spec => []NoStaleData
<1>1. Init => NoStaleData /\ ViewersAreRegistered
  BY NothingSaidFirst DEF NoStaleData, ViewersAreRegistered
<1>2. TypeOK /\ NoStaleData /\ ViewersAreRegistered /\ [Next]_vars
         => NoStaleData' /\ ViewersAreRegistered'
  BY StaleStep
<1> QED
  BY <1>1, <1>2, TypeCorrect, PTL DEF Spec

-----------------------------------------------------------------------------
(* Nobody is forgotten *)

\* The subscription of l is with the server, or on its way there.
Subscribed(l) ==
    \/ Subscribe(l) \in ToSet(commands[sock])
    \/ Pairs(ListenRequest[l]) \subseteq metricsPerNode[sock]

\* Handling a command moves a subscription from the wire to the server.
LEMMA CommandKeepsSubscribed ==
    ASSUME TypeOK, isOpen, NEW k \in Conns, OnCommand(k), NEW l \in Listeners, Subscribed(l)
    PROVE  Subscribed(l)'
<1> USE DEF TypeOK
<1>1. sock \in Conns /\ sock' = sock
  BY CurrentConnection DEF OnCommand, client
<1>2. metricsPerNode[sock] \subseteq metricsPerNode'[sock]
  <2>1. CASE HandleCreateSession(k, Head(commands[k]))
    BY <2>1 DEF HandleCreateSession
  <2>2. CASE HandleSubscribe(k, Head(commands[k]))
    BY <1>1, <2>2 DEF HandleSubscribe
  <2> QED
    BY <2>1, <2>2 DEF OnCommand
<1>3. CASE k # sock
  <2>1. commands'[sock] = commands[sock]
    BY <1>1, <1>3 DEF OnCommand
  <2> QED
    BY <1>1, <1>2, <2>1 DEF Subscribed
<1>4. CASE k = sock
  <2>1. commands[sock] \in Seq(Commands) /\ commands[sock] # <<>>
    BY <1>1, <1>4 DEF OnCommand
  <2>2. commands'[sock] = Tail(commands[sock])
    BY <1>1, <1>4 DEF OnCommand
  <2>3. ToSet(commands[sock]) = {Head(commands[sock])} \cup ToSet(commands'[sock])
    BY <2>1, <2>2, ToSetTail
  <2>4. CASE Head(commands[sock]) = Subscribe(l)
    <3>1. HandleSubscribe(sock, Subscribe(l))
      BY <1>4, <2>4 DEF OnCommand, HandleCreateSession, Subscribe
    <3>2. Pairs(ListenRequest[l]) \subseteq metricsPerNode'[sock]
      BY <1>1, <3>1 DEF HandleSubscribe, Subscribe
    <3> QED
      BY <1>1, <3>2 DEF Subscribed
  <2>5. CASE Head(commands[sock]) # Subscribe(l)
    BY <1>1, <1>2, <2>3, <2>5 DEF Subscribed
  <2> QED
    BY <2>4, <2>5
<1> QED
  BY <1>3, <1>4

LEMMA ForgottenStep ==
    ASSUME TypeOK, NoListenerForgotten, [Next]_vars
    PROVE  NoListenerForgotten'
<1> USE DEF TypeOK, NoListenerForgotten
<1>1. CASE Connect
  BY <1>1 DEF Connect
<1>2. CASE OnOpen
  <2>1. sock \in Conns /\ sock' = sock
    BY <1>2, CurrentConnection DEF OnOpen
  <2>2. Registered' = Registered \cup ToSet(queuedRequests)
    BY <1>2, ToSetConcat DEF OnOpen, Registered
  <2>3. Greeting \in Seq(Commands) /\ commands[sock] \in Seq(Commands)
    BY GreetingType, <2>1
  <2>4. ToSet(commands'[sock]) = ToSet(commands[sock]) \cup ToSet(Greeting)
    <3>1. commands'[sock] = commands[sock] \o Greeting
      BY <1>2, <2>1 DEF OnOpen
    <3> QED
      BY <2>3, <3>1, ToSetConcat
  <2>5. ASSUME NEW l \in ToSet(queuedRequests)
        PROVE  Subscribe(l) \in ToSet(Greeting)
    <3> DEFINE requests == [i \in DOMAIN queuedRequests |-> Subscribe(queuedRequests[i])]
    <3>1. requests \in Seq(Commands)
      BY DEF Commands
    <3>2. <<CreateSession(gl2UserSessionId)>> \in Seq(Commands)
      BY DEF Commands
    <3>3. ToSet(requests) \subseteq ToSet(Greeting)
      <4> DEFINE first == <<CreateSession(gl2UserSessionId)>>
      <4>1. Greeting = first \o requests
        BY DEF Greeting
      <4>2. first \in Seq(Commands)
        BY <3>2
      <4> HIDE DEF first, requests
      <4>3. ToSet(first \o requests) = ToSet(first) \cup ToSet(requests)
        BY <3>1, <4>2, ToSetConcat
      <4> QED
        BY <4>1, <4>3
    <3>4. Subscribe(l) \in ToSet(requests)
      BY DEF ToSet
    <3> QED
      BY <3>3, <3>4
  <2>6. queuedRequests' = queuedRequests
    BY <1>2 DEF OnOpen
  <2> QED
    BY <2>1, <2>2, <2>4, <2>5, <2>6
<1>3. ASSUME NEW l \in Listeners, Listen(l), isOpen
      PROVE  NoListenerForgotten'
  <2>1. sock \in Conns /\ UNCHANGED <<sock, metricsPerNode>>
    BY <1>3, CurrentConnection DEF Listen, server
  <2>2. ToSet(queuedRequests') = ToSet(queuedRequests) \cup {l}
    BY <1>3, ToSetAppend DEF Listen
  <2>3. Registered' = Registered \cup {l}
    <3>1. callbacks' = Append(callbacks, l)
      BY <1>3 DEF Listen
    <3> QED
      BY <3>1, ToSetAppend DEF Registered
  <2>4. ToSet(commands'[sock]) = ToSet(commands[sock]) \cup {Subscribe(l)}
    <3>1. commands'[sock] = Append(commands[sock], Subscribe(l))
      BY <1>3, <2>1 DEF Listen
    <3>2. commands[sock] \in Seq(Commands) /\ Subscribe(l) \in Commands
      BY <2>1 DEF Commands
    <3> QED
      BY <3>1, <3>2, ToSetAppend
  <2> QED
    BY <1>3, <2>1, <2>2, <2>3, <2>4
<1>4. ASSUME NEW l \in Listeners, Listen(l), ~isOpen
      PROVE  NoListenerForgotten'
  BY <1>4 DEF Listen
<1>5. CASE OnMessage
  BY <1>5 DEF OnMessage, server, Registered
<1>6. CASE OnClose
  BY <1>6 DEF OnClose
<1>7. ASSUME NEW k \in Conns, OnCommand(k)
      PROVE  NoListenerForgotten'
  <2>1. UNCHANGED <<isOpen, queuedRequests, callbacks, sock>>
    BY <1>7 DEF OnCommand, client
  <2>2. ASSUME isOpen, NEW l \in ToSet(queuedRequests)
        PROVE  l \in Registered' /\ Subscribed(l)'
    <3>1. l \in Listeners /\ Subscribed(l) /\ l \in Registered
      BY <2>2, ToSetType DEF Subscribed
    <3> QED
      BY <1>7, <2>1, <2>2, <3>1, CommandKeepsSubscribed DEF Registered
  <2> QED
    BY <2>1, <2>2 DEF Subscribed
<1>8. CASE ServerStep /\ ~\E k \in Conns : OnCommand(k)
  <2>1. UNCHANGED <<client, commands, metricsPerNode>>
    BY <1>8 DEF ServerStep, OnReady, StartPoll, PollNode, PollAborts, FinishPoll,
                OnServerClose
  <2> QED
    BY <2>1 DEF client, Registered
<1>9. CASE UNCHANGED vars
  BY <1>9 DEF vars, client, server, Registered
<1> QED
  BY <1>1, <1>2, <1>3, <1>4, <1>5, <1>6, <1>7, <1>8, <1>9, NextCases

\* While the connection is open, every component that ever called listen() has
\* a callback and its request is with the server or under way: neither a
\* listen() before onopen nor any number of reconnects loses one.
THEOREM NoListenerForgottenHolds == Spec => []NoListenerForgotten
<1>1. Init => NoListenerForgotten
  BY DEF Init, NoListenerForgotten
<1>2. TypeOK /\ NoListenerForgotten /\ [Next]_vars => NoListenerForgotten'
  BY ForgottenStep
<1> QED
  BY <1>1, <1>2, TypeCorrect, PTL DEF Spec

-----------------------------------------------------------------------------
(* Nothing is silently missing from a push *)

\* The pushes and the jobs change only in four kinds of steps.
LEMMA JobSteps ==
    ASSUME [Next]_vars
    PROVE  \/ UNCHANGED <<pushes, job, metricsPerNode>>
           \/ sock' = sock /\ (OnMessage \/ OnClose)
           \/ \E k \in Conns : OnCommand(k) \/ StartPoll(k) \/ PollAborts(k) \/ FinishPoll(k)
           \/ \E k \in Conns, n \in NodeIds : PollNode(k, n)
BY DEF Next, Connect, OnOpen, Listen, OnMessage, OnClose, OnReady, OnServerClose, vars, server

\* An answer that was not a failure delivers what is asked under the key, and
\* brings only what the nodes have.
LEMMA OutcomeDelivers ==
    ASSUME MetricsAssumption, NEW m \in SUBSET (NodeIds \X Names), NEW n \in NodeIds,
           NEW o \in Outcomes(n, NamesOf(m, n))
    PROVE  /\ o.failed \/ \A q \in m : q[1] = n => Delivered(q, o.entries)
           /\ \A q \in o.entries : IsAnswer(q)
<1>1. NamesOf(m, n) \in SUBSET Names
  BY DEF NamesOf
<1>2. \A i \in Nodes : \A q \in Values(i, NamesOf(m, n)) : IsAnswer(q)
  BY DEF Values, IsAnswer
<1>3. CASE n = AllNodes
  <2>1. PICK up \in SUBSET Nodes : o = Answered(UNION {Values(i, NamesOf(m, n)) : i \in up})
    BY <1>3 DEF Outcomes
  <2>2. \A q \in o.entries : IsAnswer(q)
    BY <2>1, <1>2 DEF Answered
  <2>3. \A q \in m : q[1] = n => Delivered(q, o.entries)
    BY <1>3 DEF MetricsAssumption, Delivered
  <2> QED
    BY <2>2, <2>3
<1>4. CASE n \in Nodes /\ o = Answered(Values(n, NamesOf(m, n)))
  <2>1. \A q \in m : q[1] = n => q[2] \in NamesOf(m, n) /\ q = <<q[1], q[2]>>
    BY DEF NamesOf
  <2>2. \A q \in m : q[1] = n /\ IsAnswer(q) => q \in Values(n, NamesOf(m, n))
    BY <2>1 DEF Values, IsAnswer
  <2> QED
    BY <1>2, <1>4, <2>2 DEF Answered, Delivered
<1>5. CASE o = Failed
  BY <1>5 DEF Failed
<1>6. CASE n \notin Nodes /\ o = Answered({})
  BY <1>6 DEF Answered, Delivered
<1>7. \/ n = AllNodes
      \/ n \in Nodes /\ o \in {Answered(Values(n, NamesOf(m, n))), Failed}
      \/ n \notin Nodes /\ o \in {Answered({})}
  BY Zenon DEF Outcomes
<1> QED
  BY <1>3, <1>4, <1>5, <1>6, <1>7

\* What holds of every push on its way.
PushComplete(p) == p.hasError \/ p.raced \/ \A q \in p.asked : Delivered(q, p.metrics)

\* What holds of the job of connection k.
KeepsComplete(k) ==
    /\ job[k].asked \subseteq metricsPerNode[k]
    /\ \/ job[k].hasError
       \/ job[k].raced
       \/ \A q \in job[k].asked : q[1] \in job[k].todo \/ Delivered(q, job[k].entries)

\* Nothing but the end of a run adds to the pushes.
LEMMA PushesStep ==
    ASSUME TypeOK, [Next]_vars, NEW k \in Conns
    PROVE  \/ ToSet(pushes'[k]) \subseteq ToSet(pushes[k])
           \/ /\ FinishPoll(k)
              /\ ToSet(pushes'[k]) = ToSet(pushes[k]) \cup {PushResponse(job[k])}
<1> USE DEF TypeOK
<1>1. CASE UNCHANGED pushes
  BY <1>1
<1>2. CASE OnMessage
  <2>1. sock \in Conns
    BY <1>2, CurrentConnection DEF OnMessage
  <2>2. ToSet(pushes[sock]) = {Head(pushes[sock])} \cup ToSet(Tail(pushes[sock]))
    BY <1>2, <2>1, ToSetTail DEF OnMessage
  <2> QED
    BY <1>2, <2>1, <2>2 DEF OnMessage
<1>3. CASE OnClose
  BY <1>3 DEF OnClose, ToSet
<1>4. ASSUME NEW c \in Conns, FinishPoll(c)
      PROVE  \/ ToSet(pushes'[k]) \subseteq ToSet(pushes[k])
             \/ /\ FinishPoll(k)
                /\ ToSet(pushes'[k]) = ToSet(pushes[k]) \cup {PushResponse(job[k])}
  <2>1. PushResponse(job[c]) \in Push
    BY DEF PushResponse, Push, Job
  <2>2. CASE c = k /\ pushes' = [pushes EXCEPT ![c] = Append(@, PushResponse(job[c]))]
    <3>1. pushes[k] \in Seq(Push) /\ pushes'[k] = Append(pushes[k], PushResponse(job[k]))
      BY <2>2
    <3> QED
      BY <1>4, <2>1, <2>2, <3>1, ToSetAppend
  <2>3. CASE pushes'[k] = pushes[k]
    BY <2>3
  <2> QED
    BY <1>4, <2>2, <2>3 DEF FinishPoll
<1> QED
  BY <1>1, <1>2, <1>3, <1>4
     DEF Next, Connect, OnOpen, Listen, OnReady, OnServerClose, OnCommand, StartPoll,
         PollNode, PollAborts, vars

LEMMA JobCompleteStep ==
    ASSUME MetricsAssumption, TypeOK, JobComplete, [Next]_vars
    PROVE  JobComplete'
<1> SUFFICES ASSUME NEW k \in Conns
             PROVE  KeepsComplete(k)'
  BY DEF JobComplete, KeepsComplete
<1>0. KeepsComplete(k) /\ job[k] \in Job
  BY DEF JobComplete, KeepsComplete, TypeOK
<1>1. CASE UNCHANGED <<job, metricsPerNode>>
  BY <1>0, <1>1 DEF KeepsComplete
<1>2. ASSUME NEW c \in Conns, OnCommand(c)
      PROVE  KeepsComplete(k)'
  <2>1. metricsPerNode[k] \subseteq metricsPerNode'[k]
    BY <1>2, ZenonT(60) DEF OnCommand, HandleCreateSession, HandleSubscribe, TypeOK
  <2>2. \/ job'[k] = job[k]
        \/ job'[k] = [job[k] EXCEPT !.raced = TRUE]
    <3>1. job' = job \/ job' = [job EXCEPT ![c].raced = TRUE]
      BY <1>2 DEF OnCommand, HandleCreateSession, HandleSubscribe
    <3>2. job' = job \/ job' = [job EXCEPT ![c] = [job[c] EXCEPT !.raced = TRUE]]
      BY <3>1
    <3> QED
      BY <3>2 DEF TypeOK
  <2>3. CASE job'[k] = job[k]
    BY <1>0, <2>1, <2>3 DEF KeepsComplete
  <2>4. CASE job'[k] = [job[k] EXCEPT !.raced = TRUE]
    <3>1. job'[k].raced /\ job'[k].asked = job[k].asked
      BY <1>0, <2>4 DEF Job
    <3> QED
      BY <1>0, <2>1, <3>1 DEF KeepsComplete
  <2> QED
    BY <2>2, <2>3, <2>4
<1>3. ASSUME NEW c \in Conns, NEW n \in NodeIds, PollNode(c, n), c = k
      PROVE  KeepsComplete(k)'
  <2>1. metricsPerNode' = metricsPerNode /\ metricsPerNode[k] \in SUBSET (NodeIds \X Names)
    BY <1>3 DEF PollNode, TypeOK
  <2>2. PICK o \in Outcomes(n, NamesOf(metricsPerNode[k], n)), rest \in Remaining(k, n) :
           job' = [job EXCEPT ![k] = Running(rest, @.entries \cup o.entries,
                                             @.hasError \/ o.failed, @.asked, @.raced)]
    BY <1>3, ZenonT(60) DEF PollNode
  <2>3. /\ job'[k].asked = job[k].asked /\ job'[k].raced = job[k].raced
        /\ job'[k].todo = rest /\ job'[k].entries = job[k].entries \cup o.entries
        /\ job'[k].hasError = (job[k].hasError \/ o.failed)
    BY <2>2 DEF Running, TypeOK
  <2>4. o.failed \/ \A q \in metricsPerNode[k] : q[1] = n => Delivered(q, o.entries)
    BY <2>1, OutcomeDelivers
  <2>5. CASE job[k].raced \/ job[k].hasError \/ o.failed
    BY <1>0, <2>1, <2>3, <2>5 DEF KeepsComplete
  <2>6. CASE ~job[k].raced /\ ~job[k].hasError /\ ~o.failed
    <3>1. rest = job[k].todo \ {n}
      BY <2>6 DEF Remaining
    <3>2. ASSUME NEW q \in job[k].asked
          PROVE  q[1] \in rest \/ Delivered(q, job[k].entries \cup o.entries)
      BY <1>0, <2>4, <2>6, <3>1 DEF KeepsComplete, Delivered
    <3> QED
      BY <1>0, <2>1, <2>3, <3>2 DEF KeepsComplete
  <2> QED
    BY <2>5, <2>6
<1>4. ASSUME NEW c \in Conns, StartPoll(c), c = k
      PROVE  KeepsComplete(k)'
  <2>1. job'[k] = Running(KeySet(metricsPerNode[k]), {}, FALSE, metricsPerNode[k], FALSE)
    BY <1>4 DEF StartPoll, TypeOK
  <2>2. \A q \in metricsPerNode[k] : q[1] \in KeySet(metricsPerNode[k])
    BY DEF KeySet
  <2>3. metricsPerNode' = metricsPerNode
    BY <1>4 DEF StartPoll
  <2> QED
    BY <2>1, <2>2, <2>3 DEF KeepsComplete, Running
<1>5. ASSUME NEW c \in Conns, PollAborts(c), c = k
      PROVE  KeepsComplete(k)'
  <2>1. job'[k] = Running({}, job[k].entries, TRUE, job[k].asked, job[k].raced)
    BY <1>5 DEF PollAborts, TypeOK
  <2> QED
    BY <1>0, <1>5, <2>1 DEF KeepsComplete, Running, PollAborts
<1>6. ASSUME NEW c \in Conns, FinishPoll(c), c = k
      PROVE  KeepsComplete(k)'
  <2>1. job'[k] = IdleJob
    BY <1>6 DEF FinishPoll, TypeOK
  <2> QED
    BY <2>1 DEF KeepsComplete, IdleJob
<1>7. ASSUME NEW c \in Conns, c # k,
             StartPoll(c) \/ PollAborts(c) \/ FinishPoll(c) \/ \E n \in NodeIds : PollNode(c, n)
      PROVE  KeepsComplete(k)'
  <2>1. job'[k] = job[k] /\ metricsPerNode' = metricsPerNode
    BY <1>7 DEF StartPoll, PollAborts, FinishPoll, PollNode, TypeOK
  <2> QED
    BY <1>0, <2>1 DEF KeepsComplete
<1>8. CASE OnMessage \/ OnClose
  BY <1>1, <1>8 DEF OnMessage, OnClose, server
<1> QED
  BY <1>1, <1>2, <1>3, <1>4, <1>5, <1>6, <1>7, <1>8, JobSteps

LEMMA CompleteStep ==
    ASSUME MetricsAssumption, TypeOK, JobComplete, CompleteOrError, [Next]_vars
    PROVE  CompleteOrError'
<1> SUFFICES ASSUME NEW k \in Conns, NEW p \in ToSet(pushes'[k])
             PROVE  PushComplete(p)
  BY DEF CompleteOrError, PushComplete
<1>1. CASE p \in ToSet(pushes[k])
  BY <1>1 DEF CompleteOrError, PushComplete
<1>2. CASE FinishPoll(k) /\ p = PushResponse(job[k])
  <2>1. job[k].todo = {}
    BY <1>2 DEF FinishPoll
  <2> QED
    BY <1>2, <2>1 DEF JobComplete, PushComplete, PushResponse
<1> QED
  BY <1>1, <1>2, PushesStep

\* A push that reports no error, and whose poll was not disturbed by a new
\* node, holds every value that was asked of a known node when it began --
\* whatever the answers of the other nodes, and whoever subscribes meanwhile.
THEOREM CompleteOrErrorHolds == Spec => []CompleteOrError
<1>1. Init => JobComplete /\ CompleteOrError
  BY DEF Init, JobComplete, CompleteOrError, IdleJob, ToSet
<1>2. TypeOK /\ JobComplete /\ [Next]_vars => JobComplete'
  BY JobCompleteStep, MetricsAssumption
<1>3. TypeOK /\ JobComplete /\ CompleteOrError /\ [Next]_vars => CompleteOrError'
  BY CompleteStep, MetricsAssumption
<1> QED
  BY <1>1, <1>2, <1>3, TypeCorrect, PTL DEF Spec

-----------------------------------------------------------------------------
(* The channel implements MetricsFeed *)

LEMMA RegisteredListenStep ==
    ASSUME TypeOK, RegisteredListen, [Next]_vars
    PROVE  RegisteredListen'
<1> USE DEF TypeOK, RegisteredListen, Registered
<1>1. CASE OnOpen
  BY <1>1, ToSetConcat DEF OnOpen
<1>2. ASSUME NEW l \in Listeners, Listen(l)
      PROVE  RegisteredListen'
  <2>1. ToSet(queuedRequests') = ToSet(queuedRequests) \cup {l}
    BY <1>2, ToSetAppend DEF Listen
  <2>2. ToSet(callbacks') \subseteq ToSet(callbacks) \cup {l}
    BY <1>2, ToSetAppend, ZenonT(60) DEF Listen
  <2> QED
    BY <2>1, <2>2
<1>3. CASE Connect \/ OnMessage \/ OnClose \/ ServerStep \/ UNCHANGED vars
  BY <1>3, ServerStepsLeaveBrowser DEF Connect, OnMessage, OnClose, vars, client
<1> QED
  BY <1>1, <1>2, <1>3, NextCases

LEMMA OnlyAnswersStep ==
    ASSUME MetricsAssumption, TypeOK, OnlyAnswers, [Next]_vars
    PROVE  OnlyAnswers'
<1> SUFFICES ASSUME NEW k \in Conns
             PROVE  /\ \A q \in job'[k].entries : IsAnswer(q)
                    /\ \A p \in ToSet(pushes'[k]) : \A q \in p.metrics : IsAnswer(q)
  BY DEF OnlyAnswers, IsAnswer
<1>0. job[k] \in Job /\ \A q \in job[k].entries : IsAnswer(q)
  BY DEF OnlyAnswers, TypeOK
<1>1. \A p \in ToSet(pushes'[k]) : \A q \in p.metrics : IsAnswer(q)
  BY <1>0, PushesStep DEF OnlyAnswers, PushResponse
<1>2. CASE job'[k].entries \in {{}, job[k].entries}
  BY <1>0, <1>1, <1>2
<1>3. CASE UNCHANGED job \/ OnMessage \/ OnClose
  BY <1>2, <1>3 DEF OnMessage, OnClose, server
<1>4. ASSUME NEW c \in Conns, OnCommand(c)
      PROVE  job'[k].entries = job[k].entries
  <2>1. job' = job \/ job' = [job EXCEPT ![c].raced = TRUE]
    BY <1>4 DEF OnCommand, HandleCreateSession, HandleSubscribe
  <2>2. job' = job \/ job' = [job EXCEPT ![c] = [job[c] EXCEPT !.raced = TRUE]]
    BY <2>1
  <2>3. job'[k] = job[k] \/ job'[k] = [job[k] EXCEPT !.raced = TRUE]
    BY <2>2 DEF TypeOK
  <2> QED
    BY <1>0, <2>3 DEF Job
<1>5. ASSUME NEW c \in Conns, StartPoll(c) \/ PollAborts(c) \/ FinishPoll(c)
      PROVE  job'[k].entries \in {{}, job[k].entries}
  <2>1. CASE StartPoll(c)
    BY <2>1 DEF StartPoll, Running, TypeOK
  <2>2. CASE PollAborts(c)
    BY <2>2 DEF PollAborts, Running, TypeOK
  <2>3. CASE FinishPoll(c)
    BY <2>3 DEF FinishPoll, IdleJob, TypeOK
  <2> QED
    BY <1>5, <2>1, <2>2, <2>3
<1>6. ASSUME NEW c \in Conns, NEW n \in NodeIds, PollNode(c, n)
      PROVE  \A q \in job'[k].entries : IsAnswer(q)
  <2>1. PICK o \in Outcomes(n, NamesOf(metricsPerNode[c], n)), rest \in Remaining(c, n) :
           job' = [job EXCEPT ![c] = Running(rest, @.entries \cup o.entries,
                                             @.hasError \/ o.failed, @.asked, @.raced)]
    BY <1>6 DEF PollNode
  <2>2. metricsPerNode[c] \in SUBSET (NodeIds \X Names)
    BY DEF TypeOK
  <2>3. \A q \in o.entries : IsAnswer(q)
    BY <2>1, <2>2, OutcomeDelivers
  <2>4. job'[k].entries \subseteq job[k].entries \cup o.entries
    BY <2>1 DEF Running, TypeOK
  <2> QED
    BY <1>0, <2>3, <2>4
<1> QED
  BY <1>1, <1>2, <1>3, <1>4, <1>5, <1>6, JobSteps

LEMMA FeedInit ==
    ASSUME Init
    PROVE  Feed!Init
<1>1. \A l \in Listeners : Shown(l) = [status |-> IF l \in Speakers THEN "loading" ELSE "data",
                                       values |-> {}]
  BY DEF Init, Shown, Status, Speakers, NotCalled
<1> QED
  BY <1>1 DEF Init, Feed!Init, ToSet

\* Every step of the channel is a step of the feed, or leaves it as it is.
\* What a component comes to show is one of the displays of the feed.
LEMMA ShownType ==
    ASSUME TypeOK'
    PROVE  \A l \in Listeners : Shown(l)' \in Feed!Displays
<1> SUFFICES ASSUME NEW l \in Listeners
             PROVE  Shown(l)' \in Feed!Displays
  OBVIOUS
<1>1. view'[l].values \in SUBSET (Nodes \X Names)
  BY DEF TypeOK, View
<1>2. Status(l)' \in {"loading", "error", "data"}
  BY DEF Status
<1> QED
  BY <1>1, <1>2 DEF Shown, Feed!Displays

\* A component that is given values shows those that it had or wanted.
LEMMA UpdateShows ==
    ASSUME TypeOK, NEW l \in Listeners, NEW values,
           values \subseteq Feed!Wanted(l), view'[l] = Updated(l, values)
    PROVE  /\ Shown(l)'.status = "data"
           /\ Shown(l)'.values \subseteq Shown(l).values \cup Feed!Wanted(l)
<1>1. /\ ~view'[l].hasError /\ view'[l].initialized
      /\ view'[l].values = Kept(l) \cup values
  BY DEF Updated
<1>2. Status(l)' = "data"
  BY <1>1 DEF Status
<1>3. Kept(l) \subseteq Shown(l).values
  BY DEF Kept, Shown
<1> QED
  BY <1>1, <1>2, <1>3 DEF Shown

\* Every step of the channel is a step of the feed, or leaves it as it is.
LEMMA FeedStep ==
    ASSUME MetricsAssumption, TypeOK, ViewersAreRegistered, OnlyAnswers, RegisteredListen,
           RegisteredListen', TypeOK', [Next]_vars
    PROVE  [Feed!Next]_(Feed!vars)
<1> DEFINE shown == [l \in Listeners |-> Shown(l)]
<1>0. shown' \in [Listeners -> Feed!Displays]
  BY ShownType
<1>9. view' = view => shown' = shown
  BY StatusOf
<1>1. CASE UNCHANGED client
  BY <1>1, <1>9 DEF client, Feed!vars
<1>2. CASE Connect
  BY <1>2, <1>9 DEF Connect, Feed!vars
<1>3. CASE OnOpen
  <2>1. Feed!Connect
    BY <1>3, <1>9 DEF OnOpen, Feed!Connect
  <2> QED
    BY <2>1 DEF Feed!Next
<1>4. ASSUME NEW l \in Listeners, Listen(l)
      PROVE  Feed!Next
  <2>1. ToSet(queuedRequests') = ToSet(queuedRequests) \cup {l}
    BY <1>4, ToSetAppend DEF Listen, TypeOK
  <2>2. Feed!Listen(l)
    BY <1>4, <1>9, <2>1 DEF Listen, Feed!Listen
  <2> QED
    BY <2>2 DEF Feed!Next
<1>5. CASE OnMessage
  <2> DEFINE push == Head(pushes[sock])
  <2>1. sock \in Conns /\ push \in ToSet(pushes[sock]) /\ push \in Push
    BY <1>5, CurrentConnection, ToSetTail DEF OnMessage, TypeOK
  <2>2. \A q \in push.metrics : IsAnswer(q) /\ q \in Nodes \X Names
    BY <2>1 DEF OnlyAnswers, Push
  <2>3. ASSUME NEW l \in Listeners
        PROVE  shown'[l] = shown[l] \/ Feed!MayShow(l, shown'[l])
    <3>1. view'[l] = IF l \in Registered THEN Callback(l, push) ELSE view[l]
      BY <1>5 DEF OnMessage
    <3>2. CASE view'[l] = view[l]
      BY <3>2, StatusOf
    <3>3. CASE l \in Registered /\ view'[l] = Error(l)
      <4>1. CASE l \in Speakers
        BY <3>3, <4>1, ErrorSays DEF RegisteredListen, Feed!MayShow, Feed!MaySayError, Shown
      <4>2. CASE l \notin Speakers
        BY <3>3, <4>2, ErrorSays
      <4> QED
        BY <4>1, <4>2
    <3>4. CASE /\ l \in Registered
               /\ view'[l] = Updated(l, Interesting(ListenRequest[l], push.metrics))
      <4>1. Interesting(ListenRequest[l], push.metrics) \subseteq Feed!Wanted(l)
        BY <2>2 DEF Interesting, Concerns, Feed!Wanted, IsAnswer
      <4> QED
        BY <3>4, <4>1, UpdateShows DEF RegisteredListen, Feed!MayShow
    <3> QED
      BY <3>1, <3>2, <3>3, <3>4 DEF Callback
  <2>4. Feed!Update
    BY <1>0, <1>5, <2>3 DEF OnMessage, Feed!Update
  <2> QED
    BY <2>4 DEF Feed!Next
<1>6. CASE OnClose
  <2>1. ASSUME NEW l \in Listeners
        PROVE  \/ Feed!MaySayError(l, shown'[l])
               \/ shown'[l] = shown[l] /\ (l \in Speakers => shown[l].status # "data")
    <3>1. view'[l] = IF l \in Registered THEN Error(l) ELSE view[l]
      BY <1>6 DEF OnClose, EverybodyTold
    <3>2. CASE l \in Registered
      <4>1. CASE l \in Speakers
        BY <3>1, <3>2, <4>1, ErrorSays DEF Feed!MaySayError, Shown
      <4>2. CASE l \notin Speakers
        BY <3>1, <3>2, <4>2, ErrorSays
      <4> QED
        BY <4>1, <4>2
    <3>3. CASE l \notin Registered
      BY <3>1, <3>3, StatusOf DEF Shown, ViewersAreRegistered
    <3> QED
      BY <3>2, <3>3
  <2>2. Feed!Disconnect
    BY <1>0, <1>6, <2>1 DEF OnClose, Feed!Disconnect
  <2> QED
    BY <2>2 DEF Feed!Next
<1>7. ServerStep \/ UNCHANGED vars => UNCHANGED client
  BY ServerStepsLeaveBrowser DEF vars
<1> HIDE DEF shown
<1> QED
  BY <1>1, <1>2, <1>3, <1>4, <1>5, <1>6, <1>7, NextCases
\* Whatever connections, nodes and polls do, the components of a page see a
\* MetricsFeed: they show values only of what they asked for, and those that can
\* say that they have none that are current do so while the channel is down.
THEOREM ChannelImplementsFeed == Spec => FeedSpec
<1>1. Init => ViewersAreRegistered /\ NoStaleData /\ OnlyAnswers /\ RegisteredListen
  <2>1. Init => ViewersAreRegistered /\ NoStaleData
    BY NothingSaidFirst DEF ViewersAreRegistered, NoStaleData
  <2>2. Init => OnlyAnswers /\ RegisteredListen
    BY DEF Init, OnlyAnswers, RegisteredListen, Registered, IdleJob, ToSet
  <2> QED
    BY <2>1, <2>2
<1>2. TypeOK /\ ViewersAreRegistered /\ NoStaleData /\ OnlyAnswers /\ RegisteredListen
        /\ [Next]_vars
      => (ViewersAreRegistered /\ NoStaleData /\ OnlyAnswers /\ RegisteredListen)'
  BY StaleStep, OnlyAnswersStep, RegisteredListenStep, MetricsAssumption
<1>3. TypeOK /\ TypeOK' /\ ViewersAreRegistered /\ OnlyAnswers /\ RegisteredListen
        /\ RegisteredListen' /\ [Next]_vars => [Feed!Next]_(Feed!vars)
  BY FeedStep, MetricsAssumption
<1>4. Init => Feed!Init
  BY FeedInit
<1> QED
  BY <1>1, <1>2, <1>3, <1>4, TypeCorrect, PTL DEF Spec, FeedSpec, Feed!Spec

-----------------------------------------------------------------------------
(* The session is the first thing a connection carries: until the server   *)
(* has it, it is at the head of what was sent, if anything was.            *)

SessionFirst ==
    gl2UserSessionId = "valid" =>
        /\ isOpen => clearSession[sock] \/ commands[sock] # <<>>
        /\ \A k \in Conns :
             /\ metricsPerNode[k] # {} => clearSession[k]
             /\ \/ clearSession[k]
                \/ commands[k] = <<>>
                \/ commands[k] # <<>> /\ Head(commands[k]) = CreateSession("valid")

\* A command sent goes behind those that wait.
LEMMA AppendKeepsHead ==
    ASSUME NEW S, NEW s \in Seq(S), NEW e \in S
    PROVE  /\ Append(s, e) # <<>>
           /\ s # <<>> => Head(Append(s, e)) = Head(s)
<1>1. Append(s, e) \in Seq(S) /\ Len(Append(s, e)) = Len(s) + 1 /\ Len(s) \in Nat
  OBVIOUS
<1>2. Append(s, e) # <<>>
  BY <1>1
<1>3. ASSUME s # <<>>
      PROVE  Head(Append(s, e)) = Head(s)
  <2>1. Len(s) > 0 /\ Append(s, e)[1] = s[1]
    BY <1>3
  <2> QED
    BY <1>1, <1>2, <1>3, <2>1
<1> QED
  BY <1>2, <1>3

\* The head of a sequence stays when something is appended.
LEMMA HeadStays ==
    ASSUME NEW S, NEW s \in Seq(S), NEW t \in Seq(S), t # <<>>
    PROVE  /\ s \o t # <<>>
           /\ s # <<>> => Head(s \o t) = Head(s)
           /\ s = <<>> => Head(s \o t) = Head(t)
  OBVIOUS

LEMMA SessionFirstCommand ==
    ASSUME TypeOK, SessionFirst, gl2UserSessionId = "valid", NEW c \in Conns, OnCommand(c)
    PROVE  SessionFirst'
<1>1. /\ commands[c] \in Seq(Commands) /\ commands[c] # <<>> /\ Head(commands[c]) \in Commands
      /\ commands' = [commands EXCEPT ![c] = Tail(@)] /\ UNCHANGED client
  BY DEF OnCommand, TypeOK
<1>2. \A k \in Conns \ {c} : /\ commands'[k] = commands[k]
                             /\ clearSession'[k] = clearSession[k]
                             /\ metricsPerNode'[k] = metricsPerNode[k]
  BY DEF OnCommand, HandleCreateSession, HandleSubscribe, TypeOK
<1>3. clearSession'[c]
  <2>1. CASE clearSession[c]
    BY <2>1 DEF OnCommand, HandleCreateSession, HandleSubscribe, TypeOK
  <2>2. CASE Head(commands[c]) = CreateSession("valid")
    <3>1. Head(commands[c]).command = "create_session" /\ Head(commands[c]).sessionId = "valid"
      BY <2>2 DEF CreateSession
    <3>2. HandleCreateSession(c, Head(commands[c]))
      BY <3>1 DEF OnCommand, HandleSubscribe
    <3> QED
      BY <3>1, <3>2 DEF HandleCreateSession, TypeOK
  <2> QED
    BY <1>1, <2>1, <2>2 DEF SessionFirst
<1>4. \A k \in Conns : clearSession[k] \/ k = c => clearSession'[k]
  BY <1>2, <1>3
<1>5. isOpen' => clearSession'[sock'] \/ commands'[sock'] # <<>>
  BY <1>1, <1>2, <1>4, CurrentConnection DEF SessionFirst, client, TypeOK
<1>6. ASSUME NEW k \in Conns
      PROVE  /\ metricsPerNode'[k] # {} => clearSession'[k]
             /\ \/ clearSession'[k]
                \/ commands'[k] = <<>>
                \/ commands'[k] # <<>> /\ Head(commands'[k]) = CreateSession("valid")
  <2>1. CASE k = c
    BY <2>1, <1>3
  <2>2. CASE k # c
    BY <2>2, <1>2, Zenon DEF SessionFirst
  <2> QED
    BY <2>1, <2>2
<1> QED
  BY <1>5, <1>6 DEF SessionFirst

LEMMA SessionFirstStep ==
    ASSUME TypeOK, SessionFirst, [Next]_vars
    PROVE  SessionFirst'
<1> SUFFICES ASSUME gl2UserSessionId' = "valid"
             PROVE  SessionFirst'
  BY DEF SessionFirst
<1>0. gl2UserSessionId = "valid"
  <2>1. CASE Connect \/ OnOpen \/ (\E l \in Listeners : Listen(l)) \/ OnMessage \/ OnClose
    BY <2>1 DEF Connect, OnOpen, Listen, OnMessage, OnClose
  <2>2. CASE ServerStep \/ UNCHANGED vars
    BY <2>2, ServerStepsLeaveBrowser DEF vars, client
  <2> QED
    BY <2>1, <2>2, NextCases
<1>1. CASE Connect
  BY <1>0, <1>1 DEF Connect, SessionFirst, TypeOK
<1>2. CASE OnOpen
  <2>1. Greeting \in Seq(Commands) /\ Greeting # <<>> /\ Head(Greeting) = CreateSession("valid")
    BY <1>0, GreetingType DEF Greeting, TypeOK
  <2>2. sock \in Conns /\ commands[sock] \in Seq(Commands)
    BY <1>2, CurrentConnection DEF OnOpen, TypeOK
  <2>3. /\ commands'[sock] # <<>>
        /\ commands[sock] # <<>> => Head(commands'[sock]) = Head(commands[sock])
        /\ commands[sock] = <<>> => Head(commands'[sock]) = CreateSession("valid")
        /\ \A k \in Conns \ {sock} : commands'[k] = commands[k]
    BY <1>2, <2>1, <2>2, HeadStays, SMTT(40) DEF OnOpen, TypeOK
  <2> QED
    BY <1>0, <1>2, <2>2, <2>3 DEF OnOpen, SessionFirst, server
<1>3. ASSUME NEW l \in Listeners, Listen(l)
      PROVE  SessionFirst'
  <2>1. CASE isOpen
    <3>1. sock \in Conns /\ commands[sock] \in Seq(Commands) /\ Subscribe(l) \in Commands
      BY <2>1, CurrentConnection DEF TypeOK, Commands
    <3>2. commands' = [commands EXCEPT ![sock] = Append(@, Subscribe(l))]
      BY <1>3, <2>1 DEF Listen
    <3>3. /\ commands'[sock] # <<>>
          /\ commands[sock] # <<>> => Head(commands'[sock]) = Head(commands[sock])
          /\ \A k \in Conns \ {sock} : commands'[k] = commands[k]
      <4>1. commands'[sock] = Append(commands[sock], Subscribe(l))
        BY <3>1, <3>2 DEF TypeOK
      <4>2. \A k \in Conns \ {sock} : commands'[k] = commands[k]
        BY <3>2 DEF TypeOK
      <4> QED
        BY <3>1, <4>1, <4>2, AppendKeepsHead
    <3> QED
      BY <1>0, <1>3, <2>1, <3>1, <3>3 DEF Listen, SessionFirst, server
  <2>2. CASE ~isOpen
    BY <1>0, <1>3, <2>2 DEF Listen, SessionFirst, server
  <2> QED
    BY <2>1, <2>2
<1>4. CASE OnMessage \/ OnClose \/ UNCHANGED vars
  BY <1>0, <1>4 DEF OnMessage, OnClose, SessionFirst, server, vars, client
<1>5. ASSUME NEW c \in Conns, OnCommand(c)
      PROVE  SessionFirst'
  BY <1>0, <1>5, SessionFirstCommand
<1>6. ASSUME UNCHANGED <<client, commands, clearSession, metricsPerNode>>
      PROVE  SessionFirst'
  BY <1>0, <1>6 DEF SessionFirst, client
<1>7. CASE ServerStep
  BY <1>5, <1>6, <1>7 DEF ServerStep, OnReady, StartPoll, PollNode, PollAborts, FinishPoll, OnServerClose
<1> QED
  BY <1>1, <1>2, <1>3, <1>4, <1>7, NextCases

\* The server has the session before it has a subscription, on every connection
\* there ever is (MetricsStore.onopen sends it first).
THEOREM SessionBeforeSubscriptionsHolds == Spec => []SessionBeforeSubscriptions
<1>1. MetricsAssumption /\ Init => SessionFirst
  BY DEF Init, SessionFirst, Conns
<1>2. TypeOK /\ SessionFirst /\ [Next]_vars => SessionFirst'
  BY SessionFirstStep
<1>3. SessionFirst => SessionBeforeSubscriptions
  BY DEF SessionFirst, SessionBeforeSubscriptions
<1> QED
  BY <1>1, <1>2, <1>3, TypeCorrect, MetricsAssumption, PTL DEF Spec
=============================================================================
