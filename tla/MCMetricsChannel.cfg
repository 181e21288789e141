\* Two nodes, two components, one reconnect.
SPECIFICATION FairSpec
CONSTANTS
    n1 = n1
    n2 = n2
    gone = gone
    all = all
    in = in
    out = out
    global = global
    journal = journal
    Nodes = {n1, n2}
    NodeIds = {n1, n2, gone, all}
    AllNodes = all
    Names = {in, out}
    Exposed <- MCExposed
    Listeners = {global, journal}
    ListenRequest <- MCListenRequest
    Style <- MCStyle
    MaxConns = 2
    MaxPushes = 1
INVARIANTS
    TypeOK
    NoListenerForgotten
    SessionBeforeSubscriptions
    NoStaleData
    CompleteOrError
PROPERTIES
    FeedSpec
    EveryListenerServed
CHECK_DEADLOCK FALSE
