\* Two nodes, two components, one reconnect: the callbacks after it.
SPECIFICATION Spec
CONSTANTS
    n1 = n1
    n2 = n2
    gone = gone
    all = all
    in = in
    out = out
    global = global
    journal = journal
    Nodes = {n1, n2}
    NodeIds = {n1, n2, gone, all}
    AllNodes = all
    Names = {in, out}
    Exposed <- MCExposed
    Listeners = {global, journal}
    ListenRequest <- MCListenRequest
    Style <- MCStyle
    MaxConns = 2
    MaxPushes = 1
INVARIANT OneCallbackPerListener
CHECK_DEADLOCK FALSE
