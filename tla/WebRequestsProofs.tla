-------------------------- MODULE WebRequestsProofs ---------------------------
(***************************************************************************)
(* What holds of the requests of a browser: its types and the way back to  *)
(* a page after the login, whatever the handlers do; and that the user is  *)
(* told what happened, of all handlers that are written as                 *)
(* MessagesAssumption and ChangesAssumption say.  Of a program the proofs  *)
(* use no more than these assumptions and that it has an end.              *)
(***************************************************************************)
EXTENDS WebRequests, TLAPS

LEMMA Addresses ==
    /\ Login # SignIn /\ Login # Lonesome /\ SignIn # Lonesome
    /\ None \notin Public /\ None \notin Names /\ None \notin Targets
    /\ Start \in Names /\ SignOut \in Names
    /\ \A name \in Names : name \notin Public
    /\ \A name \in Names \cup {None} : Onward(name) \in Names /\ Destination(name) \in Names \cup {None}
<1>1. Login # SignIn /\ Login # Lonesome /\ SignIn # Lonesome /\ None \notin Public
  BY DEF Login, SignIn, Lonesome, Public, None
<1> QED
  BY <1>1, HandlersAssumption DEF Targets, Onward, Destination, HandlersRun

LEMMA MessagesType ==
    /\ Silent \in Messages
    /\ \A old, new \in Messages : Joined(old, new) \in Messages
    /\ \A m \in Messages, kind \in Kinds, n \in 0..MaxClicks : [m EXCEPT ![kind] = n] \in Messages
  BY BoundsAssumption DEF Silent, Messages, Joined, Kinds

LEMMA RequestType ==
    ASSUME NEW to \in Targets, NEW dest \in Names \cup {None},
           NEW by \in {"tab", "json", "any", "lost"}
    PROVE  /\ Request(to, dest, by) \in Requests
           /\ Request(to, dest, by).to = to
           /\ Request(to, dest, by).dest = dest
           /\ Request(to, dest, by).by = by
           /\ Request(to, dest, by).pc = 0
  BY MessagesType DEF Request, Requests

LEMMA NoRequestType == NoRequest.to = None /\ NoRequest.pc = 0
  BY DEF NoRequest, Request

-----------------------------------------------------------------------------
(* Types.  What a response does to the browser's part of the state.        *)

Responses == {"page", "error", "crash", "file", "login", "disconnected", "notfound"}
Shape ==
    /\ flash \in Messages
    /\ tab \in Tabs
    /\ told \in {"nothing", "ok", "error"}
    /\ AtRest \/ running \in Requests
    /\ Handling => running.to \in Names /\ running.pc \in DOMAIN Programs[running.to].steps
    /\ kept \subseteq 0..MaxClicks

LEMMA RunningRequest ==
    ASSUME TypeOK, running.to # None
    PROVE  running \in Requests /\ running.pc \in Nat /\ ~AtRest
  BY NoRequestType DEF TypeOK, AtRest, Requests

LEMMA RedirectsEffect ==
    ASSUME TypeOK, running.to # None, NEW to \in Targets, NEW dest \in Names \cup {None},
           NEW said \in Messages, Redirects(to, dest, said)
    PROVE  /\ Shape'
           /\ running'.to = to /\ running'.dest = dest /\ running'.pc = 0
           /\ tab' = tab /\ told' = told
<1>1. flash' \in Messages
  BY MessagesType DEF Redirects, Keep, TypeOK
<1>2. running.by \in {"tab", "json", "any", "lost"}
  BY RunningRequest DEF Requests
<1>3. PICK by \in {"tab", "json", "any", "lost"} : running' = Request(to, dest, by)
  BY <1>2 DEF Redirects
<1>4. /\ running' \in Requests
      /\ running'.to = to /\ running'.dest = dest /\ running'.pc = 0
  BY <1>3, RequestType
<1>5. tab' = tab /\ told' = told /\ kept' = kept
  BY DEF Redirects
<1> QED
  BY <1>1, <1>4, <1>5 DEF Shape, TypeOK, Handling

LEMMA RendersEffect ==
    ASSUME TypeOK, NEW at \in Responses, NEW dest \in Names \cup {None},
           NEW said \in Messages, Renders(at, dest, said)
    PROVE  /\ Shape'
           /\ running' = NoRequest
           /\ at = "file" => tab' = tab
           /\ at # "file" => tab'.at = at /\ tab'.dest = dest
<1>1. flash' \in Messages
  BY MessagesType DEF Renders, Keep, TypeOK
<1>2. Shown(at, said) \in Messages
  <2>1. Joined(flash, said) \in Messages
    BY MessagesType DEF TypeOK
  <2>2. [Joined(flash, said) EXCEPT !.success = 0] \in Messages
    BY <2>1, BoundsAssumption DEF Messages, Kinds
  <2> QED
    BY <2>1, <2>2, MessagesType DEF Shown
<1>3. at # "file" => Tab(at, dest, Shown(at, said)) \in Tabs
  BY <1>2 DEF Tab, Tabs, Responses
<1>4. running' = NoRequest /\ tab' \in Tabs /\ told' = told /\ kept' \subseteq 0..MaxClicks
  BY <1>3 DEF Renders, TypeOK
<1> QED
  BY <1>1, <1>4, NoRequestType DEF Renders, Shape, TypeOK, AtRest, Handling, Tab

LEMMA TellsEffect ==
    ASSUME TypeOK, NEW at, NEW said \in Messages, Tells(at, said)
    PROVE  Shape' /\ running' = NoRequest /\ tab' = tab
<1>1. flash' \in Messages
  BY MessagesType DEF Tells, Keep, TypeOK
<1> QED
  BY <1>1, NoRequestType DEF Tells, Shape, TypeOK, AtRest, Handling

LEMMA SaidType ==
    ASSUME TypeOK, running.to # None, NEW way, Led(way)
    PROVE  Said(way) \in Messages /\ {way.say} \ {"nothing"} \subseteq Kinds
<1>1. running.said \in Messages /\ click \in 0..MaxClicks
  BY RunningRequest DEF TypeOK, Requests
<1> QED
  BY <1>1, MessagesType DEF Said, Led, Kinds

\* A handler leaves the browser with another handler, or with an answer that is
\* not the login page.
LEMMA LeavesEffect ==
    ASSUME TypeOK, Handling, NEW way, Led(way), Leaves(way)
    PROVE  /\ Shape' /\ spoken' \subseteq Kinds
           /\ running'.to \notin Public
           /\ tab' = tab \/ tab'.at # "login"
<1>1. running.to # None
  BY Addresses DEF TypeOK, Handling
<1>2. Said(way) \in Messages /\ spoken' \subseteq Kinds
  BY <1>1, SaidType DEF Leaves, Speaks, TypeOK
<1>3. CASE way.then = "redirect" /\ Redirects(way.to, None, Said(way))
  <2>1. way.to \in Names /\ way.to \in Targets
    BY <1>3 DEF Led, Targets
  <2> QED
    BY <2>1, <1>1, <1>2, <1>3, RedirectsEffect, Addresses
<1>4. CASE way.then # "redirect" /\ Renders(way.then, None, Said(way))
  <2>1. way.then \in Responses /\ way.then # "login"
    BY <1>4 DEF Led, Outcomes, Leaves, Responses
  <2> QED
    BY <2>1, <1>2, <1>4, RendersEffect, NoRequestType, Addresses
<1>5. CASE way.then # "redirect" /\ Tells(way.then, Said(way))
  BY <1>2, <1>5, TellsEffect, NoRequestType, Addresses
<1> QED
  BY <1>3, <1>4, <1>5 DEF Leaves

LEMMA TakesEffect ==
    ASSUME TypeOK, Handling, NEW way, Led(way), Takes(way),
           running.pc + 1 \in DOMAIN Programs[running.to].steps
    PROVE  /\ Shape' /\ spoken' \subseteq Kinds
           /\ running'.to \notin Public
           /\ tab' = tab \/ tab'.at # "login"
<1>1. running.to # None /\ running.to \in Names
  BY Addresses DEF TypeOK, Handling
<1>2. Said(way) \in Messages /\ {way.say} \ {"nothing"} \subseteq Kinds
  BY <1>1, SaidType
<1>3. CASE GoesOn(way)
  <2>1. running \in Requests /\ running.pc \in Nat
    BY <1>1, RunningRequest
  <2> DEFINE next == [running EXCEPT !.pc = @ + 1]
  <2>2. running' = [next EXCEPT !.said = Said(way)]
    BY <1>3 DEF GoesOn
  <2>5. next \in Requests /\ next.to = running.to /\ next.pc = running.pc + 1
    BY <2>1 DEF Requests
  <2> HIDE DEF next
  <2>3. running' \in Requests /\ running'.to = running.to /\ running'.pc = running.pc + 1
    BY <2>2, <2>5, <1>2 DEF Requests
  <2>4. spoken' \subseteq Kinds
    BY <1>2, <1>3 DEF GoesOn, Speaks, TypeOK
  <2>6. UNCHANGED <<flash, tab, told, kept>>
    BY <1>3 DEF GoesOn
  <2> QED
    BY <2>3, <2>4, <2>6, <1>1, Addresses DEF Shape, TypeOK
<1>4. CASE Leaves(way)
  BY <1>4, LeavesEffect
<1> QED
  BY <1>3, <1>4 DEF Takes

LEMMA StepOfHandler ==
    ASSUME TypeOK, Handling
    PROVE  /\ \A way \in Doing.refused \cup Doing.lost : Led(way)
           /\ Doing.do # "end" => running.pc + 1 \in DOMAIN Programs[running.to].steps
           /\ running \in Requests /\ running.to \in Names
<1>1. running.to \in Names /\ running.pc \in DOMAIN Programs[running.to].steps
  BY DEF TypeOK, Handling
<1>2. running \in Requests
  BY <1>1, RunningRequest, Addresses
<1> QED
  BY <1>1, <1>2, HandlersAssumption DEF Doing, HandlersRun

-----------------------------------------------------------------------------
(* The way back: the form of the login page, and the request for that page *)
(* or of that form, hold where the browser was to go.  Only while a browser *)
(* is sent to the login page may the page it leaves hold something else;   *)
(* it will not be sent on from there, for it is not logged in.             *)

WayBack ==
    /\ running.to \in {Login, SignIn} => running.dest = wanted
    /\ tab.at = "login" => IF running.to = Login THEN ~(cookie /\ alive) ELSE tab.dest = wanted
Inv == TypeOK /\ WayBack

\* The user and the scripts.
LEMMA ClicksStep ==
    ASSUME Inv, NEW to \in Targets, NEW by \in {"tab", "json", "any"}, NEW method \in {"get", "post"},
           Clicks(to, by, method), by = "tab" \/ tab.at # "login"
    PROVE  /\ Shape' /\ wanted' = None /\ WayBack'
<1> DEFINE fresh == Request(to, None, by)
<1>1. fresh \in Requests /\ fresh.to = to /\ fresh.dest = None /\ fresh.pc = 0
  BY RequestType
<1>2. running' = [fresh EXCEPT !.method = method]
  BY DEF Clicks
<1> HIDE DEF fresh
<1>3. running' \in Requests /\ running'.to = to /\ running'.dest = None /\ running'.pc = 0
  BY <1>1, <1>2 DEF Requests
<1>4. tab' \in Tabs /\ tab'.at # "login"
  BY MessagesType DEF Clicks, Tab, Tabs, Inv, TypeOK
<1>5. told' = "nothing" /\ wanted' = None /\ UNCHANGED <<cookie, flash, kept>>
  BY DEF Clicks
<1> QED
  BY <1>3, <1>4, <1>5 DEF Inv, TypeOK, Shape, WayBack, Handling

LEMMA ClickStep ==
    ASSUME Inv, NEW name \in Names, Click(name)
    PROVE  Inv'
<1>1. PICK by \in {"tab", "json", "any"}, method \in {"get", "post"} :
        Clicks(name, by, method) /\ (by = "tab" \/ tab.at # "login")
  <2>1. CASE Clicks(name, "tab", "get")
    BY <2>1
  <2>2. CASE Clicks(name, "tab", "post")
    BY <2>2
  <2>3. CASE Programs[name].by \in {"json", "any"} /\ tab.at = "page" /\ Clicks(name, Programs[name].by, "post")
    BY <2>3
  <2> QED
    BY <2>1, <2>2, <2>3 DEF Click
<1>2. name \in Targets
  BY DEF Targets
<1>3. Shape' /\ wanted' = None /\ WayBack'
  BY <1>1, <1>2, ClicksStep
<1>4. click' \in 0..MaxClicks
  BY BoundsAssumption DEF Click, Inv, TypeOK
<1>6. /\ last' \in Names \cup {None} /\ spoken' \subseteq Kinds
      /\ missed' \in BOOLEAN /\ detour' \in BOOLEAN
  BY Zenon DEF Click
<1>5. UNCHANGED <<reachable, connected, alive, granted, changes, cookie>>
  BY <1>1 DEF Click, cluster, Clicks
<1> QED
  BY <1>3, <1>4, <1>5, <1>6 DEF Inv, TypeOK, Shape

LEMMA VisitStep ==
    ASSUME Inv, Visit
    PROVE  Inv'
<1>1. PICK to \in {Login, Lonesome} : Clicks(to, "tab", "get")
  BY DEF Visit
<1>2. Shape' /\ wanted' = None /\ WayBack'
  BY <1>1, ClicksStep DEF Targets, Public
<1>3. UNCHANGED <<reachable, connected, alive, granted, changes, cookie, click, last, missed, spoken>> /\ detour' = TRUE
  BY <1>1 DEF Visit, cluster, Clicks
<1> QED
  BY <1>2, <1>3 DEF Inv, TypeOK, Shape

LEMMA SubmitLoginStep ==
    ASSUME Inv, SubmitLogin
    PROVE  Inv'
<1>1. tab.dest = wanted /\ tab.dest \in Names \cup {None}
  BY NoRequestType, Addresses DEF Inv, WayBack, SubmitLogin, AtRest, TypeOK, Tabs, Public
<1>4. SignIn \in Targets
  BY DEF Targets, Public
<1>2. /\ running' \in Requests /\ running'.to = SignIn /\ running'.pc = 0
      /\ running'.dest = tab.dest
  <2>1. running' = Request(SignIn, tab.dest, "tab")
    BY DEF SubmitLogin
  <2> QED
    BY <2>1, <1>1, <1>4, RequestType
<1>3. UNCHANGED <<reachable, connected, alive, granted, changes, cookie, flash, tab, told,
                  click, last, missed, detour, spoken, kept, wanted>>
  BY DEF SubmitLogin, cluster, history
<1> QED
  BY <1>1, <1>2, <1>3, Addresses DEF Inv, TypeOK, WayBack, Handling

-----------------------------------------------------------------------------
(* Requests as they arrive *)

\* A request for a handler is answered, or sent on, without the login page.
LEMMA AnsweredStep ==
    ASSUME Inv, Shape', spoken' \subseteq Kinds, detour' \in BOOLEAN, missed' \in BOOLEAN,
           running'.to \notin {Login, SignIn}, running.to # Login, cookie' \in BOOLEAN,
           tab' = tab \/ tab'.at # "login",
           UNCHANGED <<cluster, click, last, wanted>>
    PROVE  Inv'
<1>1. TypeOK'
  BY DEF Inv, TypeOK, Shape, cluster
<1> QED
  BY <1>1 DEF Inv, WayBack

LEMMA NoRouteStep ==
    ASSUME Inv, NoRoute
    PROVE  Inv'
<1>1. running.to \in Names /\ running.to # None /\ running.to # Login
  BY Addresses DEF NoRoute, Arriving, Public
<1>2. CASE running.to \in DOMAIN SameAddress /\ Redirects(SameAddress[running.to], None, Silent)
  <2>1. SameAddress[running.to] \in Names /\ SameAddress[running.to] \in Targets
    BY <1>2, HandlersAssumption DEF Targets, HandlersRun
  <2>2. Shape' /\ running'.to = SameAddress[running.to] /\ tab' = tab
    BY <2>1, <1>1, <1>2, RedirectsEffect, MessagesType DEF Inv
  <2> QED
    BY <1>1, <2>1, <2>2, AnsweredStep, Addresses DEF NoRoute, Inv, TypeOK, Public
<1>3. CASE Renders("notfound", None, Silent)
  <2>1. Shape' /\ running' = NoRequest /\ tab'.at = "notfound"
    BY <1>3, RendersEffect, MessagesType DEF Inv, Responses
  <2> QED
    BY <1>1, <2>1, NoRequestType, AnsweredStep, Addresses DEF NoRoute, Inv, TypeOK, Public
<1> QED
  BY <1>2, <1>3 DEF NoRoute

LEMMA AcceptedStep ==
    ASSUME Inv, Accepted
    PROVE  Inv'
<1>1. running.to \in Names /\ running.to # None /\ running.pc = 0
  BY Addresses DEF Accepted, Routed, Arriving
<1>2. running' = [running EXCEPT !.pc = 1] /\ running \in Requests
  BY <1>1, RunningRequest DEF Accepted, Inv
<1>3. running' \in Requests /\ running'.to = running.to /\ running'.pc = 1
  BY <1>2 DEF Requests
<1>4. 1 \in DOMAIN Programs[running.to].steps
  BY <1>1, HandlersAssumption DEF HandlersRun
<1>5. UNCHANGED <<flash, tab, told, kept, cookie, cluster, click, last, missed, detour, spoken, wanted>>
  BY DEF Accepted, history
<1>6. Shape'
  BY <1>1, <1>3, <1>4, <1>5 DEF Inv, TypeOK, Shape, Handling
<1> QED
  BY <1>1, <1>3, <1>5, <1>6, AnsweredStep, Addresses DEF Inv, TypeOK, Public

LEMMA UnavailableStep ==
    ASSUME Inv, Unavailable
    PROVE  Inv'
<1>1. running.to \in Names /\ running.to # None /\ running.to # Login
  BY Addresses DEF Unavailable, Routed, Arriving, Public
<1>2. CASE Redirects(Lonesome, None, Silent)
  <2>1. Shape' /\ running'.to = Lonesome /\ tab' = tab
    BY <1>1, <1>2, RedirectsEffect, MessagesType DEF Inv, Targets, Public
  <2> QED
    BY <1>1, <2>1, AnsweredStep, Addresses DEF Unavailable, Inv, TypeOK
<1>3. CASE Tells("error", Silent)
  <2>1. Shape' /\ running' = NoRequest /\ tab' = tab
    BY <1>3, TellsEffect, MessagesType DEF Inv
  <2> QED
    BY <1>1, <2>1, NoRequestType, AnsweredStep, Addresses DEF Unavailable, Inv, TypeOK, Public
<1> QED
  BY <1>2, <1>3 DEF Unavailable

LEMMA UnauthorizedStep ==
    ASSUME Inv, Unauthorized
    PROVE  Inv'
<1>1. running.to \in Names /\ running.to # None /\ running.to # Login
  BY Addresses DEF Unauthorized, Routed, Arriving, Public
<1>2. CASE Redirects(Login, Destination(running.to), Silent) /\ wanted' = Destination(running.to)
  <2>1. Destination(running.to) \in Names \cup {None}
    BY <1>1, Addresses
  <2>2. /\ Shape' /\ running'.to = Login /\ running'.dest = Destination(running.to)
        /\ tab' = tab
    BY <1>1, <1>2, <2>1, RedirectsEffect, MessagesType DEF Inv, Targets, Public
  <2>3. ~(cookie /\ alive)
    BY DEF Unauthorized, LoggedIn
  <2>4. UNCHANGED <<cookie, cluster, click, last, missed, spoken>> /\ detour' = TRUE
    BY DEF Unauthorized
  <2>5. TypeOK'
    BY <1>2, <2>1, <2>2, <2>4 DEF Inv, TypeOK, Shape, cluster
  <2> QED
    BY <1>2, <2>2, <2>3, <2>4, <2>5 DEF Inv, WayBack, cluster
<1>3. CASE Tells("error", Silent) /\ UNCHANGED wanted
  <2>1. Shape' /\ running' = NoRequest /\ tab' = tab
    BY <1>3, TellsEffect, MessagesType DEF Inv
  <2> QED
    BY <1>1, <1>3, <2>1, NoRequestType, AnsweredStep, Addresses DEF Unauthorized, Inv, TypeOK, Public
<1> QED
  BY <1>2, <1>3 DEF Unauthorized

-----------------------------------------------------------------------------
(* The login page and that of the disconnected interface *)

LEMMA LoginPageEffect ==
    ASSUME Inv, running.to \in {Login, SignIn}, NEW said \in Messages, LoginPage(running.dest, said)
    PROVE  /\ Shape' /\ spoken' \subseteq Kinds /\ running' = NoRequest
           /\ tab'.at = "login" /\ tab'.dest = wanted
<1>1. running.dest = wanted /\ wanted \in Names \cup {None}
  BY DEF Inv, WayBack, TypeOK
<1>2. Renders("login", running.dest, said) /\ spoken' \subseteq Kinds
  BY DEF LoginPage, Inv, TypeOK
<1> QED
  BY <1>1, <1>2, RendersEffect DEF Responses, Inv

LEMMA SaysOnLoginPage ==
    ASSUME Inv
    PROVE  NoServers \in Messages /\ [Silent EXCEPT !.error = click] \in Messages
<1>1. Silent \in Messages /\ click \in 0..MaxClicks /\ 0 \in 0..MaxClicks
  BY MessagesType, BoundsAssumption DEF Inv, TypeOK
<1> QED
  BY <1>1 DEF NoServers, Messages, Kinds

LEMMA LoginIndexStep ==
    ASSUME Inv, LoginIndex
    PROVE  Inv'
<1>1. running.to = Login /\ running.to # None /\ running.dest = wanted /\ wanted \in Names \cup {None}
  BY Addresses DEF LoginIndex, Inv, WayBack, TypeOK, Public
<1>2. CASE LoggedIn /\ Redirects(Onward(running.dest), None, Silent) /\ UNCHANGED spoken
  <2>1. Onward(running.dest) \in Names /\ Onward(running.dest) \in Targets
    BY <1>1, Addresses DEF Targets
  <2>2. Shape' /\ running'.to = Onward(running.dest) /\ tab' = tab
    BY <1>1, <1>2, <2>1, RedirectsEffect, MessagesType DEF Inv
  <2>3. tab.at # "login"
    BY <1>1, <1>2 DEF LoggedIn, Inv, WayBack
  <2>4. UNCHANGED <<cookie, cluster, click, last, missed, detour, wanted, spoken>>
    BY <1>2 DEF LoginIndex
  <2>5. TypeOK'
    BY <2>2, <2>4 DEF Inv, TypeOK, Shape, cluster
  <2> QED
    BY <2>1, <2>2, <2>3, <2>5, Addresses DEF Inv, WayBack, Public
<1>3. CASE LoginPage(running.dest, NoServers)
  <2>1. /\ Shape' /\ spoken' \subseteq Kinds /\ running' = NoRequest
        /\ tab'.at = "login" /\ tab'.dest = wanted
    BY <1>1, <1>3, SaysOnLoginPage, LoginPageEffect
  <2>2. UNCHANGED <<cookie, cluster, click, last, missed, detour, wanted>>
    BY DEF LoginIndex
  <2>3. TypeOK'
    BY <2>1, <2>2 DEF Inv, TypeOK, Shape, cluster
  <2> QED
    BY <2>1, <2>2, <2>3, NoRequestType, Addresses DEF Inv, WayBack, Public
<1> QED
  BY <1>2, <1>3 DEF LoginIndex

LEMMA LoginRefusedStep ==
    ASSUME Inv, LoginRefused
    PROVE  Inv' /\ running' = NoRequest
<1>1. PICK said \in Messages : LoginPage(running.dest, said)
  BY SaysOnLoginPage DEF LoginRefused
<1>2. /\ Shape' /\ spoken' \subseteq Kinds /\ running' = NoRequest
      /\ tab'.at = "login" /\ tab'.dest = wanted
  BY <1>1, LoginPageEffect DEF LoginRefused
<1>3. UNCHANGED <<cookie, cluster, click, last, missed, detour, wanted>>
  BY DEF LoginRefused
<1>4. TypeOK'
  BY <1>2, <1>3 DEF Inv, TypeOK, Shape, cluster
<1> QED
  BY <1>2, <1>3, <1>4, NoRequestType, Addresses DEF Inv, WayBack, Public

LEMMA LoginAcceptedStep ==
    ASSUME Inv, LoginAccepted
    PROVE  Inv' /\ running'.to = Onward(wanted)
<1>1. running.to = SignIn /\ running.to # None /\ running.dest = wanted /\ wanted \in Names \cup {None}
  BY Addresses DEF LoginAccepted, Inv, WayBack, TypeOK, Public
<1>2. Onward(wanted) \in Names /\ Onward(wanted) \in Targets
  BY <1>1, Addresses DEF Targets
<1>3. Shape' /\ running'.to = Onward(wanted) /\ tab' = tab
  BY <1>1, <1>2, RedirectsEffect, MessagesType DEF LoginAccepted, Inv
<1>4. /\ UNCHANGED <<reachable, connected, granted, changes, click, last, missed, detour, spoken, wanted>>
      /\ cookie' \in BOOLEAN /\ alive' \in BOOLEAN
  BY DEF LoginAccepted
<1>5. TypeOK'
  BY <1>3, <1>4 DEF Inv, TypeOK, Shape
<1>6. tab.at = "login" => tab.dest = wanted
  BY <1>1, Addresses DEF Inv, WayBack
<1> QED
  BY <1>2, <1>3, <1>4, <1>5, <1>6, Addresses DEF Inv, WayBack, Public

LEMMA DisconnectedStep ==
    ASSUME Inv, Disconnected
    PROVE  Inv'
<1>1. running.to = Lonesome /\ running.to # None /\ running.to # Login
  BY Addresses DEF Disconnected, Public
<1>2. CASE Redirects(Start, None, Silent)
  <2>1. Shape' /\ running'.to = Start /\ tab' = tab
    BY <1>1, <1>2, RedirectsEffect, MessagesType, Addresses DEF Inv, Targets
  <2> QED
    BY <1>1, <2>1, AnsweredStep, Addresses DEF Disconnected, Inv, TypeOK, Public
<1>3. CASE Renders("disconnected", None, Silent)
  <2>1. Shape' /\ running' = NoRequest /\ tab'.at = "disconnected"
    BY <1>3, RendersEffect, MessagesType DEF Inv, Responses
  <2> QED
    BY <1>1, <2>1, NoRequestType, AnsweredStep, Addresses DEF Disconnected, Inv, TypeOK, Public
<1> QED
  BY <1>2, <1>3 DEF Disconnected

-----------------------------------------------------------------------------
(* The steps of a handler, and the servers *)

LEMMA ProceedsStep ==
    ASSUME Inv, Proceeds
    PROVE  Inv'
<1>1. running \in Requests /\ running.to \in Names /\ running.pc \in Nat
  BY StepOfHandler DEF Proceeds, Inv, Requests
<1>2. running.pc + 1 \in DOMAIN Programs[running.to].steps
  BY StepOfHandler DEF Proceeds, Inv
<1>3. running' = [running EXCEPT !.pc = @ + 1]
  BY DEF Proceeds
<1>4. running' \in Requests /\ running'.to = running.to /\ running'.pc = running.pc + 1
  BY <1>1, <1>3 DEF Requests
<1>5. UNCHANGED <<flash, tab, told, kept, cookie, cluster, click, last, missed, detour, spoken, wanted>>
  BY DEF Proceeds, history
<1>6. Shape'
  BY <1>1, <1>2, <1>4, <1>5 DEF Inv, TypeOK, Shape
<1> QED
  BY <1>1, <1>4, <1>5, <1>6, AnsweredStep, Addresses DEF Inv, TypeOK, Public

LEMMA IsRefusedStep ==
    ASSUME Inv, IsRefused
    PROVE  Inv'
<1>1. running.to \in Names /\ running.pc + 1 \in DOMAIN Programs[running.to].steps
  BY StepOfHandler DEF IsRefused, Inv
<1>2. PICK way \in Doing.refused : Takes(way) /\ Led(way)
  BY StepOfHandler DEF IsRefused, Inv
<1>3. /\ Shape' /\ spoken' \subseteq Kinds
      /\ running'.to \notin Public
      /\ tab' = tab \/ tab'.at # "login"
  BY <1>1, <1>2, TakesEffect DEF IsRefused, Inv
<1>4. missed' \in BOOLEAN /\ detour' \in BOOLEAN
  BY DEF IsRefused, Misses
<1>5. UNCHANGED <<cookie, cluster, click, last, wanted>>
  BY DEF IsRefused
<1> QED
  BY <1>1, <1>3, <1>4, <1>5, AnsweredStep, Addresses DEF Inv, TypeOK, Public

LEMMA IsLostStep ==
    ASSUME Inv, IsLost
    PROVE  Inv'
<1>1. running.to \in Names /\ running.pc + 1 \in DOMAIN Programs[running.to].steps
  BY StepOfHandler DEF IsLost, Inv
<1>2. PICK way \in Doing.lost : Takes(way) /\ Led(way)
  BY StepOfHandler DEF IsLost, Inv
<1>3. /\ Shape' /\ spoken' \subseteq Kinds
      /\ running'.to \notin Public
      /\ tab' = tab \/ tab'.at # "login"
  BY <1>1, <1>2, TakesEffect DEF IsLost, Inv
<1>4. missed' \in BOOLEAN
  BY DEF IsLost, Misses
<1>5. UNCHANGED <<cookie, cluster, click, last, detour, wanted>>
  BY DEF IsLost
<1> QED
  BY <1>1, <1>3, <1>4, <1>5, AnsweredStep, Addresses DEF Inv, TypeOK, Public

LEMMA EndsStep ==
    ASSUME Inv, Ends
    PROVE  Inv'
<1>1. running.to \in Names
  BY StepOfHandler DEF Ends, Inv
<1>2. PICK way \in Doing.refused : Leaves(way) /\ Led(way)
  BY StepOfHandler DEF Ends, Inv
<1>3. /\ Shape' /\ spoken' \subseteq Kinds
      /\ running'.to \notin Public
      /\ tab' = tab \/ tab'.at # "login"
  BY <1>2, LeavesEffect DEF Ends, Inv
<1>4. cookie' \in BOOLEAN
  BY DEF Ends
<1>5. UNCHANGED <<cluster, click, last, missed, detour, wanted>>
  BY DEF Ends
<1> QED
  BY <1>1, <1>3, <1>4, <1>5, AnsweredStep, Addresses DEF Inv, TypeOK, Public

LEMMA ServersStep ==
    ASSUME Inv, Refresh \/ ServersGoOrCome \/ Expire
    PROVE  Inv'
<1>1. UNCHANGED <<granted, browser, history>>
  BY DEF Refresh, ServersGoOrCome, Expire
<1>2. reachable' \in BOOLEAN /\ connected' \in BOOLEAN
  BY DEF Refresh, ServersGoOrCome, Expire, Inv, TypeOK
<1>3. alive' \in BOOLEAN /\ (alive' => alive)
  <2>1. alive' = FALSE \/ alive' = alive
    BY Zenon DEF Refresh, ServersGoOrCome, Expire
  <2>2. CASE alive' = FALSE
    BY <2>2, Zenon
  <2>3. CASE alive' = alive
    BY <2>3, Zenon DEF Inv, TypeOK
  <2> QED
    BY <2>1, <2>2, <2>3, Zenon
<1>4. changes' \in 0..MaxChanges
  BY BoundsAssumption DEF Refresh, ServersGoOrCome, Expire, Inv, TypeOK
<1> QED
  BY <1>1, <1>2, <1>3, <1>4 DEF Inv, TypeOK, WayBack, browser, history, AtRest, Handling

-----------------------------------------------------------------------------
LEMMA InitInv ==
    ASSUME Init
    PROVE  Inv
<1>1. /\ reachable \in BOOLEAN /\ connected \in BOOLEAN /\ alive \in BOOLEAN /\ cookie \in BOOLEAN
      /\ missed \in BOOLEAN /\ detour \in BOOLEAN /\ granted \in Grants
  BY Zenon DEF Init
<1>3. changes \in 0..MaxChanges /\ click \in 0..MaxClicks
  BY BoundsAssumption DEF Init
<1>4. Shape
  BY MessagesType, NoRequestType DEF Init, Shape, AtRest, Handling, Tab, Tabs
<1>2. WayBack
  BY NoRequestType, Addresses DEF Init, WayBack, Tab, Public
<1> QED
  BY <1>1, <1>2, <1>3, <1>4 DEF Inv, TypeOK, Shape, Init

LEMMA NextInv ==
    ASSUME Inv, [Next]_vars
    PROVE  Inv'
<1>1. CASE \E name \in Names : Click(name)
  BY <1>1, ClickStep
<1>2. CASE SubmitLogin \/ Visit
  BY <1>2, SubmitLoginStep, VisitStep
<1>3. CASE NoRoute \/ Accepted \/ Unavailable \/ Unauthorized
  BY <1>3, NoRouteStep, AcceptedStep, UnavailableStep, UnauthorizedStep
<1>4. CASE LoginIndex \/ LoginRefused \/ LoginAccepted \/ Disconnected
  BY <1>4, LoginIndexStep, LoginRefusedStep, LoginAcceptedStep, DisconnectedStep
<1>5. CASE Proceeds \/ IsRefused \/ IsLost \/ Ends
  BY <1>5, ProceedsStep, IsRefusedStep, IsLostStep, EndsStep
<1>6. CASE Refresh \/ ServersGoOrCome \/ Expire
  BY <1>6, ServersStep
<1>7. CASE UNCHANGED vars
  BY <1>7 DEF vars, cluster, browser, history, Inv, TypeOK, WayBack, AtRest, Handling
<1> QED
  BY <1>1, <1>2, <1>3, <1>4, <1>5, <1>6, <1>7 DEF Next, Serve

LEMMA InvHolds == Spec => []Inv
<1>1. Init => Inv
  BY InitInv
<1>2. Inv /\ [Next]_vars => Inv'
  BY NextInv
<1> QED
  BY <1>1, <1>2, PTL DEF Spec

\* The type invariant, for any handlers, users and numbers of clicks.
THEOREM TypeCorrect == Spec => []TypeOK
<1>1. Inv => TypeOK
  BY DEF Inv
<1> QED
  BY <1>1, InvHolds, PTL

\* Whoever signs in goes on to where the browser was sent away from, however
\* many refused attempts, failures of the servers and redirects lie between
\* (SessionsController.create, RedirectAuthenticator.onUnauthorized).
THEOREM LoginLeadsBackHolds == Spec => LoginLeadsBack
<1> DEFINE Back == running.to = SignIn /\ running'.to \in Targets \ {SignIn} => running'.to = Onward(wanted)
<1>1. Inv /\ [Next]_vars => [Back]_vars
  <2> SUFFICES ASSUME Inv, Next, running.to = SignIn, running'.to \in Targets \ {SignIn}
               PROVE  running'.to = Onward(wanted)
    OBVIOUS
  <2>1. running.to \notin Names /\ running.to # None /\ ~AtRest /\ ~Arriving /\ ~Handling
    BY NoRequestType, Addresses DEF Public, AtRest, Arriving, Handling, Inv, TypeOK
  <2>2. running' # running
    OBVIOUS
  <2>3. ~(\E name \in Names : Click(name)) /\ ~SubmitLogin /\ ~Visit
    BY <2>1 DEF Click, Clicks, SubmitLogin, Visit
  <2>4. ~NoRoute /\ ~Accepted /\ ~Unavailable /\ ~Unauthorized
    BY <2>1 DEF NoRoute, Accepted, Unavailable, Unauthorized, Routed
  <2>5. ~Proceeds /\ ~IsRefused /\ ~IsLost /\ ~Ends
    BY <2>1 DEF Proceeds, IsRefused, IsLost, Ends
  <2>6. ~Refresh /\ ~ServersGoOrCome /\ ~Expire
    BY <2>2 DEF Refresh, ServersGoOrCome, Expire, browser
  <2>7. ~LoginIndex /\ ~Disconnected
    BY Addresses DEF LoginIndex, Disconnected
  <2>8. ~LoginRefused
    BY LoginRefusedStep, NoRequestType, Addresses
  <2>9. LoginAccepted
    BY <2>3, <2>4, <2>5, <2>6, <2>7, <2>8 DEF Next, Serve
  <2> QED
    BY <2>9, LoginAcceptedStep
<1>2. Spec => [][Back]_vars
  BY <1>1, InvHolds, PTL DEF Spec
<1> QED
  BY <1>2 DEF LoginLeadsBack

-----------------------------------------------------------------------------
(* What the user is told.  None of the three properties is inductive: they *)
(* speak of a browser at rest, and need to know of the request under way,  *)
(* of the messages in the cookie, and of the requests that may still come  *)
(* of it after a login.                                                    *)

\* After a click the browser goes to the handler that was clicked, in the way
\* in which it is reached, and then only where others redirect; it shows the
\* login page after a detour only.

By(name) == IF Scripted(name) THEN Programs[name].by ELSE "tab"
Reached(name, by) == name \in Followed \/ (name = last /\ by = By(name))
Changing(name) == name \in Names /\ Changes(name)

Course ==
    /\ running.to \in Names => Reached(running.to, running.by)
    /\ running.to \in Public => running.by = "tab" /\ detour
    /\ running.dest # None => running.to \in Public /\ Reached(running.dest, "tab")
    /\ tab.at = "login" => detour /\ told = "nothing" /\ (tab.dest # None => Reached(tab.dest, "tab"))
    /\ ~AtRest => IF running.by = "tab" THEN tab.at \in {"blank", "login"} /\ told = "nothing"
                  ELSE tab.at = "page"

\* Messages are of this click, or were shown before; those that a handler has
\* ready while it runs are not of success, and scripts and pages that others
\* redirect to have none.
Known(n) == n \in {0, click} \cup kept
Mail ==
    /\ \A kind \in Kinds :
         /\ flash[kind] <= click /\ Known(flash[kind])
         /\ AtRest => flash[kind] \in {0} \cup kept
         /\ tab.shown[kind] <= click
         /\ running.said[kind] \in {0, click}
    /\ running.said["success"] = 0
    /\ running.pc = 0 \/ running.by # "tab" \/ running.to \in Followed => running.said = Silent

\* No success is told while a handler that changes something runs or has yet to
\* run, and until then nothing was missed.
Unsaid(m) == m["success"] = 0 \/ m["success"] # click
Untold == Unsaid(flash) /\ Unsaid(tab.shown) /\ told # "ok"
Undone ==
    /\ Changing(running.to) => Untold /\ (running.pc = 0 => ~missed)
    /\ Changing(running.dest) => Untold /\ ~missed
    /\ AtRest /\ tab.at = "login" /\ Changing(tab.dest) => Untold /\ ~missed

\* Once something was missed no success has been told, and what still runs does
\* not tell of one: the handler, or a page that a change led to.
Unpromised ==
    missed => /\ Changing(last)
              /\ last \notin SayDoneAnyway =>
                   /\ Untold
                   /\ ~AtRest =>
                        \/ Handling /\ running.to = last /\ \A way \in Ways(last) : ~Promises(last, way)
                        \/ running.to \in Public \cup Followed /\ running.by \in {"tab", "lost"}

\* What was said is on its way to a page that shows it: in the cookie, or ready
\* to be put there.
Carried ==
    ~AtRest /\ running.by = "tab" /\ ~detour /\ spoken # {} =>
        /\ \A kind \in spoken : click \in {running.said[kind], flash[kind]}
        /\ \/ running.to \in Landing
           \/ Handling /\ Notes(running.to) /\ \A kind \in spoken : running.said[kind] = click

\* What was missed has been admitted: a message was said, or the script was lost
\* to a redirect, or it can be seen.
Admitted ==
    missed /\ ~detour /\ last \notin FailSilently =>
        IF AtRest THEN \/ told = "error"
                       \/ tab.at \in {"error", "crash"}
                       \/ tab.at = "page" /\ tab.shown["error"] = click
        ELSE running.by = "lost" \/ (running.by = "tab" /\ "error" \in spoken)

Honest == Course /\ Mail /\ Undone /\ Unpromised /\ Carried /\ Admitted /\ MessagesArrive

-----------------------------------------------------------------------------
(* What the assumptions say of the step a handler is at *)

LEMMA WayOfHandler ==
    ASSUME TypeOK, Handling, NEW way \in WaysOf(Doing)
    PROVE  /\ running.to \in Names /\ way \in Ways(running.to) /\ Led(way)
           /\ Doing \in Steps(running.to)
           /\ way.then = "redirect" => way.to \in Followed
<1>1. running.to \in Names /\ running.pc \in DOMAIN Programs[running.to].steps
  BY DEF TypeOK, Handling
<1>2. Doing \in Steps(running.to)
  BY <1>1 DEF Doing, Steps
<1>3. way \in Ways(running.to)
  BY <1>2 DEF Ways
<1>4. Led(way)
  BY StepOfHandler DEF WaysOf
<1>5. way.then = "redirect" => way.to \in Followed
  BY <1>1, <1>3 DEF Followed
<1> QED
  BY <1>1, <1>2, <1>3, <1>4, <1>5

LEMMA WayOfMessages ==
    ASSUME TypeOK, Handling, NEW way \in WaysOf(Doing)
    PROVE  /\ way.then = "redirect" /\ Says(way) => way.to \in Landing
           /\ way.then = "redirect" /\ Notes(running.to) /\ Doing.do # "may" => way.to \in Landing
           /\ Says(way) /\ (running.to \in Followed \/ Scripted(running.to)) => way.then = "redirect"
           /\ way.then = "file" => /\ ~Says(way) /\ ~Notes(running.to)
                                   /\ ~Changes(running.to) /\ running.to \notin Followed
           /\ way.then = "on" /\ Says(way) => Notes(running.to)
           /\ running.to \in Landing => /\ Programs[running.to].by = "link"
                                        /\ way.then = "redirect" /\ Doing.do # "may" => Says(way)
<1>1. running.to \in Names /\ way \in Ways(running.to) /\ Doing \in Steps(running.to)
  BY WayOfHandler
<1>2. way.then = "on" /\ Says(way) => Notes(running.to)
  BY <1>1 DEF Notes
<1>3. running.to \in Landing => /\ Programs[running.to].by = "link"
                                /\ way.then = "redirect" /\ Doing.do # "may" => Says(way)
  BY <1>1 DEF Landing
<1> QED
  BY <1>1, <1>2, <1>3, MessagesAssumption, Zenon DEF MessagesArePosted

LEMMA WayOfChanges ==
    ASSUME TypeOK, Handling, NEW way \in WaysOf(Doing)
    PROVE  /\ running.to \in Followed => ~Changes(running.to) /\ way.say # "success"
           /\ way.then = "on" => way.say # "success"
           /\ Changes(running.to) /\ Doing.do \in {"read", "write"} =>
                /\ running.to \notin SayDoneAnyway =>
                     /\ ~Promises(running.to, way)
                     /\ way.then = "on" => \A later \in Ways(running.to) : ~Promises(running.to, later)
                /\ running.to \notin FailSilently => Admits(running.to, way)
<1>1. running.to \in Names /\ way \in Ways(running.to) /\ Doing \in Steps(running.to)
  BY WayOfHandler
<1> QED
  BY <1>1, ChangesAssumption, Zenon DEF ChangesAreReported

LEMMA FollowedNames ==
    /\ Followed \subseteq Names /\ Start \in Followed
    /\ \A name \in Followed : ~Changes(name)
    /\ \A name \in DOMAIN SameAddress : SameAddress[name] \in Followed
<1>1. \A name \in Names : \A way \in Ways(name) : way.then = "redirect" => way.to \in Names
  BY HandlersAssumption DEF Ways, WaysOf, Steps, Led, HandlersRun
<1>2. Followed \subseteq Names
  BY <1>1, HandlersAssumption DEF Followed, HandlersRun
<1>3. \A name \in Followed : ~Changes(name)
  BY ChangesAssumption, Zenon DEF ChangesAreReported
<1> QED
  BY <1>2, <1>3 DEF Followed

-----------------------------------------------------------------------------
(* What a step leaves in the cookie and in the tab, field by field *)

LEMMA SilentFacts == \A kind \in Kinds : Silent[kind] = 0
  BY DEF Silent

LEMMA JoinedFacts ==
    ASSUME NEW old \in Messages, NEW new \in Messages
    PROVE  \A kind \in Kinds : Joined(old, new)[kind] = IF new[kind] = 0 THEN old[kind] ELSE new[kind]
  BY DEF Joined

LEMMA SpeechFacts ==
    ASSUME NEW said \in Messages
    PROVE  said = Silent <=> \A kind \in Kinds : said[kind] = 0
  BY DEF Silent, Messages

LEMMA KeepFacts ==
    ASSUME TypeOK, NEW said \in Messages, Keep(said)
    PROVE  \A kind \in Kinds :
             flash'[kind] = IF said = Silent THEN 0 ELSE IF said[kind] = 0 THEN flash[kind] ELSE said[kind]
<1>1. flash \in Messages
  BY DEF TypeOK
<1>2. CASE said = Silent
  BY <1>2, SilentFacts DEF Keep
<1>3. CASE said # Silent
  BY <1>1, <1>3, JoinedFacts DEF Keep
<1> QED
  BY <1>2, <1>3

LEMMA RequestFacts ==
    ASSUME NEW to, NEW dest, NEW by
    PROVE  /\ Request(to, dest, by).to = to /\ Request(to, dest, by).dest = dest
           /\ Request(to, dest, by).by = by /\ Request(to, dest, by).pc = 0
           /\ Request(to, dest, by).method = "get" /\ Request(to, dest, by).said = Silent
  BY DEF Request

LEMMA RestFacts ==
    /\ NoRequest.to = None /\ NoRequest.dest = None /\ NoRequest.by = "tab" /\ NoRequest.pc = 0
    /\ NoRequest.said = Silent
  BY RequestFacts DEF NoRequest

LEMMA RedirectsFacts ==
    ASSUME TypeOK, NEW to, to # None, NEW dest, NEW said \in Messages, Redirects(to, dest, said)
    PROVE  /\ running'.to = to /\ running'.dest = dest /\ running'.pc = 0 /\ running'.said = Silent
           /\ running'.by = IF running.by = "json" THEN "lost" ELSE running.by
           /\ ~AtRest' /\ ~Handling'
           /\ UNCHANGED <<tab, told, kept>>
           /\ \A kind \in Kinds :
                flash'[kind] = IF said = Silent THEN 0 ELSE IF said[kind] = 0 THEN flash[kind] ELSE said[kind]
<1>1. Keep(said) /\ UNCHANGED <<tab, told, kept>>
  BY DEF Redirects
<1>2. /\ running'.to = to /\ running'.dest = dest /\ running'.pc = 0 /\ running'.said = Silent
      /\ running'.by = IF running.by = "json" THEN "lost" ELSE running.by
  BY RequestFacts DEF Redirects
<1> QED
  BY <1>1, <1>2, KeepFacts, RestFacts DEF AtRest, Handling

LEMMA RendersFacts ==
    ASSUME TypeOK, NEW at \in Responses, NEW dest, NEW said \in Messages, Renders(at, dest, said)
    PROVE  /\ running.by = "tab"
           /\ running' = NoRequest /\ AtRest' /\ ~Handling'
           /\ told' = told
           /\ kept' = IF said = Silent THEN kept ELSE kept \cup {click}
           /\ at = "file" => tab' = tab
           /\ at # "file" => tab'.at = at /\ tab'.dest = dest
           /\ at \in {"page", "error"} =>
                \A kind \in Kinds : tab'.shown[kind] = IF said[kind] = 0 THEN flash[kind] ELSE said[kind]
           /\ at = "login" => tab'.shown["success"] = 0 /\ (tab'.shown["error"] = IF said["error"] = 0 THEN flash["error"] ELSE said["error"])
           /\ at \in {"crash", "notfound", "disconnected"} => tab'.shown = Silent
           /\ \A kind \in Kinds :
                flash'[kind] = IF said = Silent THEN 0 ELSE IF said[kind] = 0 THEN flash[kind] ELSE said[kind]
<1>1. /\ Keep(said) /\ running.by = "tab" /\ running' = NoRequest /\ told' = told
      /\ kept' = IF said = Silent THEN kept ELSE kept \cup {click}
      /\ tab' = IF at = "file" THEN tab ELSE Tab(at, dest, Shown(at, said))
  BY DEF Renders
<1>2. AtRest' /\ ~Handling'
  BY <1>1, RestFacts DEF AtRest, Handling
<1>3. at # "file" => tab'.at = at /\ tab'.dest = dest /\ tab'.shown = Shown(at, said)
  BY <1>1 DEF Tab
<1>4. flash \in Messages
  BY DEF TypeOK
<1>5. at \in {"page", "error"} => Shown(at, said) = Joined(flash, said)
  BY DEF Shown
<1>6. at = "login" => /\ Shown(at, said)["success"] = 0
                      /\ Shown(at, said)["error"] = Joined(flash, said)["error"]
  BY DEF Shown, Joined, Kinds
<1>7. at \in {"crash", "notfound", "disconnected"} => Shown(at, said) = Silent
  BY DEF Shown
<1>8. "error" \in Kinds
  BY DEF Kinds
<1> QED
  BY <1>1, <1>2, <1>3, <1>4, <1>5, <1>6, <1>7, <1>8, KeepFacts, JoinedFacts

LEMMA TellsFacts ==
    ASSUME TypeOK, NEW at, NEW said \in Messages, Tells(at, said)
    PROVE  /\ running.by # "tab"
           /\ running' = NoRequest /\ AtRest' /\ ~Handling'
           /\ told' = IF at = "page" /\ running.by # "lost" THEN "ok" ELSE "error"
           /\ UNCHANGED <<tab, kept>>
           /\ \A kind \in Kinds :
                flash'[kind] = IF said = Silent THEN 0 ELSE IF said[kind] = 0 THEN flash[kind] ELSE said[kind]
<1>1. /\ Keep(said) /\ running.by # "tab" /\ running' = NoRequest /\ UNCHANGED <<tab, kept>>
      /\ told' = IF at = "page" /\ running.by # "lost" THEN "ok" ELSE "error"
  BY DEF Tells
<1>2. AtRest' /\ ~Handling'
  BY <1>1, RestFacts DEF AtRest, Handling
<1> QED
  BY <1>1, <1>2, KeepFacts

LEMMA SaidFacts ==
    ASSUME TypeOK, Handling, NEW way, Led(way)
    PROVE  /\ Said(way) \in Messages
           /\ \A kind \in Kinds : Said(way)[kind] = IF way.say = kind THEN click ELSE running.said[kind]
           /\ ~Says(way) => Said(way) = running.said
<1>1. running.said \in Messages /\ running.to # None
  BY StepOfHandler, Addresses DEF Requests
<1>2. Said(way) \in Messages
  BY <1>1, SaidType
<1>3. CASE way.say = "nothing"
  BY <1>1, <1>2, <1>3 DEF Said, Says, Kinds
<1>4. CASE way.say # "nothing"
  BY <1>1, <1>2, <1>4 DEF Said, Says, Led, Kinds, Messages
<1> QED
  BY <1>3, <1>4, <1>2

LEMMA GoesOnFacts ==
    ASSUME TypeOK, Handling, NEW way, Led(way), GoesOn(way)
    PROVE  /\ running'.to = running.to /\ running'.dest = running.dest /\ running'.by = running.by
           /\ running'.pc = running.pc + 1 /\ running'.said = Said(way)
           /\ ~AtRest' /\ Handling'
           /\ UNCHANGED <<flash, tab, told, kept>>
<1>1. running \in Requests /\ running.to # None /\ running.pc \in Nat /\ running.pc > 0
  BY StepOfHandler, Addresses DEF Requests, Handling
<1>2. /\ running'.to = running.to /\ running'.dest = running.dest /\ running'.by = running.by
      /\ running'.pc = running.pc + 1 /\ running'.said = Said(way)
  BY <1>1 DEF GoesOn, Requests
<1>3. ~AtRest' /\ Handling'
  BY <1>1, <1>2, RestFacts DEF AtRest, Handling
<1> QED
  BY <1>2, <1>3 DEF GoesOn

-----------------------------------------------------------------------------
(* A step of a handler by one of its ways *)

Stepped(way) ==
    /\ Handling /\ way \in WaysOf(Doing) /\ Takes(way)
    /\ missed' => missed \/ (Doing.do \in {"read", "write"} /\ Changes(running.to))
    /\ detour \/ Doing.do = "may" => detour'
    /\ UNCHANGED <<click, last>>

GoingOn(way) ==
    /\ way.then = "on"
    /\ running'.to = running.to /\ running'.dest = running.dest /\ running'.by = running.by
    /\ running'.pc = running.pc + 1 /\ running'.said = Said(way)
    /\ ~AtRest' /\ Handling'
    /\ UNCHANGED <<flash, tab, told, kept>>
Redirected(way) ==
    /\ way.then = "redirect" /\ way.to \in Followed
    /\ running'.to = way.to /\ running'.dest = None /\ running'.pc = 0 /\ running'.said = Silent
    /\ running'.by = IF running.by = "json" THEN "lost" ELSE running.by
    /\ ~AtRest' /\ ~Handling'
    /\ UNCHANGED <<tab, told, kept>>
Rendered(way) ==
    /\ way.then \in {"page", "error", "crash", "file"}
    /\ running.by = "tab"
    /\ running' = NoRequest /\ AtRest' /\ ~Handling'
    /\ told' = told
    /\ kept' = IF Said(way) = Silent THEN kept ELSE kept \cup {click}
    /\ way.then = "file" => tab' = tab
    /\ way.then # "file" => tab'.at = way.then /\ tab'.dest = None
    /\ way.then \in {"page", "error"} =>
         \A kind \in Kinds : tab'.shown[kind] = IF Said(way)[kind] = 0 THEN flash[kind] ELSE Said(way)[kind]
    /\ way.then = "crash" => tab'.shown = Silent
TellsAnswer(way) ==
    /\ way.then \in {"page", "error", "crash", "file"}
    /\ running.by # "tab"
    /\ running' = NoRequest /\ AtRest' /\ ~Handling'
    /\ told' = IF way.then = "page" /\ running.by # "lost" THEN "ok" ELSE "error"
    /\ UNCHANGED <<tab, kept>>
Posted(way) ==
    \A kind \in Kinds :
        flash'[kind] = IF Said(way) = Silent THEN 0
                       ELSE IF Said(way)[kind] = 0 THEN flash[kind] ELSE Said(way)[kind]

LEMMA SteppedFacts ==
    ASSUME TypeOK, NEW way, Stepped(way)
    PROVE  /\ running.to \in Names /\ running \in Requests /\ Led(way)
           /\ Said(way) \in Messages
           /\ \A kind \in Kinds : Said(way)[kind] = IF way.say = kind THEN click ELSE running.said[kind]
           /\ ~Says(way) => Said(way) = running.said
           /\ spoken' = spoken \cup ({way.say} \ {"nothing"})
           /\ GoingOn(way) \/ (Posted(way) /\ (Redirected(way) \/ Rendered(way) \/ TellsAnswer(way)))
<1>1. Handling /\ way \in WaysOf(Doing) /\ Takes(way)
  BY DEF Stepped
<1>2. running.to \in Names /\ running \in Requests /\ Led(way) /\ way.then \in Outcomes
      /\ (way.then = "redirect" => way.to \in Followed)
  BY <1>1, WayOfHandler, StepOfHandler DEF Led
<1>3. /\ Said(way) \in Messages
      /\ \A kind \in Kinds : Said(way)[kind] = IF way.say = kind THEN click ELSE running.said[kind]
      /\ ~Says(way) => Said(way) = running.said
  BY <1>1, <1>2, SaidFacts
<1>4. spoken' = spoken \cup ({way.say} \ {"nothing"})
  BY <1>1 DEF Takes, GoesOn, Leaves, Speaks
<1>5. CASE GoesOn(way)
  <2>1. way.then = "on"
    BY <1>5 DEF GoesOn
  <2>2. GoingOn(way)
    BY <1>1, <1>2, <1>5, <2>1, GoesOnFacts DEF GoingOn
  <2> QED
    BY <1>2, <1>3, <1>4, <2>2
<1>6. CASE way.then = "redirect" /\ Redirects(way.to, None, Said(way))
  <2>1. way.to # None
    BY <1>2, <1>6, FollowedNames, Addresses
  <2>2. Redirected(way) /\ Posted(way)
    BY <1>2, <1>3, <1>6, <2>1, RedirectsFacts DEF Redirected, Posted
  <2> QED
    BY <1>2, <1>3, <1>4, <2>2
<1>7. CASE way.then \notin {"redirect", "on"} /\ Renders(way.then, None, Said(way))
  <2>1. way.then \in Responses /\ way.then \in {"page", "error", "crash", "file"}
    BY <1>2, <1>7 DEF Outcomes, Responses
  <2>2. Rendered(way) /\ Posted(way)
    BY <1>3, <1>7, <2>1, RendersFacts DEF Rendered, Posted
  <2> QED
    BY <1>2, <1>3, <1>4, <2>2
<1>8. CASE way.then \notin {"redirect", "on"} /\ Tells(way.then, Said(way))
  <2>1. way.then \in {"page", "error", "crash", "file"}
    BY <1>2, <1>8 DEF Outcomes
  <2>2. TellsAnswer(way) /\ Posted(way)
    BY <1>3, <1>8, <2>1, TellsFacts DEF TellsAnswer, Posted
  <2> QED
    BY <1>2, <1>3, <1>4, <2>2
<1>9. GoesOn(way) \/ Leaves(way)
  BY <1>1 DEF Takes
<1> QED
  BY <1>5, <1>6, <1>7, <1>8, <1>9 DEF Leaves

\* The handler that runs is one that others redirect to, or the one clicked.
LEMMA WhoRuns ==
    ASSUME Inv, Course, NEW way, Stepped(way)
    PROVE  /\ running.to \in Followed \/ (running.to = last /\ running.by = By(last))
           /\ running.by # "tab" => running.to \in Followed \/ Scripted(running.to)
           /\ running.by = "tab" => running.to \in Followed \/ ~Scripted(running.to)
           /\ running.by = "tab" => tab.at \in {"blank", "login"} /\ told = "nothing"
           /\ running.by # "tab" => tab.at = "page"
           /\ ~AtRest
<1>1. running.to \in Names /\ ~AtRest
  BY SteppedFacts, RunningRequest, Addresses DEF Inv
<1>2. running.to \in Followed \/ (running.to = last /\ running.by = By(last))
  BY <1>1 DEF Course, Reached
<1>3. CASE Scripted(running.to)
  BY <1>1, <1>2, <1>3 DEF By, Scripted, Course
<1>4. CASE ~Scripted(running.to)
  BY <1>1, <1>2, <1>4 DEF By, Course
<1> QED
  BY <1>1, <1>2, <1>3, <1>4

LEMMA SteppedCourse ==
    ASSUME Inv, Honest, NEW way, Stepped(way)
    PROVE  Course'
<1>1. Course
  BY DEF Honest
<1>2. UNCHANGED last /\ (detour => detour')
  BY DEF Stepped
<1>3. running.to \in Names /\ running.to \notin Public
  BY SteppedFacts, Addresses DEF Inv
<1>4. CASE GoingOn(way)
  BY <1>1, <1>2, <1>3, <1>4, WhoRuns DEF GoingOn, Course, Reached
<1>5. CASE Redirected(way)
  BY <1>1, <1>2, <1>5, WhoRuns, FollowedNames, Addresses DEF Redirected, Course, Reached
<1>6. CASE Rendered(way)
  <2>1. running'.to = None /\ running'.dest = None
    BY <1>6, RestFacts DEF Rendered
  <2>2. told' = "nothing"
    BY <1>1, <1>6, WhoRuns DEF Rendered
  <2>3. tab' = tab \/ tab'.at # "login"
    BY <1>6 DEF Rendered
  <2> QED
    BY <1>1, <1>2, <1>6, <2>1, <2>2, <2>3, Addresses DEF Course, Rendered, Reached
<1>7. CASE TellsAnswer(way)
  <2>1. running'.to = None /\ running'.dest = None
    BY <1>7, RestFacts DEF TellsAnswer
  <2>2. tab'.at = "page"
    BY <1>1, <1>7, WhoRuns DEF TellsAnswer
  <2> QED
    BY <1>7, <2>1, <2>2, Addresses DEF Course, TellsAnswer, Reached
<1> QED
  BY <1>4, <1>5, <1>6, <1>7, SteppedFacts DEF Inv

\* Every message said is of this click, and so is every one that goes into the
\* cookie or was there.
LEMMA SteppedWords ==
    ASSUME Inv, Honest, NEW way, Stepped(way)
    PROVE  /\ click \in Nat /\ 0 <= click /\ click' = click /\ "success" \in Kinds /\ "error" \in Kinds
           /\ \A kind \in Kinds :
                /\ Said(way)[kind] \in {0, click}
                /\ flash[kind] \in Nat /\ flash[kind] <= click /\ Known(flash[kind])
                /\ tab.shown[kind] <= click
                /\ running.said[kind] \in {0, click}
           /\ running.said["success"] = 0
           /\ running.by # "tab" \/ running.to \in Followed => running.said = Silent
<1>1. click \in Nat /\ flash \in Messages
  BY BoundsAssumption DEF Inv, TypeOK
<1>2. \A kind \in Kinds : flash[kind] \in Nat
  BY <1>1, BoundsAssumption DEF Messages
<1>3. Mail
  BY DEF Honest
<1>4. \A kind \in Kinds : Said(way)[kind] = IF way.say = kind THEN click ELSE running.said[kind]
  BY SteppedFacts DEF Inv
<1>5. click' = click
  BY DEF Stepped
<1> QED
  BY <1>1, <1>2, <1>3, <1>4, <1>5 DEF Mail, Kinds

LEMMA SteppedMail ==
    ASSUME Inv, Honest, NEW way, Stepped(way)
    PROVE  Mail'
<1> DEFINE Old == /\ click \in Nat /\ 0 <= click /\ click' = click /\ "success" \in Kinds
                  /\ \A kind \in Kinds : 
                       /\ Said(way)[kind] \in {0, click}
                       /\ flash[kind] \in Nat /\ flash[kind] <= click /\ Known(flash[kind])
                       /\ tab.shown[kind] <= click
                  /\ running.said["success"] = 0
<1>1. Old
  BY SteppedWords
<1>2. ~Says(way) => Said(way) = running.said
  BY SteppedFacts DEF Inv
<1>3. TypeOK /\ Handling /\ way \in WaysOf(Doing) /\ Course
  BY DEF Inv, Honest, Stepped
<1>4. CASE GoingOn(way)
  <2>1. way.say # "success" /\ (running.to \in Followed \/ Scripted(running.to) => ~Says(way))
    BY <1>3, <1>4, WayOfChanges, WayOfMessages DEF GoingOn
  <2>2. running'.said["success"] = 0
    BY <1>1, <1>4, <2>1, SteppedFacts DEF GoingOn, Inv
  <2>3. running.by # "tab" \/ running.to \in Followed => Said(way) = Silent
    BY <1>2, <1>3, <2>1, SteppedWords, WhoRuns
  <2>4. running'.pc # 0
    BY <1>3, <1>4, StepOfHandler DEF GoingOn, Requests, Handling
  <2> QED
    BY <1>1, <1>4, <2>2, <2>3, <2>4 DEF Mail, GoingOn, Known
<1>5. CASE Redirected(way) /\ Posted(way)
  BY <1>1, <1>5, SilentFacts DEF Mail, Redirected, Posted, Known
<1>6. CASE Rendered(way) /\ Posted(way)
  <2>1. /\ running'.said = Silent /\ running'.pc = 0 /\ running'.by = "tab"
        /\ running'.said["success"] = 0 /\ \A kind \in Kinds : running'.said[kind] = 0
    BY <1>1, <1>6, RestFacts, SilentFacts DEF Rendered
  <2>2. \A kind \in Kinds : flash'[kind] <= click /\ flash'[kind] \in {0} \cup kept'
    BY <1>1, <1>6 DEF Rendered, Posted, Known
  <2>3. \A kind \in Kinds : tab'.shown[kind] <= click
    BY <1>1, <1>6, SilentFacts DEF Rendered
  <2> QED
    BY <1>1, <2>1, <2>2, <2>3 DEF Mail, Known
<1>7. CASE TellsAnswer(way) /\ Posted(way)
  <2>1. /\ running'.said = Silent /\ running'.pc = 0 /\ running'.by = "tab"
        /\ running'.said["success"] = 0 /\ \A kind \in Kinds : running'.said[kind] = 0
    BY <1>1, <1>7, RestFacts, SilentFacts DEF TellsAnswer
  <2>2. Said(way) = Silent
    BY <1>2, <1>3, <1>7, WayOfMessages, WhoRuns, SteppedWords DEF TellsAnswer
  <2> QED
    BY <1>1, <1>7, <2>1, <2>2 DEF Mail, TellsAnswer, Posted, Known
<1> QED
  BY <1>4, <1>5, <1>6, <1>7, SteppedFacts DEF Inv

\* Success is not told by a step that promises nothing, and the pages that
\* others redirect to promise nothing that a script would take for it.
LEMMA SteppedUntold ==
    ASSUME Inv, Honest, NEW way, Stepped(way), Untold,
           running.to \in Followed => running.by \in {"tab", "lost"},
           running.to \notin Followed => way.then = "on" \/ ~Promises(running.to, way)
    PROVE  Untold'
<1>1. TypeOK /\ Handling /\ way \in WaysOf(Doing) /\ Course /\ click' = click
  BY DEF Inv, Honest, Stepped
<1>2. way.say # "success"
  BY <1>1, WayOfChanges DEF Promises
<1>3. Said(way)["success"] = 0 /\ "success" \in Kinds
  BY <1>2, SteppedWords, SteppedFacts DEF Inv
<1>4. CASE GoingOn(way)
  BY <1>1, <1>4 DEF GoingOn, Untold, Unsaid
<1>5. CASE Redirected(way) /\ Posted(way)
  BY <1>1, <1>3, <1>5 DEF Redirected, Posted, Untold, Unsaid
<1>6. CASE Rendered(way) /\ Posted(way)
  BY <1>1, <1>3, <1>6, SilentFacts DEF Rendered, Posted, Untold, Unsaid
<1>7. CASE TellsAnswer(way) /\ Posted(way)
  <2>1. way.then = "page" => running.by = "lost"
    <3>1. CASE running.to \in Followed
      BY <1>7, <3>1 DEF TellsAnswer
    <3>2. CASE running.to \notin Followed
      <4>1. Scripted(running.to) /\ running.by \in {"json", "any"} /\ running.by = Programs[running.to].by
        BY <1>1, <1>7, <3>2, WhoRuns DEF TellsAnswer, By, Scripted
      <4>2. ~Promises(running.to, way)
        BY <1>7, <3>2 DEF TellsAnswer
      <4> QED
        BY <4>1, <4>2 DEF Promises
    <3> QED
      BY <3>1, <3>2
  <2>2. told' # "ok"
    BY <1>7, <2>1 DEF TellsAnswer
  <2> QED
    BY <1>1, <1>3, <1>7, <2>2 DEF TellsAnswer, Posted, Untold, Unsaid
<1> QED
  BY <1>4, <1>5, <1>6, <1>7, SteppedFacts DEF Inv

LEMMA SteppedUndone ==
    ASSUME Inv, Honest, NEW way, Stepped(way)
    PROVE  Undone'
<1>1. TypeOK /\ Handling /\ way \in WaysOf(Doing) /\ Course /\ Undone /\ Unpromised /\ click' = click /\ last' = last
  BY DEF Inv, Honest, Stepped
<1>2. running.to \in Names /\ running.to \notin Public /\ running.pc \in Nat /\ running.pc # 0
  BY <1>1, StepOfHandler, Addresses DEF Requests, Handling
<1>3. CASE GoingOn(way)
  <2>1. running'.dest = None /\ running'.to = running.to /\ running'.pc # 0
    BY <1>1, <1>2, <1>3 DEF GoingOn, Course
  <2>2. Untold' <=> Untold
    BY <1>1, <1>3 DEF GoingOn, Untold, Unsaid
  <2> QED
    BY <1>1, <1>3, <2>1, <2>2, Addresses DEF Undone, Changing, GoingOn
<1>4. CASE Redirected(way)
  <2>1. ~Changes(running'.to) /\ running'.dest = None
    BY <1>4, FollowedNames DEF Redirected
  <2> QED
    BY <1>4, <2>1, Addresses DEF Redirected, Undone, Changing
<1>5. CASE Rendered(way) \/ TellsAnswer(way)
  <2>1. running'.to = None /\ running'.dest = None
    BY <1>5, RestFacts DEF Rendered, TellsAnswer
  <2>2. ~(tab'.at = "login" /\ Changing(tab'.dest))
    <3> SUFFICES ASSUME tab'.at = "login", Changing(tab'.dest)
                 PROVE  FALSE
      OBVIOUS
    <3>1. way.then = "file" /\ tab' = tab
      BY <1>1, <1>5, WhoRuns DEF Rendered, TellsAnswer
    <3>2. running.to = last /\ ~Changes(last)
      BY <1>1, <3>1, WayOfMessages, WhoRuns
    <3>3. Changes(tab.dest) /\ tab.dest \in Names /\ tab.at = "login"
      BY <3>1 DEF Changing
    <3>4. tab.dest \in Followed \/ tab.dest = last
      BY <1>1, <3>3, Addresses DEF Course, Reached
    <3> QED
      BY <3>2, <3>3, <3>4, FollowedNames
  <2> QED
    BY <2>1, <2>2, Addresses DEF Undone, Changing
<1> QED
  BY <1>3, <1>4, <1>5, SteppedFacts DEF Inv

LEMMA SteppedUnpromised ==
    ASSUME Inv, Honest, NEW way, Stepped(way)
    PROVE  Unpromised'
<1>1. TypeOK /\ Handling /\ way \in WaysOf(Doing) /\ Course /\ Undone /\ Unpromised /\ click' = click /\ last' = last
  BY DEF Inv, Honest, Stepped
<1>2. running.to \in Names /\ running.to \notin Public /\ ~AtRest
  BY <1>1, StepOfHandler, Addresses, WhoRuns
<1> SUFFICES ASSUME missed'
             PROVE  /\ Changing(last)
                    /\ last \notin SayDoneAnyway =>
                         /\ Untold'
                         /\ ~AtRest' =>
                              \/ Handling' /\ running'.to = last /\ \A later \in Ways(last) : ~Promises(last, later)
                              \/ running'.to \in Public \cup Followed /\ running'.by \in {"tab", "lost"}
  BY <1>1 DEF Unpromised, Changing
<1>3. /\ Changing(last)
      /\ last \notin SayDoneAnyway =>
           /\ Untold
           /\ \/ running.to = last /\ ~Promises(last, way) /\ (way.then = "on" => \A later \in Ways(last) : ~Promises(last, later))
              \/ running.to \in Followed /\ running.by \in {"tab", "lost"}
  <2>1. CASE missed
    <3>1. Changing(last) /\ way \in Ways(running.to)
      BY <1>1, <2>1, WayOfHandler DEF Unpromised
    <3> QED
      BY <1>1, <1>2, <2>1, <3>1 DEF Unpromised
  <2>2. CASE Doing.do \in {"read", "write"} /\ Changes(running.to)
    <3>1. running.to = last /\ running.to \notin Followed
      BY <1>1, <2>2, FollowedNames, WhoRuns
    <3>2. Changing(last) /\ Untold
      BY <1>1, <1>2, <2>2, <3>1 DEF Undone, Changing
    <3> QED
      BY <1>1, <2>2, <3>1, <3>2, WayOfChanges
  <2> QED
    BY <2>1, <2>2 DEF Stepped
<1>4. last \notin Followed
  BY <1>3, FollowedNames DEF Changing
<1> SUFFICES ASSUME last \notin SayDoneAnyway
             PROVE  /\ Untold'
                    /\ ~AtRest' =>
                         \/ Handling' /\ running'.to = last /\ \A later \in Ways(last) : ~Promises(last, later)
                         \/ running'.to \in Public \cup Followed /\ running'.by \in {"tab", "lost"}
  BY <1>3
<1>5. Untold'
  BY <1>3, <1>4, SteppedUntold
<1>6. CASE GoingOn(way)
  BY <1>3, <1>5, <1>6 DEF GoingOn
<1>7. CASE Redirected(way)
  <2>1. running'.to \in Followed /\ running'.by = IF running.by = "json" THEN "lost" ELSE running.by
    BY <1>7 DEF Redirected
  <2>2. CASE running.to = last /\ ~Promises(last, way)
    <3>1. running.by = By(last) /\ way.then = "redirect"
      BY <1>1, <1>4, <1>7, <2>2, WhoRuns DEF Redirected
    <3>2. running.by \in {"tab", "json"}
      BY <2>2, <3>1 DEF By, Scripted, Promises
    <3> QED
      BY <1>5, <2>1, <3>2
  <2> QED
    BY <1>3, <1>5, <2>1, <2>2
<1>8. CASE Rendered(way) \/ TellsAnswer(way)
  BY <1>5, <1>8 DEF Rendered, TellsAnswer
<1> QED
  BY <1>6, <1>7, <1>8, SteppedFacts DEF Inv

LEMMA SteppedSpoken ==
    ASSUME Inv, Honest, NEW way, Stepped(way), running.by = "tab", ~detour',
           NEW kind \in spoken'
    PROVE  /\ kind \in Kinds /\ spoken' # {} /\ Doing.do # "may" /\ ~detour
           /\ kind \in spoken \/ kind = way.say
           /\ kind \in spoken => click \in {running.said[kind], flash[kind]}
           /\ spoken # {} => \/ running.to \in Landing
                             \/ Notes(running.to) /\ \A said \in spoken : running.said[said] = click
           /\ Said(way)[kind] = 0 => click \in {0, flash[kind]}
<1>1. ~detour /\ Doing.do # "may" /\ Handling
  BY DEF Stepped
<1>2. spoken' = spoken \cup ({way.say} \ {"nothing"}) /\ Led(way)
      /\ \A k \in Kinds : Said(way)[k] = IF way.say = k THEN click ELSE running.said[k]
  BY SteppedFacts DEF Inv
<1>3. kind \in Kinds
  BY <1>2 DEF Inv, TypeOK, Led, Kinds
<1>4. ~AtRest /\ Carried
  BY WhoRuns DEF Honest
<1>5. spoken # {} => /\ \A k \in spoken : click \in {running.said[k], flash[k]}
                     /\ \/ running.to \in Landing
                        \/ Notes(running.to) /\ \A said \in spoken : running.said[said] = click
  BY <1>1, <1>4 DEF Carried
<1> QED
  BY <1>1, <1>2, <1>3, <1>5

LEMMA SteppedCarried ==
    ASSUME Inv, Honest, NEW way, Stepped(way)
    PROVE  Carried'
<1>1. TypeOK /\ Handling /\ way \in WaysOf(Doing) /\ Course /\ click' = click
  BY DEF Inv, Honest, Stepped
<1>2. \A kind \in Kinds : Said(way)[kind] = IF way.say = kind THEN click ELSE running.said[kind]
  BY SteppedFacts DEF Inv
<1> SUFFICES ASSUME ~AtRest', running'.by = "tab", ~detour', spoken' # {}
             PROVE  /\ \A kind \in spoken' : click \in {running'.said[kind], flash'[kind]}
                    /\ \/ running'.to \in Landing
                       \/ /\ Handling' /\ Notes(running'.to)
                          /\ \A kind \in spoken' : running'.said[kind] = click
  BY <1>1 DEF Carried
<1>3. CASE GoingOn(way)
  <2>1. /\ running.by = "tab" /\ running'.said = Said(way) /\ running'.to = running.to
        /\ flash' = flash /\ Handling' /\ way.then = "on"
    BY <1>3 DEF GoingOn
  <2>2. \A kind \in spoken' : click \in {running'.said[kind], flash'[kind]}
    BY <1>2, <2>1, SteppedSpoken
  <2>3. running.to \in Landing \/ \A kind \in spoken' : Notes(running.to) /\ running'.said[kind] = click
    <3> SUFFICES ASSUME running.to \notin Landing, NEW kind \in spoken'
                 PROVE  Notes(running.to) /\ running'.said[kind] = click
      OBVIOUS
    <3>1. kind \in Kinds /\ (kind \in spoken \/ kind = way.say) /\ (kind = way.say => Says(way))
      BY <2>1, SteppedSpoken DEF Says, Kinds
    <3>2. kind \in spoken => Notes(running.to) /\ running.said[kind] = click
      BY <2>1, SteppedSpoken
    <3>3. Says(way) => Notes(running.to)
      BY <1>1, <2>1, WayOfMessages
    <3> QED
      BY <1>2, <2>1, <3>1, <3>2, <3>3
  <2> QED
    BY <2>1, <2>2, <2>3
<1>4. CASE Redirected(way) /\ Posted(way)
  <2>1. running.by = "tab" /\ running'.said = Silent /\ running'.to = way.to /\ way.then = "redirect"
    BY <1>4 DEF Redirected
  <2>2. way.to \in Landing
    <3>1. PICK kind \in spoken' : TRUE
      OBVIOUS
    <3>2. Doing.do # "may" /\ (kind \in spoken \/ kind = way.say) /\ kind \in Kinds
      BY <2>1, SteppedSpoken
    <3>3. kind \in spoken => running.to \in Landing \/ Notes(running.to)
      BY <2>1, SteppedSpoken
    <3>4. kind = way.say => Says(way)
      BY <3>2 DEF Says, Kinds
    <3> QED
      BY <1>1, <2>1, <3>2, <3>3, <3>4, WayOfMessages
  <2>3. ASSUME NEW kind \in spoken'
        PROVE  click \in {running'.said[kind], flash'[kind]}
    <3>1. kind \in Kinds /\ (kind \in spoken \/ kind = way.say) /\ Doing.do # "may"
          /\ (Said(way)[kind] = 0 => click \in {0, flash[kind]})
      BY <2>1, SteppedSpoken
    <3>2. running'.said[kind] = 0 /\ Said(way)[kind] \in {0, click}
      BY <2>1, <3>1, SilentFacts, SteppedWords
    <3>3. CASE Said(way) # Silent
      BY <1>4, <3>1, <3>2, <3>3 DEF Posted
    <3>4. CASE Said(way) = Silent /\ click # 0
      <4>1. \A k \in Kinds : Said(way)[k] = 0
        BY <3>4, SilentFacts
      <4>2. ~Says(way)
        BY <1>2, <3>4, <4>1, SteppedFacts DEF Says, Led, Kinds, Inv
      <4>3. kind \in spoken
        BY <3>1, <4>2 DEF Says, Kinds
      <4>4. running.to \in Landing \/ running.said[kind] = click
        BY <2>1, <4>3, SteppedSpoken
      <4>5. running.to \notin Landing
        BY <1>1, <2>1, <3>1, <4>2, WayOfMessages
      <4>6. running.said[kind] = 0
        BY <1>2, <3>1, <4>1, <3>4
      <4> QED
        BY <3>4, <4>4, <4>5, <4>6
    <3> QED
      BY <3>2, <3>3, <3>4
  <2> QED
    BY <2>1, <2>2, <2>3
<1>5. CASE Rendered(way) \/ TellsAnswer(way)
  BY <1>5 DEF Rendered, TellsAnswer
<1> QED
  BY <1>3, <1>4, <1>5, SteppedFacts DEF Inv

\* What a page of a handler shows.
LEMMA SteppedShown ==
    ASSUME Inv, Honest, NEW way, Stepped(way), Rendered(way), way.then \in {"page", "error"}
    PROVE  /\ \A kind \in Kinds : tab'.shown[kind] \in {0, click} \cup kept'
           /\ ~detour' => \A kind \in spoken' : tab'.shown[kind] = click
<1>1. running.by = "tab" /\ kept \subseteq kept'
      /\ \A kind \in Kinds : tab'.shown[kind] = IF Said(way)[kind] = 0 THEN flash[kind] ELSE Said(way)[kind]
  BY DEF Rendered
<1>2. \A kind \in Kinds : tab'.shown[kind] \in {0, click} \cup kept'
  BY <1>1, SteppedWords DEF Known
<1>3. ASSUME ~detour', NEW kind \in spoken'
      PROVE  tab'.shown[kind] = click
  <2>1. kind \in Kinds /\ (Said(way)[kind] = 0 => click \in {0, flash[kind]})
    BY <1>1, <1>3, SteppedSpoken
  <2>2. Said(way)[kind] \in {0, click} /\ flash[kind] \in Nat /\ flash[kind] <= click
    BY <2>1, SteppedWords
  <2> QED
    BY <1>1, <2>1, <2>2
<1> QED
  BY <1>2, <1>3

LEMMA SteppedArrive ==
    ASSUME Inv, Honest, NEW way, Stepped(way)
    PROVE  MessagesArrive'
<1>1. Course /\ click' = click
  BY DEF Honest, Stepped
<1> SUFFICES ASSUME AtRest', told' = "nothing", tab'.at \in {"page", "error"}
             PROVE  /\ ~detour' => \A kind \in spoken' : tab'.shown[kind] = click
                    /\ \A kind \in Kinds : tab'.shown[kind] \in {0, click} \cup kept'
  BY <1>1 DEF MessagesArrive
<1>2. ~GoingOn(way) /\ ~Redirected(way) /\ ~TellsAnswer(way)
  BY DEF GoingOn, Redirected, TellsAnswer
<1>3. Rendered(way)
  BY <1>2, SteppedFacts DEF Inv
<1>4. way.then \in {"page", "error"}
  BY <1>1, <1>3, WhoRuns DEF Rendered
<1> QED
  BY <1>3, <1>4, SteppedShown

LEMMA SteppedAdmitted ==
    ASSUME Inv, Honest, NEW way, Stepped(way)
    PROVE  Admitted'
<1>1. TypeOK /\ Handling /\ way \in WaysOf(Doing) /\ Course /\ Unpromised /\ click' = click /\ last' = last /\ ~AtRest
  BY WhoRuns DEF Inv, Honest, Stepped
<1> SUFFICES ASSUME missed', ~detour', last \notin FailSilently
             PROVE  IF AtRest' THEN \/ told' = "error"
                                    \/ tab'.at \in {"error", "crash"}
                                    \/ tab'.at = "page" /\ tab'.shown["error"] = click
                    ELSE running'.by = "lost" \/ (running'.by = "tab" /\ "error" \in spoken')
  BY <1>1 DEF Admitted
<1>2. ~detour /\ spoken' = spoken \cup ({way.say} \ {"nothing"}) /\ Led(way)
  BY SteppedFacts DEF Stepped, Inv
<1>3. way.then # "file" /\ \/ running.by = "lost"
                           \/ running.by = "tab" /\ "error" \in spoken'
                           \/ way.then \in {"error", "crash"}
                           \/ running.by = "json" /\ way.then = "redirect"
  <2>1. CASE missed
    <3>1. running.by = "lost" \/ (running.by = "tab" /\ "error" \in spoken)
      BY <1>1, <1>2, <2>1 DEF Honest, Admitted
    <3>2. Changes(last)
      BY <2>1, <1>1 DEF Unpromised, Changing
    <3>3. way.then # "file"
      BY <1>1, <3>2, WayOfMessages, WhoRuns
    <3> QED
      BY <1>2, <3>1, <3>3
  <2>2. CASE Doing.do \in {"read", "write"} /\ Changes(running.to)
    <3>1. running.to = last /\ running.to \notin Followed /\ running.by = By(last)
      BY <1>1, <2>2, FollowedNames, WhoRuns
    <3>2. Admits(last, way) /\ way.then # "file"
      BY <1>1, <2>2, <3>1, WayOfChanges, WayOfMessages
    <3>3. CASE ~Scripted(last) /\ way.say = "error"
      BY <1>2, <3>1, <3>2, <3>3 DEF By
    <3>4. CASE Programs[last].by = "json" /\ way.then = "redirect"
      BY <3>1, <3>2, <3>4 DEF By, Scripted
    <3> QED
      BY <3>2, <3>3, <3>4 DEF Admits
  <2> QED
    BY <2>1, <2>2 DEF Stepped
<1>4. CASE GoingOn(way)
  BY <1>3, <1>4 DEF GoingOn
<1>5. CASE Redirected(way)
  BY <1>3, <1>5 DEF Redirected
<1>6. CASE Rendered(way)
  <2>1. running.by = "tab" /\ AtRest' /\ way.then # "file" /\ tab'.at = way.then
        /\ way.then \in {"page", "error", "crash"}
    BY <1>3, <1>6 DEF Rendered
  <2>2. way.then = "page" => tab'.shown["error"] = click
    BY <1>3, <1>6, <2>1, SteppedShown
  <2> QED
    BY <2>1, <2>2
<1>7. CASE TellsAnswer(way)
  BY <1>3, <1>7 DEF TellsAnswer
<1> QED
  BY <1>4, <1>5, <1>6, <1>7, SteppedFacts DEF Inv

LEMMA SteppedHonest ==
    ASSUME Inv, Honest, NEW way, Stepped(way)
    PROVE  Honest'
  BY SteppedCourse, SteppedMail, SteppedUndone, SteppedUnpromised, SteppedCarried,
     SteppedAdmitted, SteppedArrive DEF Honest

-----------------------------------------------------------------------------
(* The user, the redirects, and the pages of the interface itself *)

LEMMA WordsFacts ==
    ASSUME Inv, Honest
    PROVE  /\ click \in Nat /\ click <= MaxClicks /\ "success" \in Kinds /\ "error" \in Kinds
           /\ \A kind \in Kinds :
                /\ flash[kind] \in Nat /\ flash[kind] <= click /\ Known(flash[kind])
                /\ AtRest => flash[kind] \in {0} \cup kept
                /\ tab.shown[kind] \in Nat /\ tab.shown[kind] <= click
<1>1. click \in Nat /\ click <= MaxClicks /\ flash \in Messages /\ tab.shown \in Messages
  BY BoundsAssumption DEF Inv, TypeOK, Tabs
<1>2. \A kind \in Kinds : flash[kind] \in Nat /\ tab.shown[kind] \in Nat
  BY <1>1, BoundsAssumption DEF Messages
<1> QED
  BY <1>1, <1>2 DEF Honest, Mail, Kinds

LEMMA ClickHonest ==
    ASSUME Inv, Honest, NEW name \in Names, Click(name)
    PROVE  Honest'
<1>1. PICK method \in {"get", "post"} :
        Clicks(name, By(name), method) /\ (By(name) = "tab" \/ tab.at = "page")
  BY DEF Click, By, Scripted
<1>2. /\ running'.to = name /\ running'.dest = None /\ running'.by = By(name) /\ running'.pc = 0
      /\ running'.said = Silent
  BY <1>1, RequestFacts DEF Clicks
<1>3. /\ AtRest /\ ~AtRest' /\ ~Handling' /\ told' = "nothing"
      /\ tab' = IF By(name) = "tab" THEN Tab("blank", None, Silent) ELSE tab
      /\ UNCHANGED <<flash, kept>>
  <2>1. /\ AtRest /\ told' = "nothing"
        /\ tab' = IF By(name) = "tab" THEN Tab("blank", None, Silent) ELSE tab
        /\ UNCHANGED <<flash, kept>>
    BY <1>1 DEF Clicks
  <2>2. ~AtRest' /\ ~Handling'
    BY <1>2, RestFacts, Addresses DEF AtRest, Handling
  <2> QED
    BY <2>1, <2>2
<1>4. /\ last' = name /\ missed' = FALSE /\ spoken' = {}
      /\ name \notin Public
  BY Addresses DEF Click
<1>5. click' = click + 1 /\ click' \in Nat /\ click' > click
  BY WordsFacts DEF Click
<1>6. /\ By(name) = "tab" => tab'.at = "blank" /\ tab'.shown = Silent
      /\ By(name) # "tab" => tab'.at = "page" /\ tab' = tab
  BY <1>1, <1>3 DEF Tab
<1>7. Course'
  BY <1>2, <1>3, <1>4, <1>6, Addresses DEF Course, Reached
<1>8. Mail'
  <2>1. \A kind \in Kinds : flash[kind] <= click' /\ flash[kind] \in {0} \cup kept /\ tab'.shown[kind] <= click'
    BY <1>3, <1>5, <1>6, WordsFacts, SilentFacts
  <2>2. \A kind \in Kinds : running'.said[kind] = 0
    BY <1>2, SilentFacts
  <2> QED
    BY <1>2, <1>3, <2>1, <2>2, WordsFacts DEF Mail, Known
<1>9. Undone'
  <2>1. flash["success"] \in Nat /\ flash["success"] < click'
    BY <1>5, WordsFacts
  <2>2. tab'.shown["success"] = 0 \/ (tab'.shown["success"] \in Nat /\ tab'.shown["success"] < click')
    BY <1>3, <1>5, <1>6, WordsFacts, SilentFacts
  <2>3. Untold'
    BY <1>3, <1>5, <2>1, <2>2 DEF Untold, Unsaid
  <2> QED
    BY <1>2, <1>3, <1>4, <2>3, Addresses DEF Undone, Changing
<1> QED
  BY <1>3, <1>4, <1>7, <1>8, <1>9 DEF Honest, Unpromised, Carried, Admitted, MessagesArrive

LEMMA VisitHonest ==
    ASSUME Inv, Honest, Visit
    PROVE  Honest'
<1>1. PICK to \in {Login, Lonesome} : Clicks(to, "tab", "get")
  BY DEF Visit
<1>2. /\ running'.to = to /\ running'.dest = None /\ running'.by = "tab" /\ running'.pc = 0
      /\ running'.said = Silent
  BY <1>1, RequestFacts DEF Clicks
<1>3. /\ AtRest /\ ~AtRest' /\ ~Handling' /\ told' = "nothing"
      /\ tab'.at = "blank" /\ tab'.shown = Silent
      /\ UNCHANGED <<flash, kept>>
  <2>1. AtRest /\ told' = "nothing" /\ tab' = Tab("blank", None, Silent) /\ UNCHANGED <<flash, kept>>
    BY <1>1 DEF Clicks
  <2>2. to # None
    BY Addresses DEF Public
  <2>3. ~AtRest' /\ ~Handling'
    BY <1>2, <2>2, RestFacts DEF AtRest, Handling
  <2> QED
    BY <2>1, <2>3 DEF Tab
<1>4. UNCHANGED <<click, last, missed, spoken>> /\ detour' = TRUE
  BY DEF Visit
<1>5. to \in Public /\ to \notin Names
  BY Addresses DEF Public
<1>6. Course'
  BY <1>2, <1>3, <1>4, <1>5, Addresses DEF Course
<1>7. Mail'
  BY <1>2, <1>3, <1>4, WordsFacts, SilentFacts DEF Mail, Known
<1>8. Undone'
  BY <1>2, <1>3, <1>5, Addresses DEF Undone, Changing
<1>9. Unpromised'
  BY <1>2, <1>3, <1>4, <1>5, WordsFacts, SilentFacts DEF Honest, Unpromised, Untold, Unsaid, Changing
<1> QED
  BY <1>3, <1>4, <1>6, <1>7, <1>8, <1>9 DEF Honest, Carried, Admitted, MessagesArrive

LEMMA SubmitLoginHonest ==
    ASSUME Inv, Honest, SubmitLogin
    PROVE  Honest'
<1>1. /\ AtRest /\ tab.at = "login" /\ running' = Request(SignIn, tab.dest, "tab")
      /\ UNCHANGED <<flash, tab, told, click, last, missed, detour, spoken, kept>>
  BY DEF SubmitLogin, history
<1>2. /\ running'.to = SignIn /\ running'.dest = tab.dest /\ running'.by = "tab" /\ running'.pc = 0
      /\ running'.said = Silent
  BY <1>1, RequestFacts
<1>3. SignIn \in Public /\ SignIn \notin Names /\ SignIn # None
  BY Addresses DEF Public
<1>4. ~AtRest' /\ ~Handling'
  BY <1>2, <1>3, RestFacts DEF AtRest, Handling
<1>5. Course'
  BY <1>1, <1>2, <1>3, <1>4 DEF Honest, Course, Reached
<1>6. Mail'
  BY <1>1, <1>2, <1>4, WordsFacts, SilentFacts DEF Mail, Known
<1>7. Undone'
  <2>1. Untold' <=> Untold
    BY <1>1 DEF Untold, Unsaid
  <2> QED
    BY <1>1, <1>2, <1>3, <1>4, <2>1 DEF Honest, Undone, Changing
<1>8. Unpromised'
  BY <1>1, <1>2, <1>3, <1>4 DEF Honest, Unpromised, Untold, Unsaid, Changing
<1>9. detour'
  BY <1>1 DEF Honest, Course
<1> QED
  BY <1>4, <1>5, <1>6, <1>7, <1>8, <1>9 DEF Honest, Carried, Admitted, MessagesArrive

\* A step that only goes on to the next one.
LEMMA NextStepHonest ==
    ASSUME Inv, Honest, running.to \in Names, running' = [running EXCEPT !.pc = running'.pc],
           running'.pc \in Nat \ {0}, UNCHANGED <<flash, tab, told, history>>
    PROVE  Honest'
<1>1. running \in Requests /\ ~AtRest
  BY RunningRequest, Addresses DEF Inv
<1>2. /\ running'.to = running.to /\ running'.dest = running.dest /\ running'.by = running.by
      /\ running'.said = running.said
  BY <1>1 DEF Requests
<1>3. ~AtRest' /\ Handling' /\ running'.pc # 0
  BY <1>2, RestFacts, Addresses DEF AtRest, Handling
<1>4. UNCHANGED <<click, last, missed, detour, spoken, kept>>
  BY DEF history
<1>5. running.to \notin Public
  BY Addresses
<1>6. Course'
  BY <1>1, <1>2, <1>3, <1>4 DEF Honest, Course, Reached
<1>7. Mail'
  <2>1. running.by # "tab" \/ running.to \in Followed => running.said = Silent
    BY DEF Honest, Mail
  <2> QED
    BY <1>1, <1>2, <1>3, <1>4, <2>1 DEF Honest, Mail, Known
<1>8. Undone'
  <2>1. Untold' <=> Untold
    BY <1>4 DEF Untold, Unsaid
  <2> QED
    BY <1>2, <1>3, <1>4, <2>1 DEF Honest, Undone, Changing
<1>9. Unpromised'
  BY <1>1, <1>2, <1>3, <1>4 DEF Honest, Unpromised, Untold, Unsaid, Changing
<1>10. Carried'
  BY <1>1, <1>2, <1>3, <1>4 DEF Honest, Carried
<1>11. Admitted'
  BY <1>1, <1>2, <1>3, <1>4 DEF Honest, Admitted
<1> QED
  BY <1>3, <1>6, <1>7, <1>8, <1>9, <1>10, <1>11 DEF Honest, MessagesArrive

\* The browser is sent on without a word.
LEMMA RedirectHonest ==
    ASSUME Inv, Honest, ~AtRest, ~Handling, NEW to, to # None, NEW dest, Redirects(to, dest, Silent),
           UNCHANGED <<click, last, missed, spoken>>, detour => detour',
           to \in Names => to \in Followed \/ (running.by = "tab" /\ Reached(to, "tab")),
           to \in Public => running.by = "tab" /\ detour',
           dest # None => to \in Public /\ Reached(dest, "tab"),
           Changing(to) \/ Changing(dest) => Untold /\ ~missed,
           detour' \/ running.by # "tab" \/ spoken = {},
           to \in Names \cup Public
    PROVE  Honest'
<1>1. /\ running'.to = to /\ running'.dest = dest /\ running'.pc = 0 /\ running'.said = Silent
      /\ running'.by = IF running.by = "json" THEN "lost" ELSE running.by
      /\ ~AtRest' /\ ~Handling'
      /\ UNCHANGED <<tab, told, kept>>
      /\ \A kind \in Kinds : flash'[kind] = 0
  BY MessagesType, RedirectsFacts DEF Inv
<1>2. Untold => Untold'
  BY <1>1, WordsFacts DEF Untold, Unsaid
<1>3. Course'
  BY <1>1 DEF Honest, Course, Reached
<1>4. Mail'
  BY <1>1, WordsFacts, SilentFacts DEF Mail, Known
<1>5. Undone'
  BY <1>1, <1>2 DEF Undone, Changing
<1>6. Unpromised'
  <2> SUFFICES ASSUME missed
               PROVE  /\ Changing(last)
                      /\ last \notin SayDoneAnyway =>
                           /\ Untold' /\ running'.to \in Public \cup Followed /\ running'.by \in {"tab", "lost"}
    BY <1>1 DEF Unpromised, Changing
  <2>1. Changing(last) /\ (last \notin SayDoneAnyway => Untold /\ running.by \in {"tab", "lost"})
    BY DEF Honest, Unpromised
  <2>2. to \in Public \cup Followed
    BY <2>1 DEF Reached
  <2> QED
    BY <1>1, <1>2, <2>1, <2>2
<1>7. Carried'
  BY <1>1 DEF Carried
<1>8. Admitted'
  BY <1>1 DEF Honest, Admitted
<1> QED
  BY <1>1, <1>3, <1>4, <1>5, <1>6, <1>7, <1>8 DEF Honest, MessagesArrive

\* The login page, the page about the connection, and that there is no such page.
LEMMA RenderHonest ==
    ASSUME Inv, Honest, ~AtRest, ~Handling, NEW at \in {"login", "notfound", "disconnected"},
           NEW dest, NEW said \in Messages, Renders(at, dest, said),
           said["success"] = 0, said["error"] \in {0, click},
           UNCHANGED <<click, last, missed>>, detour => detour',
           at = "login" => detour' /\ (dest # None => Reached(dest, "tab")),
           Changing(dest) => Untold /\ ~missed,
           detour' \/ (spoken = {} /\ UNCHANGED spoken)
    PROVE  Honest'
<1>1. /\ running.by = "tab" /\ running' = NoRequest /\ AtRest' /\ ~Handling' /\ told' = told
      /\ kept' = IF said = Silent THEN kept ELSE kept \cup {click}
      /\ tab'.at = at /\ tab'.dest = dest
      /\ at = "login" => tab'.shown["success"] = 0 /\ (tab'.shown["error"] = IF said["error"] = 0 THEN flash["error"] ELSE said["error"])
      /\ at # "login" => tab'.shown = Silent
      /\ \A kind \in Kinds :
           flash'[kind] = IF said = Silent THEN 0 ELSE IF said[kind] = 0 THEN flash[kind] ELSE said[kind]
  BY RendersFacts DEF Responses, Inv
<1>2. /\ running'.to = None /\ running'.dest = None /\ running'.pc = 0 /\ running'.said = Silent
      /\ running'.by = "tab"
  BY <1>1, RestFacts
<1>3. tab'.shown["success"] = 0 /\ \A kind \in Kinds : tab'.shown[kind] <= click /\ said[kind] \in {0, click}
  BY <1>1, SilentFacts, WordsFacts DEF Kinds
<1>4. told' = "nothing"
  BY <1>1 DEF Honest, Course
<1>5. flash'["success"] \in {0, flash["success"]} /\ (Untold => Untold')
  BY <1>1, <1>3, <1>4, WordsFacts DEF Untold, Unsaid
<1>6. Course'
  BY <1>1, <1>2, <1>4, Addresses DEF Course, Reached
<1>7. Mail'
  <2>1. \A kind \in Kinds : flash'[kind] <= click /\ flash'[kind] \in {0} \cup kept'
    BY <1>1, <1>3, WordsFacts DEF Known
  <2> QED
    BY <1>2, <1>3, <2>1, SilentFacts, WordsFacts DEF Mail, Known
<1>8. Undone'
  BY <1>1, <1>2, <1>5, Addresses DEF Undone, Changing
<1>9. Unpromised'
  BY <1>1, <1>5 DEF Honest, Unpromised, Changing
<1>10. Admitted'
  BY <1>1 DEF Honest, Admitted
<1> QED
  BY <1>1, <1>6, <1>7, <1>8, <1>9, <1>10 DEF Honest, Carried, MessagesArrive

\* A script is told that it did not work, for want of a session or a server.
LEMMA TellHonest ==
    ASSUME Inv, Honest, ~AtRest, ~Handling, Tells("error", Silent),
           UNCHANGED <<click, last, missed>>, detour'
    PROVE  Honest'
<1>1. /\ running.by # "tab" /\ running' = NoRequest /\ AtRest' /\ ~Handling' /\ told' = "error"
      /\ UNCHANGED <<tab, kept>>
      /\ \A kind \in Kinds : flash'[kind] = 0
  BY MessagesType, TellsFacts DEF Inv
<1>2. /\ running'.to = None /\ running'.dest = None /\ running'.pc = 0 /\ running'.said = Silent
  BY <1>1, RestFacts
<1>3. tab.at = "page"
  BY <1>1 DEF Honest, Course
<1>4. Course'
  BY <1>1, <1>2, <1>3, Addresses DEF Course
<1>5. Mail'
  BY <1>1, <1>2, SilentFacts, WordsFacts DEF Mail, Known
<1>6. Undone'
  BY <1>1, <1>2, <1>3, Addresses DEF Undone, Changing
<1>7. Untold => Untold'
  BY <1>1, WordsFacts DEF Untold, Unsaid
<1>8. Unpromised'
  BY <1>1, <1>7 DEF Honest, Unpromised, Changing
<1> QED
  BY <1>1, <1>4, <1>5, <1>6, <1>8 DEF Honest, Carried, Admitted, MessagesArrive

-----------------------------------------------------------------------------
(* The requests as they arrive, the login and the steps, one by one *)

\* A request has arrived: for a handler that can be told where it comes from.
LEMMA ArrivingFacts ==
    ASSUME Inv, Honest, Arriving
    PROVE  /\ ~AtRest /\ ~Handling /\ running.to \in Names /\ running.to \notin Public /\ running.to # None
           /\ Reached(running.to, running.by)
           /\ Changing(running.to) => Untold /\ ~missed
           /\ running.by = "tab" /\ ~detour /\ spoken # {} => Programs[running.to].by # "form"
<1>1. running.to \in Names /\ running.to \notin Public /\ running.pc = 0 /\ running.to # None
  BY Addresses DEF Arriving
<1>2. ~AtRest /\ ~Handling
  BY <1>1, RunningRequest DEF Inv, Handling
<1>3. running.by = "tab" /\ ~detour /\ spoken # {} => running.to \in Landing
  BY <1>2 DEF Honest, Carried
<1> QED
  BY <1>1, <1>2, <1>3 DEF Honest, Course, Undone, Landing

LEMMA NoRouteHonest ==
    ASSUME Inv, Honest, NoRoute
    PROVE  Honest'
<1>1. Arriving /\ UNCHANGED <<click, last, missed, detour, spoken>> /\ Programs[running.to].by = "form"
  BY DEF NoRoute
<1>2. detour' \/ running.by # "tab" \/ spoken = {}
  BY <1>1, ArrivingFacts
<1>3. CASE running.to \in DOMAIN SameAddress /\ Redirects(SameAddress[running.to], None, Silent)
  <2>1. /\ SameAddress[running.to] \in Followed /\ SameAddress[running.to] \in Names
        /\ SameAddress[running.to] \notin Public /\ SameAddress[running.to] # None
        /\ ~Changing(SameAddress[running.to]) /\ ~Changing(None)
    BY <1>3, FollowedNames, Addresses DEF Changing
  <2> QED
    BY <1>1, <1>2, <1>3, <2>1, ArrivingFacts, RedirectHonest
<1>4. CASE Renders("notfound", None, Silent)
  <2>1. running.by = "tab" /\ ~Changing(None)
    BY <1>4, Addresses DEF Renders, Changing
  <2>2. Silent \in Messages /\ Silent["success"] = 0 /\ Silent["error"] \in {0, click}
    BY MessagesType, SilentFacts DEF Kinds
  <2> QED
    BY <1>1, <1>2, <1>4, <2>1, <2>2, ArrivingFacts, RenderHonest
<1> QED
  BY <1>3, <1>4 DEF NoRoute

LEMMA AcceptedHonest ==
    ASSUME Inv, Honest, Accepted
    PROVE  Honest'
<1>1. Arriving /\ running' = [running EXCEPT !.pc = 1] /\ UNCHANGED <<flash, tab, told, history>>
  BY DEF Accepted, Routed
<1>2. running.to \in Names /\ running \in Requests
  BY <1>1, ArrivingFacts, RunningRequest DEF Inv
<1>3. running'.pc = 1
  BY <1>1, <1>2 DEF Requests
<1> QED
  BY <1>1, <1>2, <1>3, NextStepHonest

LEMMA UnavailableHonest ==
    ASSUME Inv, Honest, Unavailable
    PROVE  Honest'
<1>1. Arriving /\ UNCHANGED <<click, last, missed, spoken>> /\ detour' = TRUE
  BY DEF Unavailable, Routed
<1>2. CASE running.by = "tab" /\ Redirects(Lonesome, None, Silent)
  <2>1. Lonesome \in Public /\ Lonesome \notin Names /\ Lonesome # None /\ ~Changing(Lonesome) /\ ~Changing(None)
    BY Addresses DEF Public, Changing
  <2> QED
    BY <1>1, <1>2, <2>1, ArrivingFacts, RedirectHonest
<1>3. CASE Tells("error", Silent)
  BY <1>1, <1>3, ArrivingFacts, TellHonest
<1> QED
  BY <1>2, <1>3 DEF Unavailable

LEMMA UnauthorizedHonest ==
    ASSUME Inv, Honest, Unauthorized
    PROVE  Honest'
<1>1. Arriving /\ UNCHANGED <<click, last, missed, spoken>> /\ detour' = TRUE
  BY DEF Unauthorized, Routed
<1>2. CASE running.by = "tab" /\ Redirects(Login, Destination(running.to), Silent)
  <2>1. Login \in Public /\ Login \notin Names /\ Login # None /\ ~Changing(Login) /\ ~Changing(None)
    BY Addresses DEF Public, Changing
  <2>2. Destination(running.to) \in {None, running.to}
    BY DEF Destination
  <2> QED
    BY <1>1, <1>2, <2>1, <2>2, ArrivingFacts, RedirectHonest
<1>3. CASE Tells("error", Silent)
  BY <1>1, <1>3, ArrivingFacts, TellHonest
<1> QED
  BY <1>2, <1>3 DEF Unauthorized

LEMMA PublicFacts ==
    ASSUME Inv, Honest, running.to \in Public
    PROVE  /\ ~AtRest /\ ~Handling /\ detour /\ running.by = "tab"
           /\ running.dest # None => Reached(running.dest, "tab")
           /\ Changing(running.dest) => Untold /\ ~missed
<1>1. running.to # None /\ running.to \notin Names
  BY Addresses
<1> QED
  BY <1>1, RunningRequest DEF Inv, TypeOK, Honest, Course, Undone

LEMMA OnwardHonest ==
    ASSUME Inv, Honest, running.to \in {Login, SignIn}, Redirects(Onward(running.dest), None, Silent),
           UNCHANGED <<click, last, missed, detour, spoken>>
    PROVE  Honest'
<1>1. running.to \in Public
  BY DEF Public
<1>2. Onward(running.dest) \in Names /\ Onward(running.dest) \notin Public /\ Onward(running.dest) # None
  BY Addresses DEF Inv, WayBack, TypeOK
<1>3. Onward(running.dest) \in Followed \/ (Onward(running.dest) = running.dest /\ running.dest # None)
  BY FollowedNames DEF Onward
<1>4. ~Changing(None) /\ (Changing(Onward(running.dest)) => Changing(running.dest))
  BY <1>3, FollowedNames, Addresses DEF Changing
<1> QED
  BY <1>1, <1>2, <1>3, <1>4, PublicFacts, RedirectHonest

LEMMA LoginPageHonest ==
    ASSUME Inv, Honest, running.to \in {Login, SignIn},
           NEW said \in {NoServers, [Silent EXCEPT !.error = click]}, LoginPage(running.dest, said),
           UNCHANGED <<click, last, missed, detour>>
    PROVE  Honest'
<1>1. running.to \in Public
  BY DEF Public
<1>2. said \in Messages
  BY SaysOnLoginPage
<1>3. said["success"] = 0 /\ said["error"] \in {0, click}
  BY DEF NoServers, Silent, Kinds
<1>4. Renders("login", running.dest, said)
  BY DEF LoginPage
<1> QED
  BY <1>1, <1>2, <1>3, <1>4, PublicFacts, RenderHonest

LEMMA LoginHonest ==
    ASSUME Inv, Honest, LoginIndex \/ LoginRefused \/ LoginAccepted
    PROVE  Honest'
<1>1. CASE LoginIndex
  BY <1>1, OnwardHonest, LoginPageHonest DEF LoginIndex
<1>2. CASE LoginRefused
  BY <1>2, LoginPageHonest DEF LoginRefused
<1>3. CASE LoginAccepted
  BY <1>3, OnwardHonest DEF LoginAccepted
<1> QED
  BY <1>1, <1>2, <1>3

LEMMA DisconnectedHonest ==
    ASSUME Inv, Honest, Disconnected
    PROVE  Honest'
<1>1. running.to \in Public /\ UNCHANGED <<click, last, missed, detour, spoken>>
  BY DEF Disconnected, Public
<1>2. ~Changing(None)
  BY Addresses DEF Changing
<1>3. CASE Redirects(Start, None, Silent)
  <2>1. Start \in Followed /\ Start \in Names /\ Start \notin Public /\ Start # None /\ ~Changing(Start)
    BY FollowedNames, Addresses DEF Changing
  <2> QED
    BY <1>1, <1>2, <1>3, <2>1, PublicFacts, RedirectHonest
<1>4. CASE Renders("disconnected", None, Silent)
  <2>1. Silent \in Messages /\ Silent["success"] = 0 /\ Silent["error"] \in {0, click}
    BY MessagesType, SilentFacts DEF Kinds
  <2> QED
    BY <1>1, <1>2, <1>4, <2>1, PublicFacts, RenderHonest
<1> QED
  BY <1>3, <1>4 DEF Disconnected

LEMMA ProceedsHonest ==
    ASSUME Inv, Honest, Proceeds
    PROVE  Honest'
<1>1. Handling /\ running' = [running EXCEPT !.pc = @ + 1] /\ UNCHANGED <<flash, tab, told, history>>
  BY DEF Proceeds
<1>2. running.to \in Names /\ running \in Requests /\ running.pc \in Nat
  BY <1>1, StepOfHandler DEF Inv, Requests
<1>3. running'.pc = running.pc + 1
  BY <1>1, <1>2 DEF Requests
<1> QED
  BY <1>1, <1>2, <1>3, NextStepHonest

LEMMA StepsHonest ==
    ASSUME Inv, Honest, IsRefused \/ IsLost \/ Ends
    PROVE  Honest'
<1>1. \E way : Stepped(way)
  <2>1. CASE IsRefused
    <3>1. PICK way \in Doing.refused : Takes(way)
      BY <2>1 DEF IsRefused
    <3>2. /\ missed' => missed \/ (Doing.do \in {"read", "write"} /\ Changes(running.to))
          /\ detour \/ Doing.do = "may" => detour'
          /\ Handling /\ UNCHANGED <<click, last>>
      BY <2>1 DEF IsRefused, Misses
    <3> QED
      BY <3>1, <3>2 DEF Stepped, WaysOf
  <2>2. CASE IsLost
    <3>1. PICK way \in Doing.lost : Takes(way)
      BY <2>2 DEF IsLost
    <3>2. /\ missed' => missed \/ (Doing.do \in {"read", "write"} /\ Changes(running.to))
          /\ detour \/ Doing.do = "may" => detour'
          /\ Handling /\ UNCHANGED <<click, last>>
      BY <2>2 DEF IsLost, Misses
    <3> QED
      BY <3>1, <3>2 DEF Stepped, WaysOf
  <2>3. CASE Ends
    <3>1. PICK way \in Doing.refused : Leaves(way)
      BY <2>3 DEF Ends
    <3>2. /\ missed' => missed
          /\ detour \/ Doing.do = "may" => detour'
          /\ Handling /\ UNCHANGED <<click, last>>
      BY <2>3 DEF Ends
    <3> QED
      BY <3>1, <3>2 DEF Stepped, WaysOf, Takes
  <2> QED
    BY <2>1, <2>2, <2>3
<1> QED
  BY <1>1, SteppedHonest

\* The servers do not touch what the browser holds.
LEMMA ServersHonest ==
    ASSUME Honest, UNCHANGED <<browser, history>>
    PROVE  Honest'
<1>1. UNCHANGED <<flash, tab, told, running, click, last, missed, detour, spoken, kept>>
  BY DEF browser, history
<1>2. (AtRest' <=> AtRest) /\ (Handling' <=> Handling) /\ (Untold' <=> Untold)
  BY <1>1 DEF AtRest, Handling, Untold, Unsaid
<1>3. Course'
  BY <1>1, <1>2 DEF Honest, Course, Reached
<1>4. Mail'
  BY <1>1, <1>2 DEF Honest, Mail, Known
<1>5. Undone' /\ Unpromised'
  BY <1>1, <1>2 DEF Honest, Undone, Unpromised, Changing
<1>6. Carried' /\ Admitted' /\ MessagesArrive'
  BY <1>1, <1>2 DEF Honest, Carried, Admitted, MessagesArrive
<1> QED
  BY <1>3, <1>4, <1>5, <1>6 DEF Honest

LEMMA InitHonest ==
    ASSUME Init
    PROVE  Honest
<1>1. /\ AtRest /\ ~Handling
      /\ running.to = None /\ running.dest = None /\ running.pc = 0 /\ running.said = Silent
      /\ tab.at = "blank" /\ tab.shown = Silent /\ flash = Silent /\ missed = FALSE /\ click = 0
  BY RestFacts DEF Init, AtRest, Handling, Tab
<1>2. Course
  BY <1>1, Addresses DEF Course
<1>3. Mail
  BY <1>1, SilentFacts DEF Mail, Known, Kinds
<1>4. Undone
  BY <1>1, Addresses DEF Undone, Changing
<1> QED
  BY <1>1, <1>2, <1>3, <1>4 DEF Honest, Unpromised, Carried, Admitted, MessagesArrive

LEMMA NextHonest ==
    ASSUME Inv, Honest, [Next]_vars
    PROVE  Honest'
<1>1. CASE \E name \in Names : Click(name)
  BY <1>1, ClickHonest
<1>2. CASE SubmitLogin \/ Visit
  BY <1>2, SubmitLoginHonest, VisitHonest
<1>3. CASE NoRoute \/ Accepted \/ Unavailable \/ Unauthorized
  BY <1>3, NoRouteHonest, AcceptedHonest, UnavailableHonest, UnauthorizedHonest
<1>4. CASE LoginIndex \/ LoginRefused \/ LoginAccepted \/ Disconnected
  BY <1>4, LoginHonest, DisconnectedHonest
<1>5. CASE Proceeds \/ IsRefused \/ IsLost \/ Ends
  BY <1>5, ProceedsHonest, StepsHonest
<1>6. CASE Refresh \/ ServersGoOrCome \/ Expire \/ UNCHANGED vars
  BY <1>6, ServersHonest DEF Refresh, ServersGoOrCome, Expire, vars
<1> QED
  BY <1>1, <1>2, <1>3, <1>4, <1>5, <1>6 DEF Next, Serve

LEMMA HonestHolds == Spec => []Honest
<1>1. Init => Honest
  BY InitHonest
<1>2. Inv /\ Honest /\ [Next]_vars => Honest'
  BY NextHonest
<1> QED
  BY <1>1, <1>2, InvHolds, PTL DEF Spec

\* The user is told of a success only when all changes that the click asked of
\* the servers were made, whatever handlers, redirects, logins and failures of
\* the servers lie between (the success messages of the controllers' methods
\* and the answers of those that scripts call).
THEOREM SuccessMeansDoneHolds == Spec => []SuccessMeansDone
<1>1. Inv /\ Honest => SuccessMeansDone
  BY DEF Inv, TypeOK, Honest, Unpromised, Untold, Unsaid, SuccessMeansDone
<1> QED
  BY <1>1, InvHolds, HonestHolds, PTL

\* A change that could not be made is not passed over in silence: at the end of
\* the redirects there is an error page, a message of this click or an error
\* for the script, unless the browser was sent elsewhere.
THEOREM FailureIsToldHolds == Spec => []FailureIsTold
<1>1. Inv /\ Honest => FailureIsTold
  BY DEF Inv, TypeOK, Honest, Admitted, FailureIsTold
<1> QED
  BY <1>1, InvHolds, HonestHolds, PTL

\* Messages come through the cookie and the redirects to the page that shows
\* them, and no page shows one of another click but those shown before.
THEOREM MessagesArriveHolds == Spec => []MessagesArrive
<1>1. Honest => MessagesArrive
  BY DEF Honest
<1> QED
  BY <1>1, HonestHolds, PTL
=============================================================================
