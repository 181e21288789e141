------------------------------ MODULE WebRequests ------------------------------
(***************************************************************************)
(* One browser that uses the web interface: the session in its cookie, the *)
(* messages ("flash") that a response leaves in the cookie for the page    *)
(* the browser is redirected to, the redirects when the session has        *)
(* expired or no server is reached, and the handlers, which are run step   *)
(* by step while the servers come and go.                                  *)
(*                                                                         *)
(* Messages are named by the click that caused them, so that a message of  *)
(* an earlier click is recognised on a later page.  One request is under   *)
(* way at a time.  The server's answers, and Play's handling of the        *)
(* cookie, are modelled by what the code makes of them.                    *)
(***************************************************************************)
EXTENDS Integers, WebHandlers

CONSTANTS
    Programs,       \* the handlers: a program for each name
    SameAddress,    \* the page at the address of a form, where there is one
    Grants,         \* the sets of permissions a user may have
    MaxClicks,      \* bound: links followed, forms sent, calls of scripts
    MaxChanges      \* bound: servers that go or come, sessions that expire

VARIABLES
    reachable,      \* a server answers
    connected,      \* ServerNodes.isConnected, which is refreshed now and then
    alive,          \* the server still knows the session
    granted,        \* the permissions of the user
    changes,        \* how often one of these has changed

    cookie,         \* the browser's cookie holds a session
    flash,          \* the messages in the cookie: the click of each kind, or 0
    tab,            \* what the browser shows
    told,           \* what the last call of a script was told
    running,        \* the request under way

    click,          \* the number of the last click
    last,           \* the handler it was for
    missed,         \* the servers failed to do something for a change it asked for
    detour,         \* the browser was sent elsewhere for want of a session, a server or a permission
    spoken,         \* the kinds of messages said since the click
    kept,           \* the clicks whose messages were shown and stay in the cookie all the same
    wanted          \* where the browser was to go when it was sent to the login page

cluster == <<reachable, connected, alive, granted, changes>>
browser == <<cookie, flash, tab, told, running>>
history == <<click, last, missed, detour, spoken, kept, wanted>>
vars == <<cluster, browser, history>>

Login == <<"Sessions", "index">>
SignIn == <<"Sessions", "create">>
SignOut == <<"Sessions", "destroy">>
Lonesome == <<"LonesomeInterface", "index">>
Start == <<"Startpage", "redirect">>
Public == {Login, SignIn, Lonesome}
Names == DOMAIN Programs
Targets == Names \cup Public

\* Handlers redirect to each other; each program has an end.
Outcomes == {"on", "redirect", "page", "error", "crash", "file"}
Led(way) ==
    /\ way.then \in Outcomes
    /\ way.then = "redirect" => way.to \in Names
    /\ way.say \in {"nothing", "error", "success"}
HandlersRun ==
    /\ Names \cap (Public \cup {None}) = {} /\ Start \in Names /\ SignOut \in Names
    /\ \A name \in DOMAIN SameAddress : SameAddress[name] \in Names
    /\ \A name \in Names : 1 \in DOMAIN Programs[name].steps
    /\ \A name \in Names : \A i \in DOMAIN Programs[name].steps :
         LET step == Programs[name].steps[i] IN
         /\ i \in Nat \ {0}
         /\ step.do = "end" \/ i + 1 \in DOMAIN Programs[name].steps
         /\ \A way \in step.refused \cup step.lost : Led(way)
ASSUME HandlersAssumption == HandlersRun
ASSUME BoundsAssumption == MaxClicks \in Nat /\ MaxChanges \in Nat

-----------------------------------------------------------------------------
(* How the handlers are written *)

Steps(name) == {Programs[name].steps[i] : i \in DOMAIN Programs[name].steps}
WaysOf(step) == step.refused \cup step.lost
Ways(name) == UNION {WaysOf(step) : step \in Steps(name)}
Scripted(name) == Programs[name].by \in {"json", "any"}
Changes(name) == \E step \in Steps(name) : step.do = "write"
Says(way) == way.say # "nothing"
Notes(name) == \E way \in Ways(name) : way.then = "on" /\ Says(way)

\* The handlers that the browser is redirected to; those among them that show
\* the messages they are left with, or leave some of their own and redirect to
\* another that does, unless the user may not see them.
Followed ==
    {Start} \cup {SameAddress[name] : name \in DOMAIN SameAddress}
      \cup {way.to : way \in {w \in UNION {Ways(name) : name \in Names} : w.then = "redirect"}}
Landing ==
    {name \in Names :
       /\ Programs[name].by = "link"
       /\ \A step \in Steps(name) : \A way \in WaysOf(step) :
            /\ way.then # "file"
            /\ way.then = "redirect" /\ step.do # "may" => Says(way)}

\* Messages are said to a page that shows them, and scripts and the pages that
\* others redirect to say none but with a redirect.
MessagesArePosted ==
    \A name \in Names : \A step \in Steps(name) : \A way \in WaysOf(step) :
        /\ way.then = "redirect" /\ Says(way) => way.to \in Landing
        /\ way.then = "redirect" /\ Notes(name) /\ step.do # "may" => way.to \in Landing
        /\ Says(way) /\ (name \in Followed \/ Scripted(name)) => way.then = "redirect"
        /\ way.then = "file" => ~Says(way) /\ ~Notes(name) /\ ~Changes(name) /\ name \notin Followed
ASSUME MessagesAssumption == MessagesArePosted

\* Handlers that say that it is done whatever became of it: the user is made,
\* changed or deleted (UsersController.java:187, :286, UsersApiController.java:
\* 85), and of extractors imported some may have failed, which is told, too.
SayDoneAnyway == {<<"Users", "create">>, <<"Users", "saveChanges">>, <<"UsersApi", "deleteUser">>,
                  <<"Extractors", "importExtractors">>}
\* Handlers that do not say that it was not done (also UsersController.java:198,
\* InputsController.java:357, SessionsController.java:133).
FailSilently == {<<"Users", "saveChanges">>, <<"UsersApi", "deleteUser">>, <<"Users", "delete">>,
                 <<"Inputs", "update">>, SignOut}

\* What tells the user, or the script, that it is done.
Promises(name, way) ==
    \/ way.say = "success"
    \/ Programs[name].by = "json" /\ way.then = "page"
    \/ Programs[name].by = "any" /\ way.then \in {"page", "redirect"}

\* What tells that it is not done.
Admits(name, way) ==
    \/ way.then \in {"error", "crash"}
    \/ Programs[name].by = "json" /\ way.then = "redirect"
    \/ ~Scripted(name) /\ way.say = "error"

\* Only the handlers that are clicked change anything.  Where a call may fail
\* they do not promise that it is done, then or later, and admit that it is not.
ChangesAreReported ==
    /\ \A name \in Followed : ~Changes(name) /\ \A way \in Ways(name) : way.say # "success"
    /\ \A name \in Names : \A way \in Ways(name) : way.then = "on" => way.say # "success"
    /\ \A name \in Names : Changes(name) =>
         \A step \in Steps(name) : step.do \in {"read", "write"} =>
           \A way \in WaysOf(step) :
             /\ name \notin SayDoneAnyway =>
                  /\ ~Promises(name, way)
                  /\ way.then = "on" => \A later \in Ways(name) : ~Promises(name, later)
             /\ name \notin FailSilently => Admits(name, way)
ASSUME ChangesAssumption == ChangesAreReported

-----------------------------------------------------------------------------
Kinds == {"error", "success"}
Silent == [kind \in Kinds |-> 0]
Joined(old, new) == [kind \in Kinds |-> IF new[kind] = 0 THEN old[kind] ELSE new[kind]]

Request(to, dest, by) ==
    [to |-> to, dest |-> dest, by |-> by, method |-> "get", pc |-> 0, said |-> Silent]
NoRequest == Request(None, None, "tab")
Tab(at, dest, shown) == [at |-> at, dest |-> dest, shown |-> shown]
AtRest == running = NoRequest
Handling == running.pc > 0
Doing == Programs[running.to].steps[running.pc]

-----------------------------------------------------------------------------
(* Responses.  The messages said are kept for the next request; if none was *)
(* said, those that came with the request are dropped.                      *)

\* A fault: messages that have been shown stay in the cookie.
KeepAll(said) == flash' = Joined(flash, said)
Keep(said) == flash' = IF said = Silent THEN Silent ELSE Joined(flash, said)

Redirects(to, dest, said) ==
    /\ Keep(said)
    /\ running' = Request(to, dest, IF running.by = "json" THEN "lost" ELSE running.by)
    /\ UNCHANGED <<tab, told, kept>>

\* A fault: the page has no place for errors.
ShownWithoutErrors(at, said) ==
    IF at \in {"page", "error"} THEN [Joined(flash, said) EXCEPT !.error = 0] ELSE Silent
\* Pages show both kinds, the login page errors, Play's own pages and those of
\* the disconnected interface none.  A script that wants JSON takes a page it
\* was redirected to for an error.
Shown(at, said) ==
    CASE at \in {"page", "error"} -> Joined(flash, said)
      [] at = "login" -> [Joined(flash, said) EXCEPT !.success = 0]
      [] OTHER -> Silent
Renders(at, dest, said) ==
    /\ running.by = "tab"
    /\ Keep(said)
    /\ running' = NoRequest
    /\ tab' = IF at = "file" THEN tab ELSE Tab(at, dest, Shown(at, said))
    /\ kept' = IF said = Silent THEN kept ELSE kept \cup {click}
    /\ UNCHANGED told
\* A fault: the script is given the page itself.
TellsPage(at, said) ==
    /\ running.by # "tab"
    /\ Keep(said)
    /\ running' = NoRequest
    /\ told' = at
    /\ UNCHANGED <<tab, kept>>
Tells(at, said) ==
    /\ running.by # "tab"
    /\ Keep(said)
    /\ running' = NoRequest
    /\ told' = IF at = "page" /\ running.by # "lost" THEN "ok" ELSE "error"
    /\ UNCHANGED <<tab, kept>>

\* A way a handler takes, with a message or without.
Said(way) == IF way.say = "nothing" THEN running.said ELSE [running.said EXCEPT ![way.say] = click]
Speaks(way) == spoken' = spoken \cup ({way.say} \ {"nothing"})
GoesOn(way) ==
    /\ way.then = "on"
    /\ Speaks(way)
    /\ running' = [running EXCEPT !.pc = @ + 1, !.said = Said(way)]
    /\ UNCHANGED <<flash, tab, told, kept>>
Leaves(way) ==
    /\ way.then # "on"
    /\ Speaks(way)
    /\ \/ way.then = "redirect" /\ Redirects(way.to, None, Said(way))
       \/ way.then # "redirect" /\ (Renders(way.then, None, Said(way)) \/ Tells(way.then, Said(way)))
Takes(way) == GoesOn(way) \/ Leaves(way)

-----------------------------------------------------------------------------
(* The user and the scripts of a page *)

Clicks(to, by, method) ==
    /\ AtRest
    /\ running' = [Request(to, None, by) EXCEPT !.method = method]
    /\ tab' = IF by = "tab" THEN Tab("blank", None, Silent) ELSE tab
    /\ told' = "nothing"
    /\ wanted' = None
    /\ UNCHANGED <<cookie, flash, kept>>

\* Links can be followed from anywhere, forms and scripts are on pages.
Click(name) ==
    /\ click < MaxClicks
    /\ \/ Programs[name].by = "link" /\ Clicks(name, "tab", "get")
       \/ Programs[name].by = "form" /\ tab.at = "page" /\ Clicks(name, "tab", "post")
       \/ Programs[name].by \in {"json", "any"} /\ tab.at = "page" /\ Clicks(name, Programs[name].by, "post")
    /\ click' = click + 1
    /\ last' = name
    /\ missed' = FALSE
    /\ detour' = FALSE
    /\ spoken' = {}
    /\ UNCHANGED cluster

\* The form of the login page.  Its address may be entered, too, and the page
\* has a link to the page about the connection.
SubmitLogin ==
    /\ AtRest
    /\ tab.at = "login"
    /\ running' = Request(SignIn, tab.dest, "tab")
    /\ UNCHANGED <<cookie, flash, tab, told, cluster, history>>

Visit ==
    /\ \/ tab.at = "blank" /\ Clicks(Login, "tab", "get")
       \/ tab.at = "login" /\ Clicks(Lonesome, "tab", "get")
    /\ detour' = TRUE
    /\ UNCHANGED <<click, last, missed, spoken, cluster>>

-----------------------------------------------------------------------------
\* The client asks the servers it knows to be connected.
Answering == reachable /\ connected

(* RedirectAuthenticator.  No server is missed by a request without a       *)
(* session: none is asked.                                                  *)

Missing == cookie /\ ~Answering
LoggedIn == cookie /\ ~Missing /\ alive

Arriving == running.pc = 0 /\ running.to \in Names

\* There is no such page: the address of a form, entered.
NoRoute ==
    /\ Arriving
    /\ running.method = "get" /\ Programs[running.to].by = "form"
    /\ \/ running.to \in DOMAIN SameAddress /\ Redirects(SameAddress[running.to], None, Silent)
       \/ running.to \notin DOMAIN SameAddress /\ Renders("notfound", None, Silent)
    /\ UNCHANGED <<cookie, cluster, click, last, missed, detour, spoken, wanted>>

Routed == Arriving /\ ~(running.method = "get" /\ Programs[running.to].by = "form")

Accepted ==
    /\ Routed
    /\ LoggedIn
    /\ running' = [running EXCEPT !.pc = 1]
    /\ UNCHANGED <<cookie, flash, tab, told, cluster, history>>

Unavailable ==
    /\ Routed
    /\ Missing
    /\ \/ running.by = "tab" /\ Redirects(Lonesome, None, Silent)
       \/ running.by # "tab" /\ Tells("error", Silent)
    /\ detour' = TRUE
    /\ UNCHANGED <<cookie, cluster, click, last, missed, spoken, wanted>>

\* Who wanted to sign out need not do so after the next login.
Destination(name) == IF name = SignOut THEN None ELSE name
Unauthorized ==
    /\ Routed
    /\ ~Missing /\ ~LoggedIn
    /\ \/ /\ running.by = "tab"
          /\ Redirects(Login, Destination(running.to), Silent)
          /\ wanted' = Destination(running.to)
       \/ running.by # "tab" /\ Tells("error", Silent) /\ UNCHANGED wanted
    /\ detour' = TRUE
    /\ UNCHANGED <<cookie, cluster, click, last, missed, spoken>>

-----------------------------------------------------------------------------
(* SessionsController, LonesomeInterfaceController *)

Onward(dest) == IF dest = None THEN Start ELSE dest
NoServers == [Silent EXCEPT !.error = IF connected THEN 0 ELSE click]
LoginPage(dest, said) == Renders("login", dest, said) /\ spoken' = spoken \cup {kind \in Kinds : said[kind] # 0}

LoginIndex ==
    /\ running.to = Login
    /\ \/ LoggedIn /\ Redirects(Onward(running.dest), None, Silent) /\ UNCHANGED spoken
       \/ ~LoggedIn /\ LoginPage(running.dest, NoServers)
    /\ UNCHANGED <<cookie, cluster, click, last, missed, detour, wanted>>

\* A fault: the form does not hand on where to go.
LoginForgets ==
    /\ running.to = SignIn
    /\ LoginPage(None, [Silent EXCEPT !.error = click])
    /\ UNCHANGED <<cookie, cluster, click, last, missed, detour, wanted>>
\* A field left empty, a password that is wrong; or no server: the client says
\* so in one of two ways, one of which is told only if no server is connected.
LoginRefused ==
    /\ running.to = SignIn
    /\ \/ LoginPage(running.dest, [Silent EXCEPT !.error = click])
       \/ ~Answering /\ LoginPage(running.dest, NoServers)
    /\ UNCHANGED <<cookie, cluster, click, last, missed, detour, wanted>>

LoginAccepted ==
    /\ running.to = SignIn
    /\ Answering
    /\ cookie' = TRUE
    /\ alive' = TRUE
    /\ Redirects(Onward(running.dest), None, Silent)
    /\ UNCHANGED <<reachable, connected, granted, changes, click, last, missed, detour, spoken, wanted>>

\* A fault: the page does not look at the connection.
DisconnectedRedirects ==
    /\ running.to = Lonesome
    /\ Redirects(Start, None, Silent)
    /\ UNCHANGED <<cookie, cluster, click, last, missed, detour, spoken, wanted>>
Disconnected ==
    /\ running.to = Lonesome
    /\ \/ connected /\ Redirects(Start, None, Silent)
       \/ ~connected /\ Renders("disconnected", None, Silent)
    /\ UNCHANGED <<cookie, cluster, click, last, missed, detour, spoken, wanted>>

-----------------------------------------------------------------------------
(* The steps of a handler *)

\* What a handler that changes something wants of the servers; reading for it counts.
Misses == missed' = (missed \/ (Doing.do \in {"read", "write"} /\ Changes(running.to)))

Allowed == Doing.needs \cap granted # {}

Proceeds ==
    /\ Handling
    /\ \/ Doing.do = "may" /\ Allowed
       \/ Doing.do = "check"
       \/ Doing.do \in {"read", "write"} /\ Answering
    /\ running' = [running EXCEPT !.pc = @ + 1]
    /\ UNCHANGED <<cookie, flash, tab, told, cluster, history>>

IsRefused ==
    /\ Handling
    /\ \/ Doing.do = "may" /\ ~Allowed
       \/ Doing.do = "check"
       \/ Doing.do \in {"read", "write"} /\ Answering
    /\ \E way \in Doing.refused : Takes(way)
    /\ Misses
    /\ detour' = (detour \/ Doing.do = "may")
    /\ UNCHANGED <<cookie, cluster, click, last, wanted>>

\* A fault: that the servers do not answer is not noticed.
LossUnnoticed ==
    /\ Handling
    /\ Doing.do \in {"read", "write"} /\ ~Answering
    /\ running' = [running EXCEPT !.pc = @ + 1]
    /\ Misses
    /\ UNCHANGED <<cookie, flash, tab, told, kept, cluster, click, last, detour, spoken, wanted>>
IsLost ==
    /\ Handling
    /\ Doing.do \in {"read", "write"} /\ ~Answering
    /\ \E way \in Doing.lost : Takes(way)
    /\ Misses
    /\ UNCHANGED <<cookie, cluster, click, last, detour, wanted>>

Ends ==
    /\ Handling
    /\ Doing.do = "end"
    /\ \E way \in Doing.refused : Leaves(way)
    /\ cookie' = (cookie /\ running.to # SignOut)
    /\ UNCHANGED <<cluster, click, last, missed, detour, wanted>>

-----------------------------------------------------------------------------
(* The servers.  isConnected follows after a while. *)

Refresh ==
    /\ connected # reachable
    /\ connected' = reachable
    /\ UNCHANGED <<reachable, alive, granted, changes, browser, history>>

ServersGoOrCome ==
    /\ changes < MaxChanges
    /\ reachable' = ~reachable
    /\ changes' = changes + 1
    /\ UNCHANGED <<connected, alive, granted, browser, history>>

Expire ==
    /\ changes < MaxChanges
    /\ alive
    /\ alive' = FALSE
    /\ changes' = changes + 1
    /\ UNCHANGED <<reachable, connected, granted, browser, history>>

-----------------------------------------------------------------------------
Init ==
    /\ reachable \in BOOLEAN /\ connected \in BOOLEAN /\ alive \in BOOLEAN
    /\ granted \in Grants
    /\ changes = 0
    /\ cookie \in BOOLEAN
    /\ flash = Silent
    /\ tab = Tab("blank", None, Silent)
    /\ told = "nothing"
    /\ running = NoRequest
    /\ click = 0
    /\ last = None
    /\ missed = FALSE
    /\ detour = FALSE
    /\ spoken = {}
    /\ kept = {}
    /\ wanted = None

Serve ==
    \/ NoRoute \/ Accepted \/ Unavailable \/ Unauthorized
    \/ LoginIndex \/ LoginRefused \/ LoginAccepted \/ Disconnected
    \/ Proceeds \/ IsRefused \/ IsLost \/ Ends

Next ==
    \/ \E name \in Names : Click(name)
    \/ SubmitLogin \/ Visit
    \/ Serve
    \/ Refresh \/ ServersGoOrCome \/ Expire

Spec == Init /\ [][Next]_vars

\* A request is served, and the state of the servers is looked at again and again.
FairSpec == Spec /\ WF_vars(Serve) /\ WF_vars(Refresh)

-----------------------------------------------------------------------------
(* Properties *)

Messages == [Kinds -> 0..MaxClicks]
Requests == [to : Targets, dest : Names \cup {None}, by : {"tab", "json", "any", "lost"},
             method : {"get", "post"}, pc : Nat, said : Messages]
Tabs == [at : {"blank", "page", "error", "crash", "notfound", "login", "disconnected"},
         dest : Names \cup {None}, shown : Messages]

\* The state is of the expected shape; no request is under way to nowhere.
TypeOK ==
    /\ reachable \in BOOLEAN /\ connected \in BOOLEAN /\ alive \in BOOLEAN
    /\ granted \in Grants
    /\ changes \in 0..MaxChanges
    /\ cookie \in BOOLEAN
    /\ flash \in Messages
    /\ tab \in Tabs
    /\ told \in {"nothing", "ok", "error"}
    /\ AtRest \/ running \in Requests
    /\ Handling => running.to \in Names /\ running.pc \in DOMAIN Programs[running.to].steps
    /\ click \in 0..MaxClicks
    /\ last \in Names \cup {None}
    /\ missed \in BOOLEAN /\ detour \in BOOLEAN
    /\ spoken \subseteq Kinds
    /\ kept \subseteq 0..MaxClicks
    /\ wanted \in Names \cup {None}

\* When the user is told of a success, by a message of this click or by the
\* answer to the script, all changes that the click asked of the servers were
\* made -- apart from the handlers above.
SuccessMeansDone ==
    AtRest /\ missed /\ last \notin SayDoneAnyway
        => told # "ok" /\ (click > 0 => tab.shown["success"] # click)

\* When a change could not be made the user sees an error page, or a message
\* about this click, or the script is told -- unless the browser was sent
\* elsewhere for want of a session, a server or a permission.
FailureIsTold ==
    AtRest /\ missed /\ ~detour /\ last \notin FailSilently
        => \/ told = "error"
           \/ tab.at \in {"error", "crash"}
           \/ tab.shown["error"] = click

\* What was said is shown at the end of the redirects that follow the click,
\* unless one of them was a detour; and what is shown is about this click, or
\* was shown before, by a form that was refused.
MessagesArrive ==
    AtRest /\ told = "nothing" /\ tab.at \in {"page", "error"} =>
        /\ ~detour => \A kind \in spoken : tab.shown[kind] = click
        /\ \A kind \in Kinds : tab.shown[kind] \in {0, click} \cup kept

\* Who signs in goes on to where the browser was sent to the login page from,
\* however many attempts it takes (SessionsController.java:104 "redirect back to
\* that page"); or to the start page.
LoginLeadsBack ==
    [][running.to = SignIn /\ running'.to \in Targets \ {SignIn} => running'.to = Onward(wanted)]_vars

\* No page that is asked for leads the browser in a circle for ever.
NavigationEnds == ~AtRest ~> AtRest

\* "if we were redirected from somewhere else because the session had expired,
\* redirect back to that page" (SessionsController.java:104): there is a page.
LoginFindsPage == tab.at # "notfound"
=============================================================================
