----------------------------- MODULE ListPages ------------------------------
(***************************************************************************)
(* The pages that show a list of the server's and change it: streams and   *)
(* their rules, outputs, alarm callbacks, users, grok patterns.            *)
(*                                                                         *)
(* None of them keeps a list up to date by itself.  A click sends a call;  *)
(* when it has succeeded the page loads the list anew, and shows what the  *)
(* server says.  Calls and loads are served and answered in any order, may *)
(* be refused or lost, and other users change the same lists.  Every load  *)
(* is numbered, in the order of the requests, so that a load that was      *)
(* overtaken can be told from the last one.                                *)
(***************************************************************************)
EXTENDS Naturals, FiniteSets

CONSTANTS
    Items,      \* ids of what is listed
    Messages,   \* messages the rules editor may try the rules on
    MaxOpen,    \* bound: requests that are open when the user acts again
    MaxActs     \* bound: clicks, and changes of other users

ASSUME ListPagesAssumption == MaxOpen \in Nat /\ MaxActs \in Nat /\ "new" \notin Items /\ "none" \notin Messages

\* What a page's operations do to its list, and when the page is told to load.
Op(do, reload) == [do |-> do, reload |-> reload]

\* save, cloneStream; update, pause, resume, and the rules of a stream; remove.
\* The update of a rule calls _emitChange where it should pass it on.
StreamsPage == {Op("add", "answered"), Op("alter", "answered"), Op("drop", "answered"), Op("alter", "sent")}
RulesEditor == {Op("add", "answered"), Op("drop", "answered"), Op("alter", "sent")}
\* A new output of a stream is made by one call and assigned by another.
OutputsOfStream == {Op("launch", "assigned"), Op("assign", "answered"),
                    Op("unassign", "answered"), Op("terminate", "answered"), Op("alter", "answered")}
AllOutputs == {Op("add", "answered"), Op("alter", "answered"), Op("drop", "answered")}
AlarmCallbacks == {Op("add", "answered"), Op("alter", "answered"), Op("drop", "answered")}
UserList == {Op("drop", "answered")}
GrokPatterns == {Op("add", "answered"), Op("alter", "answered"), Op("drop", "answered")}

OpsOf == [streams |-> StreamsPage, rules |-> RulesEditor, streamOutputs |-> OutputsOfStream,
          outputs |-> AllOutputs, callbacks |-> AlarmCallbacks, users |-> UserList,
          patterns |-> GrokPatterns]
Pages == DOMAIN OpsOf

\* The parts of a page that are loaded: the list; of the outputs of a stream
\* those that can be assigned; in the rules editor whether the message matches.
Parts == {"list", "all", "match"}

Lists == [list : SUBSET Items, all : SUBSET Items]

VARIABLES
    page,       \* the page that is open
    server,     \* what it lists, as the server has it; all outputs
    version,    \* counts the server's changes
    changes,    \* calls for changes, until they are answered
    loads,      \* loads, until they are answered
    shown,      \* what the page shows of each part
    latest,     \* the number of the last load of each part
    asked,      \* counts the page's requests
    message,    \* the message in the rules editor
    wrote,      \* the last change that was confirmed to the page and reloaded for
    updated,    \* the last update of a rule that was confirmed
    created,    \* outputs the page has made for its stream
    told,       \* those the user was told could not be assigned
    acts

page_state == <<shown, message>>
history == <<wrote, updated, created, told>>
vars == <<page, server, version, changes, loads, shown, latest, asked, message, history, acts>>

UserActs ==
    /\ acts < MaxActs /\ acts' = acts + 1
    /\ Cardinality(changes \cup loads) <= MaxOpen
Later(v, w) == IF v > w THEN v ELSE w

-----------------------------------------------------------------------------
(* Requests *)

\* version is 0 until the server has answered.
Load(part, n, m, known) ==
    [part |-> part, no |-> n, about |-> m, known |-> known, version |-> 0, items |-> {}]
Change(op, i, n) == [op |-> op, item |-> i, no |-> n, version |-> 0, outcome |-> "open"]
\* Served, and about to be answered.
Served(l, v, items) ==
    [part |-> l.part, no |-> l.no, about |-> l.about, known |-> l.known, version |-> v, items |-> items]
Done(c, i, v) == [op |-> c.op, item |-> i, no |-> c.no, version |-> v, outcome |-> "done"]

\* loadData of every page; the rules editor tries its message again.
LoadData(n) ==
    {Load("list", n, "none", {})}
        \cup (IF message = "none" THEN {} ELSE {Load("match", n, message, {})})
LatestAfter(n) == [p \in Parts |-> IF p = "match" /\ message = "none" THEN latest[p] ELSE n]

Init ==
    /\ page \in Pages
    /\ server \in Lists
    /\ IF page = "streamOutputs" THEN server.list \subseteq server.all ELSE server.all = {}
    /\ version = 1
    /\ message = "none"
    /\ changes = {} /\ loads = {Load("list", 1, "none", {})}
    /\ shown = [p \in Parts |-> [no |-> 0, about |-> "none", version |-> 0, items |-> {}]]
    /\ latest = [p \in Parts |-> IF p = "match" THEN 0 ELSE 1]
    /\ asked = 1
    /\ wrote = 0 /\ updated = 0 /\ created = {} /\ told = {}
    /\ acts = 0

\* The items an operation is offered for.
Offered(op) ==
    CASE op.do \in {"add", "launch"} -> {"new"}
      [] op.do = "assign" -> shown["all"].items
      [] OTHER -> shown["list"].items

\* A form is submitted, a removal confirmed, a button clicked.
Submit(op, i) ==
    /\ UserActs
    /\ op \in OpsOf[page] /\ i \in Offered(op) /\ shown["list"].no > 0
    /\ changes' = changes \cup {Change(op, i, asked + 1)}
    /\ asked' = asked + 1
    /\ IF op.reload = "sent"
       THEN loads' = loads \cup LoadData(asked + 1) /\ latest' = LatestAfter(asked + 1)
       ELSE UNCHANGED <<loads, latest>>
    /\ UNCHANGED <<page, server, version, page_state, history>>

\* onMessageLoaded
MessageLoaded(m) ==
    /\ UserActs
    /\ page = "rules" /\ shown["list"].no > 0
    /\ message' = m
    /\ asked' = asked + 1
    /\ loads' = loads \cup {Load("match", asked + 1, m, {})}
    /\ latest' = [latest EXCEPT !["match"] = asked + 1]
    /\ UNCHANGED <<page, server, version, changes, shown, history>>

-----------------------------------------------------------------------------
(* The server *)

\* What may become of the lists, and the item it is about.
Effects(do, i) ==
    LET To(list, all, item) == [lists |-> [list |-> list, all |-> all], item |-> item]
    IN  CASE do = "add" -> {To(server.list \cup {n}, server.all, n) : n \in Items \ server.list}
          [] do = "launch" -> {To(server.list, server.all \cup {n}, n) : n \in Items \ server.all}
          [] do = "alter" -> {To(server.list, server.all, n) : n \in {i} \cap server.list}
          [] do \in {"drop", "unassign"} ->
               {To(server.list \ {n}, server.all, n) : n \in {i} \cap server.list}
          [] do = "assign" -> {To(server.list \cup {n}, server.all, n) : n \in {i} \cap server.all}
          [] do = "terminate" ->
               {To(server.list \ {n}, server.all \ {n}, n) : n \in {i} \cap server.all}

\* Outputs that are terminated or taken from the stream are nobody's debt.
Forgiven(before, after) == created \ ((before.list \ after.list) \cup (before.all \ after.all))

ServeChange(c) ==
    /\ c.outcome = "open"
    /\ \E e \in Effects(c.op.do, c.item) :
         /\ server' = e.lists
         /\ version' = version + 1
         /\ changes' = (changes \ {c}) \cup {Done(c, e.item, version + 1)}
         /\ created' = Forgiven(server, server')
    /\ UNCHANGED <<page, loads, page_state, latest, asked, wrote, updated, told, acts>>

ServeLoad(l) ==
    /\ l.version = 0
    /\ loads' = (loads \ {l})
                  \cup {Served(l, version, IF l.part = "all" THEN server.all ELSE server.list)}
    /\ UNCHANGED <<page, server, version, changes, page_state, latest, asked, history, acts>>

OthersChange ==
    /\ UserActs
    /\ \E op \in OpsOf[page], i \in Items : \E e \in Effects(op.do, i) :
         /\ server' = e.lists
         /\ created' = Forgiven(server, server')
    /\ version' = version + 1
    /\ UNCHANGED <<page, changes, loads, page_state, latest, asked, wrote, updated, told>>

-----------------------------------------------------------------------------
(* Answers *)

\* A fault: the store does not tell its listeners.
ReloadForgotten(c) ==
    /\ changes' = changes \ {c}
    /\ wrote' = Later(c.version, wrote)
    /\ UNCHANGED <<loads, latest, asked, updated, created>>
\* The list is loaded anew, by whatever listens to the store or was passed to
\* the call.
Reload(c) ==
    /\ loads' = loads \cup LoadData(asked + 1)
    /\ latest' = LatestAfter(asked + 1)
    /\ asked' = asked + 1
    /\ wrote' = Later(c.version, wrote)
    /\ changes' = changes \ {c}
    /\ UNCHANGED <<updated, created>>

\* A fault: the page is loaded instead.
LaunchedOnly(c) ==
    /\ loads' = loads \cup LoadData(asked + 1)
    /\ latest' = LatestAfter(asked + 1)
    /\ asked' = asked + 1
    /\ created' = created \cup ({c.item} \cap server.all)
    /\ changes' = changes \ {c}
    /\ UNCHANGED <<wrote, updated>>
\* _handleCreateOutput, its first half: the output is to be the stream's.
AssignCreated(c) ==
    /\ changes' = (changes \ {c}) \cup {Change(Op("assign", "answered"), c.item, asked + 1)}
    /\ created' = created \cup ({c.item} \cap server.all)
    /\ asked' = asked + 1
    /\ UNCHANGED <<loads, latest, wrote, updated>>

\* .done(undefined)
NothingElse(c) ==
    /\ changes' = changes \ {c}
    /\ updated' = Later(c.version, updated)
    /\ UNCHANGED <<loads, latest, asked, wrote, created>>

ChangeDone(c) ==
    /\ c.outcome = "done"
    /\ CASE c.op.reload = "answered" -> Reload(c)
         [] c.op.reload = "assigned" -> AssignCreated(c)
         [] c.op.reload = "sent" -> NothingElse(c)
    /\ UNCHANGED <<page, server, version, page_state, told, acts>>

\* Refused, or served and its answer lost: the user is told, nothing is loaded.
ChangeFailed(c) ==
    /\ changes' = changes \ {c}
    /\ told' = IF c.op.do = "assign" THEN told \cup {c.item} ELSE told
    /\ UNCHANGED <<page, server, version, loads, page_state, latest, asked, wrote, updated, created, acts>>

\* The outputs of the stream are followed by all outputs, of which those can be
\* assigned that are not among the ones just loaded.
Assignable(l) == IF l.part = "all" THEN l.items \ l.known ELSE l.items
\* Faults: not among those that were shown before; a part of another name.
FetchAssignableOfShown(l) ==
    IF page = "streamOutputs" /\ l.part = "list"
    THEN {Load("all", l.no, "none", shown["list"].items)} ELSE {}
FetchAssignableOutputs(l) ==
    IF page = "streamOutputs" /\ l.part = "list"
    THEN {Load("assignable", l.no, "none", l.items)} ELSE {}
FetchAssignable(l) ==
    IF page = "streamOutputs" /\ l.part = "list" THEN {Load("all", l.no, "none", l.items)} ELSE {}

Loaded(l) ==
    /\ l.version > 0
    /\ shown' = [shown EXCEPT ![l.part] =
                   [no |-> l.no, about |-> l.about, version |-> l.version, items |-> Assignable(l)]]
    /\ loads' = (loads \ {l}) \cup FetchAssignable(l)
    /\ UNCHANGED <<page, server, version, changes, latest, asked, message, history, acts>>

LoadFailed(l) ==
    /\ loads' = loads \ {l}
    /\ UNCHANGED <<page, server, version, changes, page_state, latest, asked, history, acts>>

-----------------------------------------------------------------------------
Next ==
    \/ \E op \in OpsOf[page] : \E i \in Offered(op) : Submit(op, i)
    \/ \E m \in Messages : MessageLoaded(m)
    \/ OthersChange
    \/ \E c \in changes : ServeChange(c) \/ ChangeDone(c) \/ ChangeFailed(c)
    \/ \E l \in loads : ServeLoad(l) \/ Loaded(l) \/ LoadFailed(l)

Spec == Init /\ [][Next]_vars

-----------------------------------------------------------------------------
(* Properties *)

AllOps == UNION {OpsOf[p] : p \in Pages}
LoadRecords == [part : Parts, no : Nat, about : Messages \cup {"none"}, known : SUBSET Items,
                version : Nat, items : SUBSET Items]
ChangeRecords == [op : AllOps, item : Items \cup {"new"}, no : Nat, version : Nat,
                  outcome : {"open", "done"}]

TypeOK ==
    /\ page \in Pages /\ server \in Lists /\ version \in Nat
    /\ changes \in SUBSET ChangeRecords
    /\ loads \in SUBSET LoadRecords
    /\ shown \in [Parts -> [no : Nat, about : Messages \cup {"none"}, version : Nat, items : SUBSET Items]]
    /\ latest \in [Parts -> Nat] /\ asked \in Nat
    /\ message \in Messages \cup {"none"}
    /\ wrote \in Nat /\ updated \in Nat
    /\ created \in SUBSET Items /\ told \in SUBSET (Items \cup {"new"})
    /\ acts \in 0..MaxActs

\* A page reads what it wrote: if the last load of a part is the one it shows,
\* neither overtaken nor failed, it shows the list, the assignable outputs and
\* the match as they were after every change that was confirmed to the page;
\* and the match is that of the message in the editor.
\* (The stores call the listeners, and the components loadData, when a call is
\* done; the update of a rule excepted.)
ReadsItsWrites ==
    \A p \in Parts : shown[p].no = latest[p] /\ latest[p] > 0 =>
        /\ shown[p].version >= wrote
        /\ p = "match" => shown[p].about = message

\* The same of the update of a rule: StreamRule.jsx:32 tells the user "Stream
\* rule has been successfully updated."
RuleUpdatesAreShown ==
    \A p \in Parts : shown[p].no = latest[p] /\ latest[p] > 0 => shown[p].version >= updated

\* No output is shown as assigned and offered for assignment, unless a load was
\* overtaken or has failed.  (OutputsComponent._fetchAssignableOutputs)
AssignableIsTheRest ==
    shown["list"].no = latest["list"] /\ shown["all"].no = latest["all"] =>
        shown["all"].items \cap shown["list"].items = {}

\* An output launched from the page of a stream is the stream's, or is about to
\* be, or the user was told it could not be: it never stays behind in silence.
\* (OutputsComponent._handleCreateOutput, which needs two calls.)
LaunchedIsAssignedOrTold ==
    \A i \in created :
        \/ i \in server.list
        \/ i \in told
        \/ \E c \in changes : c.op.do = "assign" /\ c.item = i
=============================================================================
