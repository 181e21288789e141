# Graylog web interface: TLA+ models, checks and proofs

The web interface is a Play application (`app/`) that renders pages and relays
the REST API of a Graylog cluster, and the JavaScript those pages run
(`javascript/src`, `app/assets/javascripts`). It persists nothing but what the
cluster keeps for it; what is hard in it is time: timers, requests that
overlap, answers that arrive in any order or not at all, connections that are
lost and made again, and several pages of several users that change the same
things. The modules here model the parts where that matters most, TLC checks
them on small instances, and TLAPS proves the main results for every instance.

Run them in this directory: `tlc -config <run>.cfg <module>.tla`,
`tlapm <module>.tla`. `PROJECT.json` lists the runs, the faults each property
was seen to catch, the source lines behind every definition, the hazards and
the theorems.

## 1. Inventory

Each component with the state it keeps, what happens to it, whom it talks to,
what is hard about it, and what makes it correct.

**Metrics push channel** — `MetricsStore.ts` in the browser,
`api/MetricsController.java` and `models/sockjs` in the server.
State: one SockJS connection with its reconnect timer, the queued requests and
the callbacks of the components; on the server, per connection, the session, a
multimap of subscriptions and a polling job. Operations: `listen`, `connect`,
`onopen`, `onmessage`, `onclose`; commands in, polls of the nodes, pushes out.
It is called by the components that show throughput, buffers, journals, heap
and input metrics. Hard: `listen` races `connect` and reconnects; the server end
of a lost connection lives on; a poll iterates over a map that commands change;
a node fails in the middle of a poll; not every component has a way to say that
its values are old. Correct when no listener is forgotten, those that can say so
do when a connection is lost, an update is complete or says it is not, and each
component sees only what it asked for.

**Dashboard in the page** — `dashboards.js`, `components/widgets`,
`WidgetsStore.ts`, `BootstrapModal.jsx`, `api/DashboardsApiController.java`.
State: the grid, the lock button, whether widgets may be dragged, the resize
timer; per widget what it shows, its editor and the object it shares with it;
loads, saves and removals under way. Operations: lock, unlock, resize, edit, save,
cancel, remove, refresh; other users edit and remove. Hard: loads overtake each
other and saves, jQuery events and React state must agree, an exception in one
widget stops the loop over all of them, saves and removals fail after they were
shown. Correct when the parts of the page agree on the lock, nothing is dragged
behind a dialog, a widget leaves the page only when it is gone, and every widget
comes to show what is stored.

**Query parser and search bar** — `logic/search/queryParser.ts`, its visitors,
`components/search/QueryInput.ts`. State: position of the lexer, buffer of
tokens, errors; the query typed and the completions offered. Operations: type,
complete. Hard: backslashes, unfinished phrases and ranges, recovery after an
error, hidden tokens that must survive in one of seven places. Correct when the
parser accepts exactly its language, says nothing of what it may ignore, loses
and reorders nothing, and a completion keeps what it does not complete.

**Periodic updates** — `periodicals.js`, `updateManager.js`, the progress of
system jobs in `main.js`, the two loops of `Widget.jsx`. State: a timer and
requests per poller; whether the window has the focus and the user wants updates
without it. Operations: timer, answer, error, focus, blur, the menu entry. Hard:
each poller keeps itself alive, some by the answer and some before it; being
held back is another timer; a widget that is gone is told to only one of its
loops. Correct when no poller dies or doubles, the background is quiet, and
every poller comes to show the current state.

**Requests, sessions and messages** — all controllers, `lib/security`,
`SessionsController`, `Global`, `LonesomeInterfaceController`,
`AuthenticatedController`, the layout. State: the cookie with the session and
the messages ("flash") for the next page, the sessions of the cluster, whether
the cluster is reached. Operations: log in, log out, some 190 handlers, each of
which checks, asks the cluster, changes something and leads on; the expiry of a
session, loss of the cluster. Hard: calls fail one by one; an expired session,
a missing permission and an unreachable cluster must be told apart, for pages
and for scripts; messages travel through redirects. Correct when the user is
told of what happened and of nothing else, signing in leads back, and every loop
of redirects ends.

**Lists** — streams and their rules, outputs, alarm callbacks, users, grok
patterns: a store, a component and an API controller each. State: the list in
the page, calls under way. Operations: a call that changes something, then the
list is fetched anew; launching an output for a stream takes two calls. Hard:
calls and lists are served and answered in any order, refused or lost; other
users change the same lists. Correct when a page reads what it wrote, the parts
of a page agree, and nothing is left half done in silence.

**Field charts** — `FieldGraphsStore.ts`, `FieldGraphs.jsx`,
`analyzers/fieldcharts.js`. State: the charts of the page and which of them are
stacked, kept in the browser's storage; a graph object and a container for
each. Operations: add, change, merge by dragging, dismiss, reload. Hard: answers
come late, to containers that are gone or to stacks made meanwhile; a chart is
found by its id in one place and by its container in another; a container is
emptied when data is asked for, and drawn into when it comes. Correct when no
chart is hidden for ever, each shows what is saved of it and nothing else, and
stacks are whole.

**Search page and saved searches** — `SearchStore.ts`,
`SavedSearchesStore.ts`, `SavedSearchControls.jsx`, `SearchBar.jsx`. State: the
query and time range being edited, those of the search shown, the list of saved
searches. Hard: what is saved is the search shown, not the one edited.

**Search on the server side** — `SearchController`, `SearchApiController`,
`DashboardsApiController`. Stateless: the resolution of a histogram, its
missing points filled, results sampled. Correct when the number of points stays
in its bounds and no value is lost or made up.

**System jobs, indices, deflector** — `SystemJobsController`,
`IndicesController`. A job that disappeared from the list is shown as finished.
**Alerts**, **collectors, content packs** — forms and single calls. **Inputs**,
**extractors** — forms, start and stop on one node or on all of them, an import
that goes on after a failure. **Message loaders** — one request, one table.
**Notifications** — one class of text for each. **Nodes, metrics pages,
logging** — display of what the metrics channel and single calls bring. **Users,
permissions, LDAP** — forms and the start page. **Sources page** — charts over
one data set. **Common parts**, **views**, **configuration and build**.

## 2. Plan

In this order, the modules that hold most of the hazards first.

| | module | what | composed with | proofs |
|---|---|---|---|---|
| 1 | MetricsChannel | push channel | implements MetricsFeed | all invariants, the refinement |
| 2 | DashboardEditing | a dashboard and its widgets | | all invariants |
| 3 | QueryLexer, QueryParser, QueryText, QueryVisitors, QueryInput | parser, its text, the visitors, the search bar | each on those before | all invariants: tokens, language, trees and completions, for every query |
| 4 | Periodicals | pollers and updateManager | | all safety properties |
| 5 | FieldCharts | field charts and their stacks | | all invariants |
| 6 | ListPages | seven pages with lists | | all invariants |
| 7 | WebHandlers, SystemHandlers | the handlers, as tables of steps | run by WebRequests | |
| 8 | WebRequests | browser, cookie, sessions, cluster | runs any table of handlers | all safety properties |
| 9 | HistogramResolution, DashboardLayout, SearchPage | resolution and filling of histograms; positions of widgets; the two search stores | | left, see section 7 |

SequenceLemmas holds what the proofs need to know of sequences (removing,
replacing, appending, slicing, flattening and the sets of elements), and the
principles of induction and recursion the proofs about the parser rest on.

## 3. The modules and the code

### MetricsChannel, MetricsFeed

Connections are numbered; the browser talks to connection `sock`, older ones
live on at the server until it notices (`OnServerClose`). `Connect`, `OnOpen`,
`OnMessage`, `OnClose` and `Listen` are the methods and handlers of
`MetricsStore.ts`; `queuedRequests` and `callbacks` are its arrays, of which the
code never removes anything. `OnCommand` is the `onMessage` of the server's
connection, for both commands. A run of the `PollingJob` is `StartPoll`, one
`PollNode` for each node it comes to, and `FinishPoll` or `PollAborts`: commands
arrive between these, because the iteration over the multimap's keys is not
synchronized. `PollNode` may take any of the keys that are left, and a node
added meanwhile may be met or not. A push under way also carries, for the
properties only, what was asked when its poll began and whether the map changed.

A value is a pair of node and metric: whether it is the right number is the
cluster's affair. Metrics that a node does not have are left out of its answer,
as `Exposed` says.

`view` is the state a component keeps: whether it was called (`initialized`),
`hasError`, its values, and the connection that brought them. What it does with
an update, and what its `render` shows, depends on its `Style`: *text*
(throughput of the cluster, a node or a stream, input metrics) says that there
is an error instead of showing values; *heap* (JvmHeapUsage) says so too, beside
bars that keep their width; *buffer* (BufferUsage) and *journal* (JournalState,
JournalDetails) have `hasError` in their state and render their values all the
same. The first two are `Speakers`: NoStaleData and the promise about lost
connections are about them, and about them only. The others show old
values after a loss, in the model as in the code (section 5). `Shown` is what
each renders.

MetricsFeed is the promise: what components that listen show is what they asked
for; while the channel is down, those who can say so (`Speakers`) say so, and
the others keep what they have. `Feed` maps MetricsChannel to it, with
`Shown` for what is shown.

### DashboardEditing

`LoadData` and `LoadDone` are `_loadData` and its two callbacks; an answer is
computed by the server when it gets to the request (`ServerAnswersLoad`) and may
arrive after a younger one. `Unlock`, `LockAll`, `Lock`, `Resize` and
`ReloadDashboard` are the functions of `dashboards.js`, with the events they
trigger in the widgets. Unlocking mounts the editors one by one: an editor of a
widget whose data has not arrived throws, and what was done so far stays
(`crashed`). The editor copies the title and shares the configuration's object
(`aliased`, which is how the model says that two fields are one object) until a
load replaces it: `TypeConfig` changes both, `Cancel` does not take it back.
`Save` shows what was typed and sends it; `PutArrives` stores it, or does not;
`DeleteWidget`, `ServerRemoves` and `RemovalDone` are a removal, its arrival and
its answer, which may be an error although the widget is gone. `OtherEdits` and
`OtherDeletes` are other users; `OpenPage` loads the page anew.

A widget's fields are reduced to a title (copied) and a configuration (shared).
`held` is history: what the server ever held or was asked to. The window is in
the foreground throughout (Periodicals has the background). Positions are not
modelled, nor are the charts in a widget.

### QueryLexer, QueryParser, QueryVisitors, QueryText, QueryInput

A query is a sequence of characters. QueryLexer has `next()` and the tests on
characters, each with the position it leaves behind: `lookAhead()` skips a
backslash each time it is called, so that a test is not without effect, and
`Peek`, `Scan` and `Recognise` return positions. QueryParser has the recursive
descent: each rule takes and returns a record of tokens left, errors and
whether an exception was thrown. It has the first and follow sets and the three
ways to recover. The rules that call each other are the recursive functions
`Expression` and `Items` over those records; the rules between them take
`Expression` as an argument. QueryVisitors has the trees, by their
height, and both visitors: `Dump` returns the tokens of a tree, the hidden ones
included, `Serialize` the trees in it. These are recursive functions on the trees
a query of that length can have (`TreesOf`). DumpVisitor skips a tree that is the
same object, `Dump` one that is equal: trees that hold a token differ, because
tokens have positions, and those that hold none are dumped as nothing anyway.
QueryText is the text in the search bar and
what the parser makes of it; an `Edit` replaces it by any other.

QueryText also says what the language is (`Grammatical`): a condition on
neighbouring tokens. A sign followed by white space (`LoneSign`) is an ERROR
token of the lexer and belongs to the language all the same, anywhere: "this kind
of query should not create any errors", says `queryParserTests.js:480`, and the
parser skips it like white space. Here code and test disagree, as the
test's own TODO admits: the parser reports the sign. AcceptsTheLanguage therefore
compares the language with `Accepted` -- nothing thrown, and nothing reported
but such signs -- and not with having no errors. Every other ERROR token is
outside of the language.

QueryInput is
the search bar: `Type` a chunk, `Take` a completion. Both are edits. Which ten
completions of all that match are shown is left out: any that matches may be
taken.

### Periodicals

A poller is a name with a style: *sequential* ones (total events, badge of
notifications, job progress) set their timer in `complete`; the others
(`_loadData`, `_loadValue`, and the counters of log messages) when they send
their request. `timers[p]` counts the timers that run, of either kind: the
second in which a poller that is held back waits is a timer too, and firing it
changes nothing. `Fire` sends a request unless the widget was deleted, in which
case the loop ends; `Succeed` and `Fail` are the server; `Receive` takes any
answer, `complete` included. `Focus`, `Blur` and `SetUpdateUnfocussedMode` are
`updateManager.js`; `foreground` and `visited` say what is really the case, as
opposed to `focussed`, what the manager believes: a page opened in a background
tab is believed to be in the foreground.

### FieldCharts

A chart exists three times. `saved`, `opts` and `stacks` are the store's
`fieldGraphs` and `stackedGraphs`, which survive `Reload`; `series` and
`attached` are the graph objects of `fieldcharts.js`, which are found by id;
`loaded`, `lines`, `combined`, `canvas`, `drawn` and `leftovers` are the
containers in the page. A request remembers the options it was sent with, the
event its answer triggers, and whether its container was removed since.
`AnswerOk` is the whole success handler: it saves (`SaveGraph`), draws (`Draw`),
and tells the store, which merges (`Combine`). Drawing adds a graph to the
container: what was there stays, above it, as `leftovers`. Only sending a
request for new data empties the container (`DeleteGraphs`, in
`ChangeInterval`), so that two requests under way leave two graphs; `overlapped`
is the history of that, for ShownAsSaved. `Drop` is the drag and drop of one
chart onto another, with `UpdateStackedGraphs`; `DeleteGraph` the store's
recursive deletion, as the family of a chart: what is in all sets that hold it
and the stacks of their charts. Options are of two kinds, those that are fetched
for and those that are drawn. Statistics and quick values, which are one request
and one box each, are not modelled.

### ListPages

One module for seven pages, which have the same protocol: `OpsOf` says of each
page which operations it has, what they do to the list and when the page loads
it again. `Submit` is a click, `ServeChange` and `ServeLoad` the server, in any
order; `ChangeDone`, `ChangeFailed`, `Loaded` and `LoadFailed` are the answers,
which may also be errors after the change was made. Loads and changes carry
numbers and the server's version, to tell what overtook what. `AssignCreated` is
the second call that launching an output makes; `FetchAssignable` the load that
hangs on the list of a stream's outputs; `MessageLoaded` the match of a message
in the rules editor. The contents of forms are left out.

### WebHandlers, SystemHandlers, WebRequests

A handler is a program: a sequence of steps, each a permission asked for, a
check of what was submitted, a call that reads or one that changes, with the
ways the handler takes when it is refused or lost, and an end. The two tables
have the public methods of the controllers that have a route, one program each,
in the order of the code's calls, with what its catch clauses do; how the browser
comes to it (link, form, script) is the route's and the page's. Not in the
tables are `SessionsController.index` and `create` and
`LonesomeInterfaceController.index`, which are actions of WebRequests;
`checkServerAvailability`, which answers whether the cluster is reached and
nothing else; `OpenSearchController.index`, a constant text; the assets; and
`StreamSearchController.exportAsCsv`, which has the program of
`SearchController.exportAsCsv`. `InputsController.terminateRadio` is in the table
although it has no route.

WebRequests runs the programs. `Click` follows a link, sends a form or a
script's call; `NoRoute`, `Unavailable`, `Unauthorized` and `Accepted` are the
router and `RedirectAuthenticator`; `Proceeds`, `IsRefused`, `IsLost` and `Ends`
execute the step `running.pc` is at; `LoginIndex`, `LoginRefused`,
`LoginAccepted` and `Disconnected` are the public pages. `flash` is Play's:
what is said in a response is there for the next request, and gone after it.
`connected` follows `reachable` late, as `ServerNodes` does. `click`, `missed`,
`detour`, `spoken`, `kept` and `wanted` are history, for the properties.

Before the machine WebRequests says how handlers are written, step by step and
without running any: `HandlersRun` (they have an end and redirect to each other),
`MessagesArePosted` and `ChangesAreReported`. The exceptions, in `SayDoneAnyway`
and `FailSilently`, are methods that do not pass, by name, with the line each
bites at.

## 4. What is checked

| run | bounds | states | shows |
|---|---|---|---|
| metrics | 2 nodes, a node id unknown, "all nodes", 2 metrics, 2 listeners (a text and the journal), 2 connections, 1 push per connection | 404,000 | the invariants, the refinement of MetricsFeed, EveryListenerServed |
| metrics_dup | as metrics | to the first violation | a finding |
| editing | 1 widget, 2 titles, 2 configurations, 2 loads, 5 acts of users | 569,000 | lock, grid, removal, titles, EventuallyShowsStored |
| editing_drag | 2 widgets, 2 acts | to the first violation | a finding |
| field_charts | 4 charts, 2 options of each kind, 2 requests per chart, 4 acts | 649,000 | NothingHiddenForEver, ShownAsSaved, StackIsDrawn |
| list_pages | 2 items, 2 messages, 1 request open when the user acts, 3 acts, all pages | 1,804,000 | ReadsItsWrites, AssignableIsTheRest, LaunchedIsAssignedOrTold |
| rule_update | 1 item, 2 acts | to the first violation | a finding |
| periodicals | a sequential poller and both loops of a widget, 1 change | 160,000 | OnePulse, QuietInBackground, NeverGoesBack, EventuallyCurrent, DeletedStops |
| query | 5 chunks, with completions | 161,000 | tokens, positions, grammar, dump, completion |
| query_throw | 4 chunks | to the first violation | a finding |
| web_requests | 2 clicks on any handler, 1 change of servers or session, 2 users | 548,000 | SuccessMeansDone, FailureIsTold, MessagesArrive, LoginLeadsBack, NavigationEnds |
| login_destination | as web_requests | to the first violation | a finding |

Why these are enough. Two connections are one reconnect, after which a page is
in the state it could be in after any number of them, but for the number of
callbacks. A node known with all values, one with some, one unknown and "all"
are the cases the poll tells apart. One push per connection suffices for
updates of an older poll, since polls of two connections overlap. Two loads of
a widget can overtake each other; five acts let a widget be unlocked, edited,
cancelled, edited again and saved or removed; a second widget is needed where
one editor throws while the other does not (editing_drag), and the proofs of the
lock and the grid are for any number of them. Five chunks hold
every pair of neighbours in the grammar and an error with something on both
sides; the parser looks at two tokens at most. In Periodicals pollers do not
meet but in the manager, so one of each style stands for all. Four charts are a
stack dropped on a stack, the deepest the drag and drop makes in one go; four
acts build it and change, dismiss or reload something. In ListPages three acts
are two changes and a third that meets their answers, with up to four requests
open, as one change may load two parts. In WebRequests two clicks are one that
leaves a message and one that might find it; one change of the servers in the
middle separates any two calls of a handler. There the handlers of `Enough`
represent the others: EnoughAssumption has TLC check that every other one has
the program of one of them, but for the permissions it needs. The assumptions
of the proofs about the handlers are evaluated for all handlers
(AllHandlersAssumption), not only for these. The proofs below need none of
these bounds.

CHECK_DEADLOCK is FALSE in every cfg: the bounds on connections, edits, typed
chunks and versions let a model come to its end, as the pages do when nobody
does anything.

**Fairness.** Timers fire, and what is under way in the browser or between it
and the server arrives: weak fairness of `Connect`, `OnOpen`, `OnMessage`,
`OnReady`, `OnCommand`, `StartPoll`, `FinishPoll`, `LoadData`, `LoadDone`,
`Fire`, `Receive` and so on; of WebRequests `Serve` (a request is served) and
`Refresh` (`ServerNodesRefreshService` looks at the servers again and again). A
poll makes progress whatever its nodes answer; a request is answered or fails in
the end, for browsers give up. A server that is asked again and again is assumed
not to fail every time: strong fairness of `ServerAnswersLoad` and `Succeed`,
without which no widget need ever show anything. What users do, the loss of a
connection and the changes made by others are never fair. EveryListenerServed
asks for a connection that lasts; EventuallyCurrent and DeletedStops ask for a
window that is not left in the background for ever, where the code is meant to
be silent.

**Hazards and properties.** What each property is for is said above it, in the
module; `PROJECT.json` lists it with the lines of code where the hazard is, and
with one plausible fault of the code that the run catches. The faults are
operators of the modules (*GreetingForgets*, *FireOnce*, ...), marked as such;
nothing uses them.

## 5. Findings

- `MetricsStore.ts:135`: each reconnect registers every callback once more, so
  that each component is called N+1 times per update after N reconnects
  (metrics_dup).
- `WidgetEditConfigModal.jsx:100`: unlocking a dashboard before every widget has
  its data throws in the middle of unlocking; the page says it is locked and
  lets widgets be dragged (editing_drag).
- `queryParser.ts:617`: there is no follow set for a field's missing term, so
  that `a:OR` or `a::` makes the parser throw (query_throw).
- `StreamRulesStore.ts:59`: the update of a rule calls the listeners at once
  instead of when it is done, so that the page may keep the old rule after it
  said that it was updated (rule_update).
- `SessionsController.java:107`: after a session expired while a form was sent,
  signing in leads to the form's address, which often has no page
  (login_destination).

Not findings of a run, but of interest: spaces before a leading modifier are not
dumped (`DumpVisitor.ts:44` leaves out a modifier's prefix and suffix, which
LosslessDump takes into account); JournalState, JournalDetails and BufferUsage
(`JournalState.jsx:34`, `JournalDetails.jsx:52`, `BufferUsage.jsx:34`) note in
`hasError` that the connection is lost and never read it, so that the page goes on
saying how many messages "have been read from the journal in the last second";
a chart asked for twice before the first answer has come is drawn twice in its
container (`fieldcharts.js:185`), the upper one with the options of before;
a component that listens to all nodes is called with updates of other
components' subscriptions and shows a momentary zero; one that listens to a node
that has left stays on "loading"; saving a widget overwrites what others
changed since the dashboard was unlocked; a widget whose removal failed is not
refreshed any more.

The parser: `queryParser.ts:378` reports a sign followed by white space, against
`queryParserTests.js:480` (section 3). `queryParser.ts:319` `lookAhead()` consumes
a character whenever it meets a backslash, so that text around backslashes is
lost from the dump (`queryParserTests.js:237` has only the case of a trailing
one); LosslessDump is stated without them.

The handlers. Some say that something was done whatever became of it, or do not
say that it was not: `UsersController.java:187` puts an error and then a success
in the flash, `:198` and `:286` ignore the result, `InputsController.java:357`
prints its exceptions; these are named in SayDoneAnyway and FailSilently, which
the two properties leave out. A message is lost when its reader is led on from
the page it was meant for: `SavedSearchesController.delete` for users who may
not search, `InputsController` stop, start and restart for those who may not
read inputs. A message shown with a form that was refused (LDAP, export of
content packs, login) is shown once more on the next page. A failed login says
nothing when `isConnected` is stale. `disconnected_orig_uri`
(`RedirectAuthenticator.java:77`) is stored and never used.
`SearchController.java:227` overwrites `inputs` in its loop over nodes, so that
only the last node's inputs are described. `SavedSearchesStore.ts:138` says that
saved search 'undefined' was deleted. `LdapController.removeLdapSettings` has no
route.

## 6. What is proved

For all values of the constants that satisfy the assumptions of the modules
(MetricsAssumption, DashboardAssumption, PeriodicalsAssumption, ChartsAssumption,
ListPagesAssumption, HandlersAssumption and BoundsAssumption, which the runs
evaluate), by TLAPS:

**MetricsChannelProofs.** `TypeCorrect`; `NoListenerForgottenHolds`;
`NoStaleDataHolds`; `CompleteOrErrorHolds`; `SessionBeforeSubscriptionsHolds`;
`ChannelImplementsFeed`. The first three are close to inductive:
NoListenerForgotten needs that only who listens is registered
(`RegisteredListen`), NoStaleData needs that whoever shows values is registered,
since onclose reaches only callbacks (`ViewersAreRegistered`). It is a statement
about the components that can say that their values are not current, and so is
the part of the refinement that a lost connection takes. CompleteOrError needs
`JobComplete`: in a poll under way, what was asked is collected, or is of a node
still to come, or an error is noted, or the map changed.
SessionBeforeSubscriptions needs `SessionFirst`: while a server end has no
session, the first command that waits for it brings one. The refinement takes,
for each step, the step of the feed it is: with `OnlyAnswers` (a push holds
values nodes have) an update shows a subset of what a component wanted.

**DashboardEditingProofs.** `TypeCorrect`; `LockAgreementHolds` and
`NoDragWhileEditingHolds`, from one invariant, `DialogInv`: the agreement on the
lock, no dragging behind a dialog, and at most one dialog, because opening a
dialog freezes the grid, closing one unfreezes it, and would for the wrong
reason if another were open. `RemovedMeansGoneHolds`, with what a removal under
way knows (`RemovalInv`); `NoUnsavedTitleHolds`, with
`TitleInv`: what is under way or in an answer was held.

**PeriodicalsProofs.** `TypeCorrect`; `OnePulseHolds`, which is inductive with
the types; `QuietInBackgroundHolds`, from `FocusTracked`: the manager believes
in the foreground only if the window is there, or the user wants updates anyway,
or it never was visited; `NeverGoesBackHolds`, from `Orderly`: an answer under
way to a sequential poller is not older than what it shows. The latter needs
OnePulse, for a second request would let an older answer arrive last.

**FieldChartsProofs.** `TypeCorrect`; `ShownAsSavedHolds`, from `ShownInv`:
requests of a chart never dismissed are for its one container, and a container
that has its graph agrees with the lines and the saved options; and from
`SoleInv`: a second graph is drawn only if a request was sent while another was
under way, for sending it empties the container and only its answer fills it.
`NothingHiddenForEverHolds`, which with "what is not saved
has no stack" (`ReachInv`) is inductive: merging and deleting change which sets
are closed under the stacks, and a family is what the closed sets with its chart
have in common, so that each step is an argument about one closed set made from
another. `StackIsDrawnHolds`, from three invariants. `GraphsInv`: charts whose
first answer has come have a graph with their own series, and only these are
asked for again. `StacksInv`: a chart is in one stack at most, and if it stands
alone in it, or an answer may yet leave it alone there, its target's graph has
its series. `LiveInv`: a container that has its graph shows it.

**ListPagesProofs.** `TypeCorrect`; `LaunchedIsAssignedOrToldHolds`, which adds
to the property only which call will assign the output (`LaunchedInv`);
`ReadsItsWritesHolds`, from `FreshInv`: loads are numbered in the order of
requests, and one that is the last of its part, under way or shown, was not
served before what was confirmed to the page, because a confirmation loads all
parts again, after which no older load is the last of its part;
`AssignableIsTheRestHolds`, from `RestInv`: the list asked for is answered once,
and all outputs are asked for after it, with what it held; while it is awaited
nothing with its number is shown, and a load of all outputs whose number is that
of the list shown knows exactly that list.

**QueryInputProofs.** For every query, of any length over any characters
(CharactersAssumption: the end of the text is no character): `TokensTileAlways`,
`ErrorsInTheQuery` (the TypeOK of QueryText) and `AcceptsTheLanguageAlways`.
Lexer and parser are recursive, and TLA+ takes for a recursive function *some*
function that its definition describes; that there is one is what the first lemma
about each of them shows (`ScanUnfolds`, `AttemptsExist`, `TokensFromExists`,
`NotesExist`, `RuleExists`). They rest on `Recursion` in SequenceLemmas: a
function is described by its definition if it looks only at smaller arguments.
Positions of the lexer move on up to the end of the text; the rules of the parser
look at states with fewer tokens left (`ModifiedAgrees` to `ExpressionIs`), which
they do because what a rule returns has fewer tokens than it was given
(`ExpressionState`), wherever it recovered from what.

TokensTile is then an induction along the positions (`TiledOneMore`): each token
is one of seven kinds, and its rule ends after where it began, though a test
may have moved the position before. A token begins within the text, nothing in
the parser makes up a position, and `Later` carries that through every rule:
ErrorsInTheQuery. The accepted language is an induction over the tokens left.
`Sits` says which token a state of the parser is at. The condition on neighbours
is cut in pieces: a token is allowed to be followed by the next (`Local`), a term
of a field has no colon after it (`Single`). `Accepts` says of a rule that the
state after it is `Sane` (nothing but lone signs reported, nothing thrown) only
if all tokens it passed were followed by what they may be, and is sane if those
and all to come are; so
`TermEnds`, `ModifiedAccepts`, `OperatorAccepts`, `ExpressionAccepts` and
`ItemsLeave` follow the grammar rule by rule, and an error is never forgotten
(`Keeps`), though the parser goes on after it.

What is proved of `TextSpec`, where the text is replaced by any other, holds of
the search bar by `SearchBarEdits`, the refinement: whatever is typed or taken
is an edit. That needs that completions are text (QueryInputAssumption: the
names of fields, the operators and what is typed are made of Characters, a space
is one of them).

`DumpInOrderAlways`, `LosslessDumpAlways` and `CompletionKeepsQueryAlways` are
about the trees. Trees have no set of their own in TLA+; `Trees[h]` are those of
height h, and the visitors are functions on these by the same RuleExists, with
the height as the size. (`TreesAre`, `VisitorExists`, `DumpIs`, `SerializeIs`.)
The tree that a rule returns is followed through the parser as a `Piece`: from
the k-th token up to the m-th, dumping it gives tokens that are between these and
in order (`InOrder`); and unless an error is reported it gives all of them
(`Part`), no later term is met in it (`Apart`), and the last tree visited is a term
or field that ends where it ends (`Ending`). A modifier, an operator and
a list make a Piece of Pieces (`ModifierPiece` to `PiecesAfter`), the rules
return Pieces (`SideYields` to `ItemsYield`, an induction over the tokens
left), and the topmost tree gets the hidden tokens around it (`OuterIs`,
`ParseShape`). An error breaks the second half of each of these but never the
first: hence DumpInOrder holds of queries with errors too. That tokens which follow each
other are written as the slice of the query between them is TokensTile again
(`WrittenSlice`), and LosslessDump follows; the modifier's prefix, which is not
dumped, is where the slice begins later.

A completion is trimmed, and so is the query that CompletionKeepsQuery compares
it with, so the argument ends with spaces. A token is all spaces or begins with
something else (`TokenWhite`); of a query that does not trim to nothing, trimming
leaves what is between its first and its last such character (`TrimmedIs`). If
the query is one term, or nothing but spaces, nothing is kept (`LeafAlone`); if a
term or field is last, what is kept is the query up to it, but for spaces in
front (`SegmentBehind`, `KeptBefore`). Any other query whose last tree is a
missing one has an error, and the property says nothing of it.

**WebRequestsProofs.** For any table of handlers that satisfies
HandlersAssumption, not only those of this application: `TypeCorrect` (each
request is for a handler that exists and is at a step of it) and
`LoginLeadsBackHolds`, from `WayBack`: on the login page and in the requests that
lead to and from it, the destination is where the browser was sent away from.

`SuccessMeansDoneHolds`, `FailureIsToldHolds` and `MessagesArriveHolds` need two
more assumptions, which a reviewer of a controller can check by reading it alone.
MessagesAssumption: a message goes with a redirect to a page that shows it, or
that leaves one of its own and sends on to such a page (`Landing`); what a
handler notes before it goes on is followed by such a redirect; scripts, and the
pages that others redirect to, say nothing but with a redirect; and a file is
sent by a handler that says and changes nothing. ChangesAssumption: only handlers
that are clicked change anything, never those that others redirect to; and where
a call of theirs may fail, the way they take neither promises that it is done nor
lets a later way promise it, and admits that it is not. TLC evaluates both for
all handlers of both tables in every run of MCWebRequests. They speak of single
steps. That this is enough, whatever is between two steps -- servers that go and
come, a session that expires, a page that was redirected to and redirects again,
a login that leads back to a handler that has not run yet, a message that waits
in the cookie, a script that is redirected -- is what the theorems say. It also
means that a fault in a table is seen before a state is computed; the mutants of
these properties are faults of the machine.

`Honest` is the invariant. `Course`: where a request may be for, which is the
handler clicked, or one that others redirect to, or a public page after a detour.
`Mail`: the messages in the cookie, in the tab and of the handler that runs are
of this click or were shown before. `Undone`: while a change has yet to be made,
by the handler that runs or by the one a login leads back to, no success was told
and nothing was missed. `Unpromised`: once something was missed no success was
told, and who still runs promises none. `Carried`: what was said is in the cookie
of a request for a page that shows it, or ready to go there. `Admitted`: what was
missed was said, or seen, or the script is lost to a redirect. A step by one of
the ways of a handler is one lemma for each of these (`SteppedCourse` to
`SteppedAdmitted`), for whatever way; redirects without a word, the pages of the
interface itself and answers for want of a session are one lemma each
(`RedirectHonest`, `RenderHonest`, `TellHonest`), of which the actions are
instances.

Every theorem has the form `Spec => []Inv`, `Spec => [][A]_vars` or, for the
refinement, `Spec => FeedSpec`; the last
step is propositional temporal logic, the others are one lemma per invariant
with a step per action.

All invariants and all action properties of the runs are stated by theorems.
Only model-checked: the liveness properties, which TLAPS does not do (no rule for
fairness and ENABLED), and the handlers' tables, of which TLC evaluates the
assumptions that the theorems start from. Induction over data is possible with
sets for the predicates and functions for the operators that the theorems of the
library would take as parameters; that is what SequenceLemmas does.

## 7. What is not modelled

See the components of `PROJECT.json` with their reasons.

Left of the plan: how the resolution of histograms is chosen and their gaps
filled (`SearchController`, `SearchTools`), positions of widgets on a dashboard
and what it takes to create one in the page, the search bar's time ranges and
the two stores behind it. These compute values rather than keep state that
others change; of the search page's handlers and the dashboard's, WebRequests
has the calls.

Not modelled because nothing happens in it but display: the charts of widgets
and of the sources page, tables of messages, notifications, the wizards of
extractors, forms, templates, breadcrumbs, and the styles. Of authentication:
basic authentication, which makes a session of the cluster for every request,
and the local administrator, which no code reaches. Of what is modelled: which
ten completions are shown; the wording of errors; exceptions in the callbacks
of components that listen to metrics; several tabs that share a cookie, as
WebRequests has one request at a time; jQuery and React, but for the order in
which they call the code. Play, Shiro, SockJS, the REST client and the cluster
are outside this repository: a call answers with what the cluster holds, fails,
or succeeds and is reported as failed.
