---------------------------- MODULE FieldCharts -----------------------------
(***************************************************************************)
(* The field charts of a search page: FieldGraphsStore keeps them and      *)
(* which of them are stacked, in the page and in the browser's storage;    *)
(* fieldcharts.js loads, draws, changes and merges them.                   *)
(*                                                                         *)
(* A chart exists three times: as saved options, which put a container in  *)
(* the page; as a graph object, found by the chart's id whatever container *)
(* it was drawn in; and as what the container shows.  Answers that come    *)
(* late meet containers that are gone, or stacks made meanwhile.           *)
(***************************************************************************)
EXTENDS Naturals, SequencesExt

CONSTANTS
    Charts,     \* ids that generateId() may give
    Intervals,  \* what is fetched again when it changes: resolution, value
    Renderers,  \* what is only drawn again: type, interpolation
    MaxLoads,   \* bound: unanswered requests for one chart
    MaxActs     \* bound: what the user does

ASSUME ChartsAssumption == MaxLoads \in Nat /\ MaxActs \in Nat

Opts == [interval : Intervals, renderer : Renderers]
Requests == [opts : Opts, event : {"created", "updated"}, container : {"present", "detached"}]

VARIABLES
    (* FieldGraphsStore, with the same contents in localStorage *)
    saved,      \* keys of fieldGraphs: the charts in the page
    opts,       \* their options
    stacks,     \* stackedGraphs: target |-> charts merged into it
    rendered,   \* renderedGraphs: never shrinks while the page lives
    (* the containers in the page *)
    loaded,     \* those that have data-lines, and can be dragged and dropped on
    lines,      \* data-lines
    combined,   \* the menus for resolution and value are hidden
    canvas,     \* the series of the last graph drawn; {} while it is blank
    drawn,      \* the options they were drawn with
    leftovers,  \* the options of the graphs that stand above it
    (* the graph objects *)
    series,     \* fieldGraphs[id].series; {} if there is none
    attached,   \* those drawn in the chart's present container
    requests,   \* unanswered requests, per chart
    (* history, and the bound *)
    unused,     \* ids not given yet
    dismissed,  \* charts deleted by the user or for a failure
    lost,       \* charts whose target was drawn anew, alone
    overlapped, \* charts last asked for while an answer was still to come
    acts

store == <<saved, opts, stacks>>
containers == <<loaded, lines, combined, canvas, drawn, leftovers>>
graphs == <<series, attached>>
history == <<unused, dismissed, lost, overlapped>>
vars == <<store, rendered, containers, graphs, requests, history, acts>>

\* What is asked for, the event that will tell of the answer, and whether the
\* container it is for is still in the page.
Request(o, event) == [opts |-> o, event |-> event, container |-> "present"]

Hidden(c) == \E t \in Charts : c \in stacks[t]
Visible == {c \in saved : ~Hidden(c)}

\* A chart, the charts of its stack, those of their stacks, ... as far as they
\* are saved.
Family(c) ==
    {d \in Charts : \A S \in SUBSET Charts :
        (c \in S /\ \A t \in S \cap saved : stacks[t] \subseteq S) => d \in S}

UserActs == acts < MaxActs /\ acts' = acts + 1

-----------------------------------------------------------------------------
(* A page is loaded: every chart saved gets a container and is asked for. *)

FirstRequests == [c \in Charts |-> IF c \in saved THEN <<Request(opts[c], "created")>> ELSE <<>>]

Init ==
    /\ saved \in SUBSET Charts
    /\ \E o \in Opts : opts = [c \in Charts |-> o]
    /\ stacks = [c \in Charts |-> {}]
    /\ rendered = {} /\ loaded = {} /\ combined = {} /\ attached = {}
    /\ lines = opts /\ drawn = opts
    /\ canvas = [c \in Charts |-> {}] /\ leftovers = canvas
    /\ series = [c \in Charts |-> {}]
    /\ requests = FirstRequests
    /\ unused = Charts \ saved
    /\ dismissed = {} /\ lost = {} /\ overlapped = {}
    /\ acts = 0

Reload ==
    /\ UserActs
    /\ rendered' = {} /\ loaded' = {} /\ combined' = {} /\ attached' = {}
    /\ lines' = opts /\ drawn' = opts
    /\ canvas' = [c \in Charts |-> {}] /\ leftovers' = canvas'
    /\ series' = [c \in Charts |-> {}]
    /\ requests' = FirstRequests
    /\ lost' = {} /\ overlapped' = {}
    /\ UNCHANGED <<store, unused, dismissed>>

-----------------------------------------------------------------------------
(* FieldGraphsStore *)

\* newFieldGraph: saved, which mounts its container, which asks for its data.
NewFieldGraph(c, o) ==
    /\ UserActs
    /\ c \in unused
    /\ saved' = saved \cup {c}
    /\ opts' = [opts EXCEPT ![c] = o]
    /\ requests' = [requests EXCEPT ![c] = <<Request(o, "created")>>]
    /\ unused' = unused \ {c}
    /\ UNCHANGED <<stacks, rendered, containers, graphs, dismissed, lost, overlapped>>

\* A fault: the stack of a chart outlives it.
DeleteAlone(c) ==
    /\ saved' = saved \ {c}
    /\ UNCHANGED stacks

\* deleteGraph: with the charts merged into it, and those merged into them.
DeleteGraph(c) ==
    LET gone == IF c \in saved THEN Family(c) \cap saved ELSE {}
    IN  /\ saved' = saved \ gone
        /\ stacks' = [t \in Charts |-> IF t \in gone THEN {} ELSE stacks[t]]

\* Of what is deleted the containers go, and requests under way will be
\* answered to containers that are not in the page; the graph objects remain.
Detached(q) == [i \in DOMAIN q |-> [q[i] EXCEPT !.container = "detached"]]

Unmount(remaining) ==
    LET gone == saved \ saved'
    IN  /\ loaded' = loaded \ gone
        /\ combined' = combined \ gone
        /\ attached' = attached \ gone
        /\ canvas' = [c \in Charts |-> IF c \in gone THEN {} ELSE canvas[c]]
        /\ leftovers' = [c \in Charts |-> IF c \in gone THEN {} ELSE leftovers[c]]
        /\ requests' = [c \in Charts |->
                          IF c \in gone THEN Detached(remaining[c]) ELSE remaining[c]]
        /\ dismissed' = dismissed \cup gone

Dismiss(c) ==
    /\ UserActs
    /\ c \in Visible
    /\ DeleteGraph(c)
    /\ Unmount(requests)
    /\ UNCHANGED <<opts, rendered, lines, drawn, series, unused, lost, overlapped>>

\* updateStackedGraphs.  A stacked chart dropped on a stacked chart keeps its
\* stack; dropped on a chart that stands alone it hands its stack over.
UpdateStackedGraphs(t, d) ==
    stacks' = IF stacks[t] # {}
              THEN [stacks EXCEPT ![t] = @ \cup {d}]
              ELSE [stacks EXCEPT ![t] = stacks[d] \cup {d}, ![d] = {}]

-----------------------------------------------------------------------------
(* fieldcharts.js: the user *)

\* Type and interpolation: the graph found by the id is drawn again, the lines
\* are changed and saved.
ChangeType(c, r) ==
    /\ UserActs
    /\ c \in Visible \cap loaded
    /\ lines' = [lines EXCEPT ![c].renderer = r]
    /\ opts' = [opts EXCEPT ![c] = lines'[c]]
    /\ drawn' = IF c \in attached THEN [drawn EXCEPT ![c].renderer = r] ELSE drawn
    /\ UNCHANGED <<saved, stacks, rendered, loaded, combined, canvas, leftovers,
                   graphs, requests, history>>

\* "Delete a possibly already existing graph to manage updates."
DeleteGraphs(c) ==
    /\ canvas' = [canvas EXCEPT ![c] = {}]
    /\ leftovers' = [leftovers EXCEPT ![c] = {}]

\* Resolution and value: the container is emptied and the data asked for again;
\* the options are saved when it has come.
ChangeInterval(c, i) ==
    /\ UserActs
    /\ c \in (Visible \cap loaded) \ combined
    /\ Len(requests[c]) < MaxLoads
    /\ lines' = [lines EXCEPT ![c].interval = i]
    /\ requests' = [requests EXCEPT ![c] = Append(@, Request(lines'[c], "updated"))]
    /\ DeleteGraphs(c)
    /\ attached' = attached \ {c}
    /\ overlapped' = IF requests[c] # <<>> THEN overlapped \cup {c} ELSE overlapped \ {c}
    /\ UNCHANGED <<store, rendered, loaded, combined, drawn, series, unused,
                   dismissed, lost>>

\* drop: mergeCharts adds the series of the one to the graph of the other, and
\* tells the store.
Drop(t, d) ==
    /\ UserActs
    /\ t # d /\ {t, d} \subseteq Visible \cap loaded
    /\ series' = [series EXCEPT ![t] = @ \cup series[d]]
    /\ canvas' = IF t \in attached THEN [canvas EXCEPT ![t] = series'[t]] ELSE canvas
    /\ combined' = combined \cup {t}
    /\ UpdateStackedGraphs(t, d)
    /\ UNCHANGED <<saved, opts, rendered, loaded, lines, drawn, leftovers,
                   attached, requests, history>>

-----------------------------------------------------------------------------
(* fieldcharts.js: the answers *)

\* saveGraph of a chart that is not saved any more mounts a new container.
SaveGraph(c, o, remaining) ==
    /\ saved' = saved \cup {c}
    /\ opts' = [opts EXCEPT ![c] = o]
    /\ requests' = [requests EXCEPT ![c] =
                      IF c \in saved THEN remaining ELSE Append(remaining, Request(o, "created"))]

\* combineStackedGraphs: the charts of c's stack that are here, or the stacks c
\* belongs to; the charts that another one takes in are a chart's guests.
GuestsForTarget(c) == [t \in Charts |-> IF t = c THEN stacks[c] \cap rendered' ELSE {}]
GuestsForMember(c) ==
    [t \in Charts |-> IF t \in rendered' /\ c \in stacks[t] THEN {c} ELSE {}]
\* A fault: a chart that comes after the target of its stack is not merged.
CombineTargetOnly(c) == GuestsForTarget(c)
Combine(c) == IF stacks[c] # {} THEN GuestsForTarget(c) ELSE GuestsForMember(c)

NoGuests == [t \in Charts |-> {}]

\* The graph drawn from an answer goes below what the container shows by then;
\* from now on it is the one found by the chart's id.
Draw(c, r) ==
    IF r.container = "detached"
    THEN /\ attached' = attached \ {c}
         /\ UNCHANGED <<drawn, leftovers>>
    ELSE /\ attached' = attached \cup {c}
         /\ drawn' = [drawn EXCEPT ![c] = r.opts]
         /\ leftovers' = IF canvas[c] = {} THEN leftovers
                         ELSE [leftovers EXCEPT ![c] = @ \cup {drawn[c]}]

\* It has one series, the chart's own; then mergeCharts adds those of guests.
MergeGuests(c, guests) ==
    LET own == [series EXCEPT ![c] = {c}]
    IN  /\ series' = [t \in Charts |-> own[t] \cup UNION {own[m] : m \in guests[t]}]
        /\ canvas' = [t \in Charts |-> IF t \in attached' /\ (t = c \/ guests[t] # {})
                                       THEN series'[t] ELSE canvas[t]]
        /\ combined' = combined \cup {t \in saved' : guests[t] # {}}

\* Faults: the renderer is not written to data-lines; the lines of the
\* container are those of the last click.
LinesWithoutRenderer(c, r) == [lines EXCEPT ![c] = [interval |-> r.opts.interval]]
LinesOfClick(c, r) == IF c \in loaded THEN lines ELSE [lines EXCEPT ![c] = r.opts]
\* data-lines takes the options the data was asked for with.
LinesAfter(c, r) == IF r.container = "detached" THEN lines ELSE [lines EXCEPT ![c] = r.opts]

AnswerOk(c, i) ==
    LET r == requests[c][i]
    IN  /\ SaveGraph(c, r.opts, RemoveAt(requests[c], i))
        /\ lines' = LinesAfter(c, r)
        /\ loaded' = IF r.container = "detached" THEN loaded ELSE loaded \cup {c}
        /\ rendered' = IF r.event = "created" THEN rendered \cup {c} ELSE rendered
        /\ Draw(c, r)
        /\ MergeGuests(c, IF r.event = "created" THEN Combine(c) ELSE NoGuests)
        /\ lost' = IF r.event = "created" THEN lost ELSE lost \cup stacks[c]
        /\ UNCHANGED <<stacks, unused, dismissed, overlapped, acts>>

\* 400: the field is not numeric; the chart is deleted like by its user.
AnswerNotNumeric(c, i) ==
    /\ DeleteGraph(c)
    /\ Unmount([requests EXCEPT ![c] = RemoveAt(@, i)])
    /\ UNCHANGED <<opts, rendered, lines, drawn, series, unused, lost, overlapped, acts>>

\* Any other error: an alert in the container.
AnswerFails(c, i) ==
    /\ requests' = [requests EXCEPT ![c] = RemoveAt(@, i)]
    /\ UNCHANGED <<store, rendered, containers, graphs, history, acts>>

-----------------------------------------------------------------------------
Next ==
    \/ Reload
    \/ \E c \in Charts :
         \/ \E o \in Opts : NewFieldGraph(c, o)
         \/ Dismiss(c)
         \/ \E r \in Renderers : ChangeType(c, r)
         \/ \E i \in Intervals : ChangeInterval(c, i)
         \/ \E d \in Charts : Drop(c, d)
         \/ \E i \in DOMAIN requests[c] : AnswerOk(c, i) \/ AnswerNotNumeric(c, i) \/ AnswerFails(c, i)

Spec == Init /\ [][Next]_vars

-----------------------------------------------------------------------------
(* Properties *)

TypeOK ==
    /\ saved \in SUBSET Charts /\ opts \in [Charts -> Opts]
    /\ stacks \in [Charts -> SUBSET Charts]
    /\ rendered \in SUBSET Charts
    /\ loaded \in SUBSET Charts /\ lines \in [Charts -> Opts]
    /\ combined \in SUBSET Charts
    /\ canvas \in [Charts -> SUBSET Charts] /\ drawn \in [Charts -> Opts]
    /\ leftovers \in [Charts -> SUBSET Opts]
    /\ series \in [Charts -> SUBSET Charts] /\ attached \in SUBSET Charts
    /\ requests \in [Charts -> Seq(Requests)]
    /\ unused \in SUBSET Charts /\ dismissed \in SUBSET Charts /\ lost \in SUBSET Charts
    /\ overlapped \in SUBSET Charts
    /\ acts \in 0..MaxActs

\* A chart in a stack is hidden, and nothing but its stack shows it or gives
\* access to its menu: every saved chart stands in the page, or is in the stack,
\* or in a stack in the stack, of one that does.  (FieldGraphs.jsx hides what
\* any stack holds; updateStackedGraphs and deleteGraph keep the stacks.)
NothingHiddenForEver ==
    \A c \in saved : \E root \in Visible : c \in Family(root)

\* What a chart shows is what is saved of it, goes with it to a dashboard and
\* comes back with the page, whatever was clicked before or after the data came:
\* the last graph in its container is, and it is the only one unless the chart
\* was asked for again before the first answer had come.
\* (A chart that came back after it had been dismissed is exempt: answers to
\* its former container save their own options.)
ShownAsSaved ==
    \A c \in saved \ dismissed :
        canvas[c] # {} => /\ drawn[c] = opts[c] /\ lines[c] = opts[c]
                          /\ c \in overlapped \/ leftovers[c] = {}

\* The charts of a stack are drawn with its target, in whatever order they and
\* the target were loaded: all that have their data and no stack of their own,
\* unless the target was drawn anew, alone, when they had been merged into it.
StackIsDrawn ==
    \A t \in Visible \ dismissed :
        canvas[t] # {} =>
            \A c \in (stacks[t] \cap rendered) \ lost : stacks[c] = {} => c \in canvas[t]
==================================================================
