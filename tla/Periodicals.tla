---------------------------- MODULE Periodicals -----------------------------
(***************************************************************************)
(* What a page fetches again and again: counters and badges                *)
(* (periodicals.js), the progress of system jobs (main.js), the data and   *)
(* the value of a widget (Widget.jsx), and the manager that holds them     *)
(* back while the window is in the background (updateManager.js).          *)
(*                                                                         *)
(* A poller either waits for its answer before it sets its timer again     *)
(* (Sequential) or sets it when it sends the request.                      *)
(***************************************************************************)
EXTENDS Naturals, SequencesExt

CONSTANTS
    Pollers,
    Sequential,   \* updateTotalEvents, updateNotificationCount, updateSystemJobProgress
    Restless,     \* updateSystemJobProgress: goes on in the background
    WidgetLoops,  \* _loadData and _loadValue: end when the widget is deleted
    DataLoops,    \* _loadData alone: notices that it is
    Marking,      \* updateTotalEvents, _loadValue: show that a request failed
    MaxVersion,   \* bound: changes of what is fetched
    MaxUnanswered \* bound: unanswered requests of each poller

ASSUME PeriodicalsAssumption ==
    /\ Sequential \subseteq Pollers /\ Restless \subseteq Pollers
    /\ WidgetLoops \subseteq Pollers \ Sequential
    /\ DataLoops \subseteq WidgetLoops /\ Marking \subseteq Pollers
    /\ MaxVersion \in Nat /\ MaxUnanswered \in [Pollers -> Nat \ {0}]

VARIABLES
    (* the window, and updateManager *)
    foreground, visited, focussed, updateUnfocussed,
    (* the pollers *)
    timers,    \* how many timers of a poller run
    requests,  \* its requests under way
    shown,     \* the version it shows
    marked,    \* it shows an error
    deleted,   \* the widget is known to be deleted
    (* the server *)
    version, exists

manager == <<foreground, visited, focussed, updateUnfocussed>>
server == <<version, exists>>
vars == <<manager, timers, requests, shown, marked, deleted, server>>

Sent == [status |-> "sent"]
Failed == [status |-> "failed"]
Gone == [status |-> "gone"]
Answer(v) == [status |-> "ok", version |-> v]

\* A page may be opened in a background tab, where nobody tells the manager.
\* Every poller runs once at the start: as if by a timer.
Init ==
    /\ foreground \in BOOLEAN /\ visited = foreground
    /\ updateUnfocussed \in BOOLEAN
    /\ focussed = TRUE
    /\ timers = [p \in Pollers |-> 1]
    /\ requests = [p \in Pollers |-> <<>>]
    /\ shown = [p \in Pollers |-> 0]
    /\ marked = [p \in Pollers |-> FALSE]
    /\ deleted = FALSE
    /\ version = 0 /\ exists = TRUE

-----------------------------------------------------------------------------
(* updateManager *)

\* setFocus.  (FocusOnly is a fault: what the user chose does not count.)
FocusOnly(focus) == focus
Focussed(focus) == updateUnfocussed \/ focus

Rest == <<timers, requests, shown, marked, deleted, server>>

Blur ==
    /\ foreground
    /\ foreground' = FALSE
    /\ focussed' = Focussed(FALSE)
    /\ UNCHANGED <<visited, updateUnfocussed, Rest>>

Focus ==
    /\ ~foreground
    /\ foreground' = TRUE /\ visited' = TRUE
    /\ focussed' = Focussed(TRUE)
    /\ UNCHANGED <<updateUnfocussed, Rest>>

\* updateInBackground, updateInFocus: setUpdateUnfocussedMode calls setFocus
\* with what the last call of it made of the focus.
SetUpdateUnfocussedMode ==
    /\ foreground
    /\ updateUnfocussed' = ~updateUnfocussed
    /\ focussed' = (updateUnfocussed' \/ focussed)
    /\ UNCHANGED <<foreground, visited, Rest>>

-----------------------------------------------------------------------------
(* The pollers *)

\* assertUpdateEnabled: a poller that is held back tries again a second later.
HeldBack(p) == ~focussed /\ p \notin Restless

Ended(p) == deleted /\ p \in WidgetLoops

\* A fault: a poller that is held back does not try again.
FireOnce(p) ==
    /\ timers[p] > 0
    /\ Len(requests[p]) < MaxUnanswered[p]
    /\ requests' = IF HeldBack(p) \/ Ended(p) THEN requests
                   ELSE [requests EXCEPT ![p] = Append(@, Sent)]
    /\ timers' = [timers EXCEPT ![p] =
                    IF HeldBack(p) \/ Ended(p) \/ p \in Sequential THEN @ - 1 ELSE @]
    /\ UNCHANGED <<manager, shown, marked, deleted, server>>

\* A fault: nothing is held back.
FireAlways(p) ==
    /\ timers[p] > 0
    /\ Len(requests[p]) < MaxUnanswered[p]
    /\ requests' = IF Ended(p) THEN requests ELSE [requests EXCEPT ![p] = Append(@, Sent)]
    /\ timers' = [timers EXCEPT ![p] = IF Ended(p) \/ p \in Sequential THEN @ - 1 ELSE @]
    /\ UNCHANGED <<manager, shown, marked, deleted, server>>

\* The timer fires.  (While the poller is held back, to no effect.)
Fire(p) ==
    /\ timers[p] > 0 /\ ~HeldBack(p)
    /\ Len(requests[p]) < MaxUnanswered[p]
    /\ requests' = IF Ended(p) THEN requests ELSE [requests EXCEPT ![p] = Append(@, Sent)]
    /\ timers' = [timers EXCEPT ![p] = IF Ended(p) \/ p \in Sequential THEN @ - 1 ELSE @]
    /\ UNCHANGED <<manager, shown, marked, deleted, server>>

\* The server answers with what it holds, or says that the widget is gone.
Respond(p, answer) ==
    \E i \in DOMAIN requests[p] :
        /\ requests[p][i] = Sent
        /\ requests' = [requests EXCEPT ![p] = [requests[p] EXCEPT ![i] = answer]]
        /\ UNCHANGED <<manager, timers, shown, marked, deleted, server>>

\* (Unnoticed is a fault: nobody tells a widget that is gone from an error.)
Unnoticed(p) == IF p \notin WidgetLoops \/ exists THEN Answer(version) ELSE Failed
Truth(p) == CASE p \notin WidgetLoops \/ exists -> Answer(version)
              [] p \in WidgetLoops /\ ~exists   -> IF p \in DataLoops THEN Gone ELSE Failed
Succeed(p) == Respond(p, Truth(p))
Fail(p) == Respond(p, Failed)

\* complete: whatever the answer was.
TimersAfter(p, answer) ==
    IF p \in Sequential THEN [timers EXCEPT ![p] = @ + 1] ELSE timers

\* (Faults: one more is shown than was fetched; an error resets what is shown.)
ShownAhead(p, answer) ==
    IF answer.status = "ok" THEN [shown EXCEPT ![p] = answer.version + 1] ELSE shown
ShownReset(p, answer) ==
    [shown EXCEPT ![p] = IF answer.status = "ok" THEN answer.version ELSE 0]
ShownAfter(p, answer) ==
    IF answer.status = "ok" THEN [shown EXCEPT ![p] = answer.version] ELSE shown

\* Answers arrive in any order.
Receive(p) ==
    \E i \in DOMAIN requests[p] :
        LET answer == requests[p][i] IN
        /\ answer # Sent
        /\ requests' = [requests EXCEPT ![p] = RemoveAt(requests[p], i)]
        /\ timers' = TimersAfter(p, answer)
        /\ shown' = ShownAfter(p, answer)
        /\ marked' = [marked EXCEPT ![p] = p \in Marking /\ answer.status # "ok"]
        /\ deleted' = (deleted \/ answer = Gone)
        /\ UNCHANGED <<manager, server>>

-----------------------------------------------------------------------------
(* The server, and the user who removes the widget. *)

Change ==
    /\ version < MaxVersion
    /\ version' = version + 1
    /\ UNCHANGED <<manager, timers, requests, shown, marked, deleted, exists>>

Delete ==
    /\ exists
    /\ exists' = FALSE
    /\ deleted' \in {deleted, TRUE}
    /\ UNCHANGED <<manager, timers, requests, shown, marked, version>>

Next ==
    \/ Blur \/ Focus \/ SetUpdateUnfocussedMode
    \/ Change \/ Delete
    \/ \E p \in Pollers : Fire(p) \/ Succeed(p) \/ Fail(p) \/ Receive(p)

Spec == Init /\ [][Next]_vars

(* Timers fire, requests end, and are not answered by errors for ever. *)
Fairness ==
    \A p \in Pollers :
        /\ WF_vars(Fire(p)) /\ WF_vars(Receive(p))
        /\ WF_vars(Succeed(p) \/ Fail(p)) /\ SF_vars(Succeed(p))

FairSpec == Spec /\ Fairness

-----------------------------------------------------------------------------
(* Properties *)

Requests == {Sent, Failed, Gone} \cup {Answer(v) : v \in 0 .. MaxVersion}

TypeOK ==
    /\ {foreground, visited, focussed, updateUnfocussed, deleted, exists} \subseteq BOOLEAN
    /\ timers \in [Pollers -> Nat]
    /\ requests \in [Pollers -> Seq(Requests)]
    /\ shown \in [Pollers -> 0 .. MaxVersion]
    /\ marked \in [Pollers -> BOOLEAN]
    /\ version \in 0 .. MaxVersion

\* No failure, no change of focus and no overlap ever leaves a poller without
\* its timer, or with two: a sequential one has a timer or a request, any other
\* has a timer, unless its widget was deleted.
OnePulse ==
    \A p \in Pollers :
        IF p \in Sequential THEN timers[p] + Len(requests[p]) = 1
        ELSE timers[p] = 1 \/ (Ended(p) /\ timers[p] = 0)

\* "Graphs will be updated only when the browser is in the foreground": in the
\* background a poller sends no request, unless the user wants it to, or the
\* window never was in the foreground.
QuietInBackground ==
    [][\A p \in Pollers \ Restless :
         Len(requests'[p]) > Len(requests[p]) => foreground \/ updateUnfocussed \/ ~visited]_vars

\* What a sequential poller shows never goes back to an older version.
NeverGoesBack == [][\A p \in Sequential : shown'[p] >= shown[p]]_vars

\* Every poller comes to show what the server holds, in whatever order and
\* with whatever errors its requests were answered, and no error sticks, if
\* the window is not left in the background.
EventuallyCurrent ==
    (<>[](foreground \/ updateUnfocussed)) =>
        \A p \in Pollers :
            LET over == Ended(p) \/ (p \in WidgetLoops /\ ~exists) IN
            <>[](over \/ shown[p] = version) /\ []<>(over \/ ~marked[p])

\* A deleted widget stops asking for its data and its value.
DeletedStops ==
    (<>[](foreground \/ updateUnfocussed)) =>
        \A p \in WidgetLoops : <>[](~exists => timers[p] = 0 /\ requests[p] = <<>>)
=============================================================================
