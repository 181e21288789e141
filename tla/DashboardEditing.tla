-------------------------- MODULE DashboardEditing --------------------------
(***************************************************************************)
(* A dashboard open in a browser: its widgets refresh themselves from the  *)
(* server, and the user unlocks the dashboard, edits widgets in a dialog   *)
(* and removes them, while other users change the same dashboard.          *)
(*                                                                         *)
(* A widget's editor is mounted when the dashboard is unlocked, and takes  *)
(* its fields from the widget at that moment: the title by value, the      *)
(* configuration by reference.  While the two share the object ("aliased") *)
(* what is typed into the editor's configuration shows in the widget.      *)
(***************************************************************************)
EXTENDS Naturals, SequencesExt

CONSTANTS
    Widgets,
    Titles,    \* the fields an editor copies
    Configs,   \* the fields it shares
    MaxLoads,  \* bound: unanswered loads of one widget
    MaxEdits   \* bound: what users do to the dashboard

ASSUME DashboardAssumption == MaxLoads \in Nat /\ MaxEdits \in Nat

Data == [title : Titles, config : Configs]
Gone == [status |-> "gone"]
NotLoaded == [status |-> "unloaded"]
Unmounted == [status |-> "unmounted"]
Editor == [title : Titles, config : Configs, open : BOOLEAN]

VARIABLES
    store,         \* the server's widgets
    (* the page *)
    grid,          \* the widgets in the page
    toggleLocked,  \* data('locked') of the lock button
    draggable,     \* the grid lets widgets be moved
    resized,       \* the timer that rebuilds the grid is running
    crashed,       \* an exception left the page half unlocked
    (* each Widget and its WidgetEditConfigModal *)
    shown, deleted, locked, editor, aliased,
    (* requests under way *)
    loads, puts, removal,
    (* history, and the bound *)
    held,          \* what the server ever held or was asked to hold
    edits

page == <<grid, toggleLocked, draggable, resized, crashed>>
widget == <<shown, deleted, locked, editor, aliased>>
requests == <<loads, puts, removal>>
vars == <<store, page, widget, requests, held, edits>>

-----------------------------------------------------------------------------
(* The page as the server renders it. *)

FreshPage ==
    /\ grid' = {w \in Widgets : store[w] # Gone}
    /\ toggleLocked' = TRUE /\ draggable' = FALSE /\ resized' = FALSE /\ crashed' = FALSE
    /\ shown' = [w \in Widgets |-> NotLoaded]
    /\ deleted' = [w \in Widgets |-> FALSE]
    /\ locked' = [w \in Widgets |-> TRUE]
    /\ editor' = [w \in Widgets |-> Unmounted]
    /\ aliased' = [w \in Widgets |-> FALSE]
    /\ loads' = [w \in Widgets |-> <<>>]
    /\ removal' = [w \in Widgets |-> "none"]

Init ==
    /\ store \in [Widgets -> Data]
    /\ grid = Widgets
    /\ toggleLocked = TRUE /\ draggable = FALSE /\ resized = FALSE /\ crashed = FALSE
    /\ shown = [w \in Widgets |-> NotLoaded]
    /\ deleted = [w \in Widgets |-> FALSE]
    /\ locked = [w \in Widgets |-> TRUE]
    /\ editor = [w \in Widgets |-> Unmounted]
    /\ aliased = [w \in Widgets |-> FALSE]
    /\ loads = [w \in Widgets |-> <<>>]
    /\ puts = [w \in Widgets |-> <<>>]
    /\ removal = [w \in Widgets |-> "none"]
    /\ held = [w \in Widgets |-> {store[w]}]
    /\ edits = 0

\* Whoever does something, here or elsewhere, does so a bounded number of times.
Acts == edits < MaxEdits /\ edits' = edits + 1

\* The user of this page cannot on a page that crashed, and reaches nothing
\* behind an open dialog: it lives in the body of the page, and survives even
\* the removal of its widget from the grid.
UserActs == ~crashed /\ Acts

Editing(w) == editor[w] # Unmounted /\ editor[w].open
DialogOpen == \E w \in Widgets : Editing(w)

-----------------------------------------------------------------------------
(* Refreshing *)

\* The refresh timer of a widget, every thirty seconds, whether or not the
\* last load was answered; it stops for good when the widget is deleted.
LoadData(w) ==
    /\ ~crashed /\ w \in grid /\ ~deleted[w]
    /\ Len(loads[w]) < MaxLoads
    /\ loads' = [loads EXCEPT ![w] = Append(@, [status |-> "sent"])]
    /\ UNCHANGED <<store, page, widget, puts, removal, held, edits>>

\* DashboardsApiController.widget: the stored widget, or 404, or an error.
Answers(w) == {IF store[w] = Gone THEN Gone ELSE [status |-> "ok", data |-> store[w]]}

ServerAnswers(w, answer) ==
    \E i \in DOMAIN loads[w] :
        /\ loads[w][i].status = "sent"
        /\ loads' = [loads EXCEPT ![w] = [loads[w] EXCEPT ![i] = answer]]
        /\ UNCHANGED <<store, page, widget, puts, removal, held, edits>>

ServerAnswersLoad(w) == \E answer \in Answers(w) : ServerAnswers(w, answer)
ServerFailsLoad(w) == ServerAnswers(w, [status |-> "failed"])

\* Faults: the answer is not deserialized; nothing is refreshed while unlocked.
ReceiveRaw(w, answer) ==
    /\ shown' = IF answer.status = "ok" THEN [shown EXCEPT ![w] = answer] ELSE shown
    /\ aliased' = IF answer.status = "ok" THEN [aliased EXCEPT ![w] = FALSE] ELSE aliased
    /\ deleted' = [deleted EXCEPT ![w] = @ \/ answer = Gone]
ReceiveWhenLocked(w, answer) ==
    /\ shown' = IF answer.status = "ok" /\ locked[w]
                THEN [shown EXCEPT ![w] = answer.data] ELSE shown
    /\ deleted' = [deleted EXCEPT ![w] = @ \/ answer = Gone]
    /\ UNCHANGED aliased

\* The answers reach the widget in any order.  The deserialized widget has a
\* configuration object of its own; only a 404 marks the widget as deleted.
Receive(w, answer) ==
    /\ shown' = IF answer.status = "ok" THEN [shown EXCEPT ![w] = answer.data] ELSE shown
    /\ aliased' = IF answer.status = "ok" THEN [aliased EXCEPT ![w] = FALSE] ELSE aliased
    /\ deleted' = [deleted EXCEPT ![w] = @ \/ answer = Gone]

LoadDone(w) ==
    \E i \in DOMAIN loads[w] :
        /\ ~crashed
        /\ loads[w][i].status # "sent"
        /\ Receive(w, loads[w][i])
        /\ loads' = [loads EXCEPT ![w] = RemoveAt(@, i)]
        /\ UNCHANGED <<store, page, locked, editor, puts, removal, held, edits>>

-----------------------------------------------------------------------------
(* Locking *)

\* Rendering an editor of a widget whose data has not arrived throws: it has
\* no time range type.
Unready == {w \in grid : locked[w] /\ shown[w] = NotLoaded}

Mounted(w) == [title |-> shown[w].title, config |-> shown[w].config, open |-> FALSE]

\* unlockDashboard tells the widgets one by one; each renders its editor in
\* place of the read-only dialog.  The exception of one that is not ready ends
\* the loop, and the button keeps its state.
Unlock ==
    /\ UserActs /\ ~DialogOpen
    /\ draggable' = TRUE
    /\ \E told \in SUBSET grid :
         /\ IF Unready = {} THEN told = grid ELSE told \cap Unready = {}
         /\ locked' = [w \in Widgets |-> locked[w] /\ w \notin told]
         /\ editor' = [w \in Widgets |->
                         IF w \in told /\ locked[w] THEN Mounted(w) ELSE editor[w]]
         /\ aliased' = [w \in Widgets |-> aliased[w] \/ (w \in told /\ locked[w])]
    /\ crashed' = (Unready # {})
    /\ toggleLocked' = IF Unready = {} THEN FALSE ELSE toggleLocked
    /\ UNCHANGED <<store, grid, resized, shown, deleted, requests, held>>

\* A fault: only the grid and the button are locked.
LockGrid ==
    /\ toggleLocked' = TRUE
    /\ draggable' = FALSE
    /\ UNCHANGED <<locked, editor, aliased>>

\* lockDashboard: every widget in the page drops its editor, open or not.
LockAll ==
    /\ toggleLocked' = TRUE
    /\ draggable' = FALSE
    /\ locked' = [w \in Widgets |-> locked[w] \/ w \in grid]
    /\ editor' = [w \in Widgets |-> IF w \in grid THEN Unmounted ELSE editor[w]]
    /\ aliased' = [w \in Widgets |-> aliased[w] /\ w \notin grid]

Lock ==
    /\ UserActs /\ ~DialogOpen
    /\ ~toggleLocked
    /\ LockAll
    /\ UNCHANGED <<store, grid, resized, crashed, shown, deleted, requests, held>>

\* Resizing the window: a timer, which further resizing does not restart, then
\* reloadDashboard locks the dashboard and builds a new, disabled grid.
Resize ==
    /\ UserActs
    /\ ~resized
    /\ resized' = TRUE
    /\ UNCHANGED <<store, grid, toggleLocked, draggable, crashed, widget, requests, held>>

ReloadDashboard ==
    /\ ~crashed /\ resized
    /\ resized' = FALSE
    /\ LockAll
    /\ UNCHANGED <<store, grid, crashed, shown, deleted, requests, held, edits>>

-----------------------------------------------------------------------------
(* Editing *)

\* A fault: the dialog does not freeze the grid.
OpenOverGrid(w) ==
    /\ UserActs /\ ~DialogOpen
    /\ w \in grid /\ ~locked[w]
    /\ editor' = [editor EXCEPT ![w].open = TRUE]
    /\ UNCHANGED <<store, page, shown, deleted, locked, aliased, requests, held>>

\* _showEditConfig: the grid is frozen so that the widget behind the dialog
\* cannot be moved.
OpenEditor(w) ==
    /\ UserActs /\ ~DialogOpen
    /\ w \in grid /\ ~locked[w]
    /\ editor' = [editor EXCEPT ![w].open = TRUE]
    /\ draggable' = FALSE
    /\ UNCHANGED <<store, grid, toggleLocked, resized, crashed, shown, deleted,
                   locked, aliased, requests, held>>

\* A fault: the dialog edits the widget itself.
TypeIntoWidget(w, t) ==
    /\ UserActs /\ Editing(w)
    /\ editor' = [editor EXCEPT ![w].title = t]
    /\ shown' = [shown EXCEPT ![w].title = t]
    /\ UNCHANGED <<store, page, deleted, locked, aliased, requests, held>>

TypeTitle(w, t) ==
    /\ UserActs /\ Editing(w)
    /\ editor' = [editor EXCEPT ![w].title = t]
    /\ UNCHANGED <<store, page, shown, deleted, locked, aliased, requests, held>>

\* _onConfigurationChange writes into the object it got from the widget.
TypeConfig(w, c) ==
    /\ UserActs /\ Editing(w)
    /\ editor' = [editor EXCEPT ![w].config = c]
    /\ shown' = IF aliased[w] THEN [shown EXCEPT ![w].config = c] ELSE shown
    /\ UNCHANGED <<store, page, deleted, locked, aliased, requests, held>>

\* The dialog closes, and onModalHidden unfreezes the grid.  What was typed
\* stays in the editor as long as it is mounted.
Close(w) ==
    /\ editor' = [editor EXCEPT ![w].open = FALSE]
    /\ draggable' = TRUE

\* Cancel; or "Update" while a date does not parse, which only closes.
Cancel(w) ==
    /\ ~crashed /\ Editing(w)
    /\ Close(w)
    /\ UNCHANGED <<store, grid, toggleLocked, resized, crashed, shown, deleted,
                   locked, aliased, requests, held, edits>>

Edited(w) == [title |-> editor[w].title, config |-> editor[w].config]

\* The widget shows what is saved at once, whatever becomes of the request,
\* and shares its configuration with the editor again.
Save(w) ==
    /\ ~crashed /\ Editing(w)
    /\ Close(w)
    /\ puts' = [puts EXCEPT ![w] = Append(@, Edited(w))]
    /\ held' = [held EXCEPT ![w] = @ \cup {Edited(w)}]
    /\ shown' = [shown EXCEPT ![w] = Edited(w)]
    /\ aliased' = [aliased EXCEPT ![w] = TRUE]
    /\ UNCHANGED <<store, grid, toggleLocked, resized, crashed, deleted, locked,
                   loads, removal, edits>>

\* DashboardsApiController.updateWidget: it fails, or stores all fields of the
\* request, or does so and fails to say it did.  Requests overtake each other.
PutArrives(w) ==
    \E i \in DOMAIN puts[w] :
        /\ puts' = [puts EXCEPT ![w] = RemoveAt(@, i)]
        /\ \/ store' = store
           \/ /\ store[w] # Gone
              /\ store' = [store EXCEPT ![w] = puts[w][i]]
        /\ UNCHANGED <<page, widget, loads, removal, held, edits>>

-----------------------------------------------------------------------------
(* Removing *)

\* The widget stops refreshing itself before the server is asked.  Bound: one
\* request per widget at a time.
DeleteWidget(w) ==
    /\ UserActs /\ ~DialogOpen
    /\ w \in grid /\ ~locked[w] /\ removal[w] = "none"
    /\ deleted' = [deleted EXCEPT ![w] = TRUE]
    /\ removal' = [removal EXCEPT ![w] = "sent"]
    /\ UNCHANGED <<store, page, shown, locked, editor, aliased, loads, puts, held>>

\* DashboardsApiController.removeWidget; the removal may happen and the answer
\* be an error nevertheless.
ServerRemoves(w) ==
    /\ removal[w] = "sent"
    /\ \/ /\ store[w] # Gone
          /\ store' = [store EXCEPT ![w] = Gone]
          /\ removal' \in {[removal EXCEPT ![w] = a] : a \in {"removed", "error"}}
       \/ /\ store' = store
          /\ removal' = [removal EXCEPT ![w] = "error"]
    /\ UNCHANGED <<page, widget, loads, puts, held, edits>>

\* Only an answer without an error takes the widget from the grid.
\* (OffTheGrid is a fault: every answer does.)
OffTheGrid(w) == grid \ {w}
GridAfter(w) == IF removal[w] = "removed" THEN grid \ {w} ELSE grid

RemovalDone(w) ==
    /\ removal[w] \in {"removed", "error"}
    /\ grid' = GridAfter(w)
    /\ removal' = [removal EXCEPT ![w] = "none"]
    /\ UNCHANGED <<store, toggleLocked, draggable, resized, crashed, widget, loads,
                   puts, held, edits>>

-----------------------------------------------------------------------------
(* Everybody else, and a reload of the page. *)

OtherEdits(w, d) ==
    /\ Acts
    /\ store[w] # Gone
    /\ store' = [store EXCEPT ![w] = d]
    /\ held' = [held EXCEPT ![w] = @ \cup {d}]
    /\ UNCHANGED <<page, widget, requests>>

OtherDeletes(w) ==
    /\ Acts
    /\ store[w] # Gone
    /\ store' = [store EXCEPT ![w] = Gone]
    /\ UNCHANGED <<page, widget, requests, held>>

OpenPage == Acts /\ FreshPage /\ UNCHANGED <<store, puts, held>>

-----------------------------------------------------------------------------
Next ==
    \/ Unlock \/ Lock \/ Resize \/ ReloadDashboard \/ OpenPage
    \/ \E w \in Widgets :
         \/ LoadData(w) \/ ServerAnswersLoad(w) \/ ServerFailsLoad(w) \/ LoadDone(w)
         \/ OpenEditor(w) \/ Cancel(w) \/ Save(w) \/ PutArrives(w)
         \/ \E t \in Titles : TypeTitle(w, t)
         \/ \E c \in Configs : TypeConfig(w, c)
         \/ DeleteWidget(w) \/ ServerRemoves(w) \/ RemovalDone(w)
         \/ OtherDeletes(w) \/ \E d \in Data : OtherEdits(w, d)

Spec == Init /\ [][Next]_vars

(* The timers fire, requests are answered, and answers are delivered; a load
   that is repeated for ever succeeds now and then.  No user has to do anything. *)
Fairness ==
    /\ WF_vars(ReloadDashboard)
    /\ \A w \in Widgets :
         /\ WF_vars(LoadData(w)) /\ WF_vars(LoadDone(w))
         /\ WF_vars(ServerAnswersLoad(w) \/ ServerFailsLoad(w))
         /\ SF_vars(ServerAnswersLoad(w))
         /\ WF_vars(PutArrives(w)) /\ WF_vars(ServerRemoves(w)) /\ WF_vars(RemovalDone(w))

FairSpec == Spec /\ Fairness

-----------------------------------------------------------------------------
(* Properties *)

Loads == {[status |-> "sent"], [status |-> "failed"], Gone}
             \cup {[status |-> "ok", data |-> d] : d \in Data}

TypeOK ==
    /\ store \in [Widgets -> Data \cup {Gone}]
    /\ grid \in SUBSET Widgets
    /\ {toggleLocked, draggable, resized, crashed} \subseteq BOOLEAN
    /\ shown \in [Widgets -> Data \cup {NotLoaded}]
    /\ deleted \in [Widgets -> BOOLEAN]
    /\ locked \in [Widgets -> BOOLEAN]
    /\ editor \in [Widgets -> Editor \cup {Unmounted}]
    /\ aliased \in [Widgets -> BOOLEAN]
    /\ loads \in [Widgets -> Seq(Loads)]
    /\ puts \in [Widgets -> Seq(Data)]
    /\ removal \in [Widgets -> {"none", "sent", "removed", "error"}]
    /\ held \in [Widgets -> SUBSET Data]
    /\ edits \in 0 .. MaxEdits

\* The button, the widgets and their editors agree on whether the dashboard is
\* locked, through unlocking, locking and the rebuilding of the grid.
LockAgreement ==
    ~crashed => \A w \in grid : /\ locked[w] = toggleLocked
                                /\ editor[w] = Unmounted <=> locked[w]

\* "Ugly workaround to avoid being able to move a widget when the modal is
\* shown": while a dialog is open, nothing unfreezes the grid behind it.
NoDragWhileEditing == DialogOpen => ~draggable

\* A widget only leaves the page when it has left the dashboard: no removal
\* that failed takes it away.
RemovedMeansGone == \A w \in Widgets \ grid : store[w] = Gone

\* A widget never goes by a title that nobody saved: what is typed into an
\* open or cancelled dialog stays there.
NoUnsavedTitle ==
    \A w \in Widgets :
        shown[w] # NotLoaded => shown[w].title \in {d.title : d \in held[w]}

\* "Drag widgets to any position you like in unlock / edit mode."
DragOnlyInEditMode == draggable => ~toggleLocked

\* Every widget that is not being removed comes to show what the server holds
\* of it, whatever was typed, cancelled, saved, lost or overtaken before.
ShowsStored(w) == shown[w] \in Data /\ shown[w] = store[w]
EventuallyShowsStored ==
    \A w \in Widgets :
        <>[](w \in grid => crashed \/ deleted[w] \/ ShowsStored(w))
=============================================================================
