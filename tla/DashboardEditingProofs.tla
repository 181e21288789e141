----------------------- MODULE DashboardEditingProofs -----------------------
(***************************************************************************)
(* Proofs about DashboardEditing, for any widgets, titles, configurations  *)
(* and any number of loads under way: its types, and the invariants about  *)
(* locking, dialogs, removal and what a widget shows.                      *)
(***************************************************************************)
EXTENDS DashboardEditing, SequenceLemmas

-----------------------------------------------------------------------------
(* Records that cannot be confused. *)

LEMMA Distinct ==
    /\ \A e \in Editor : e # Unmounted
    /\ \A d \in Data : d # Gone /\ d # NotLoaded
    /\ \A e \in Editor : e.title \in Titles /\ e.config \in Configs /\ e.open \in BOOLEAN
    /\ \A d \in Data : d.title \in Titles /\ d.config \in Configs
<1>1. \A e \in Editor : e # Unmounted
  BY DEF Editor, Unmounted
<1>2. \A d \in Data : d # Gone
  BY DEF Data, Gone
<1>3. \A d \in Data : d # NotLoaded
  BY DEF Data, NotLoaded
<1>4. \A e \in Editor : e.title \in Titles /\ e.config \in Configs /\ e.open \in BOOLEAN
  BY DEF Editor
<1>5. \A d \in Data : d.title \in Titles /\ d.config \in Configs
  BY DEF Data
<1> QED
  BY <1>1, <1>2, <1>3, <1>4, <1>5

\* What an editor holds is data of a widget.
LEMMA EditedType ==
    ASSUME TypeOK, NEW w \in Widgets, Editing(w)
    PROVE  /\ editor[w] \in Editor
           /\ Edited(w) \in Data
<1>1. editor[w] \in Editor
  BY DEF TypeOK, Editing
<1> QED
  BY <1>1, Distinct DEF Edited, Data

\* The editor of a widget whose data has arrived.
LEMMA MountedType ==
    ASSUME TypeOK, NEW w \in Widgets, shown[w] # NotLoaded
    PROVE  /\ Mounted(w) \in Editor
           /\ ~Mounted(w).open
           /\ Mounted(w).config = shown[w].config
<1>1. shown[w] \in Data
  BY DEF TypeOK
<1> QED
  BY <1>1, Distinct DEF Mounted, Editor

\* An answer the server may give to a load, and what else a load may be.
LEMMA AnswerType ==
    ASSUME TypeOK, NEW w \in Widgets
    PROVE  /\ Answers(w) \subseteq Loads
           /\ \A a \in Loads : a.status = "ok" => a.data \in Data
<1>1. \A a \in Loads : a.status = "ok" => a.data \in Data
  BY DEF Loads, Gone
<1>2. CASE store[w] = Gone
  BY <1>1, <1>2 DEF Answers, Loads
<1>3. CASE store[w] # Gone
  <2>1. store[w] \in Data
    BY <1>3 DEF TypeOK
  <2> QED
    BY <1>1, <1>3, <2>1 DEF Answers, Loads
<1> QED
  BY <1>2, <1>3

-----------------------------------------------------------------------------
(* Types *)

LEMMA TypeInit ==
    ASSUME DashboardAssumption, Init
    PROVE  TypeOK
<1>1. edits \in 0 .. MaxEdits
  BY DEF Init, DashboardAssumption
<1>2. loads \in [Widgets -> Seq(Loads)] /\ puts \in [Widgets -> Seq(Data)]
  BY DEF Init
<1>3. held \in [Widgets -> SUBSET Data]
  BY DEF Init
<1> QED
  BY <1>1, <1>2, <1>3 DEF Init, TypeOK

LEMMA FreshPageType ==
    ASSUME TypeOK, FreshPage
    PROVE  /\ grid' \in SUBSET Widgets
           /\ {toggleLocked, draggable, resized, crashed}' \subseteq BOOLEAN
           /\ shown' \in [Widgets -> Data \cup {NotLoaded}]
           /\ deleted' \in [Widgets -> BOOLEAN]
           /\ locked' \in [Widgets -> BOOLEAN]
           /\ editor' \in [Widgets -> Editor \cup {Unmounted}]
           /\ aliased' \in [Widgets -> BOOLEAN]
           /\ loads' \in [Widgets -> Seq(Loads)]
           /\ removal' \in [Widgets -> {"none", "sent", "removed", "error"}]
<1>1. loads' \in [Widgets -> Seq(Loads)]
  BY DEF FreshPage
<1> QED
  BY <1>1 DEF FreshPage

\* Locking all widgets keeps the types of what it changes.
LEMMA LockAllType ==
    ASSUME TypeOK, LockAll
    PROVE  /\ toggleLocked' \in BOOLEAN /\ draggable' \in BOOLEAN
           /\ locked' \in [Widgets -> BOOLEAN]
           /\ editor' \in [Widgets -> Editor \cup {Unmounted}]
           /\ aliased' \in [Widgets -> BOOLEAN]
<1>1. \A w \in Widgets : (locked[w] \/ w \in grid) \in BOOLEAN
  OBVIOUS
<1>2. \A w \in Widgets : (aliased[w] /\ w \notin grid) \in BOOLEAN
  OBVIOUS
<1>3. \A w \in Widgets : (IF w \in grid THEN Unmounted ELSE editor[w]) \in Editor \cup {Unmounted}
  BY SMTT(40) DEF TypeOK
<1> QED
  BY <1>1, <1>2, <1>3, Zenon DEF LockAll

LEMMA TypeStep ==
    ASSUME DashboardAssumption, TypeOK, [Next]_vars
    PROVE  TypeOK'
<1> USE DEF TypeOK, page, widget, requests
<1>0. Acts => edits' \in 0 .. MaxEdits
  BY DEF Acts, DashboardAssumption
<1>1. CASE Unlock
  <2>1. PICK told \in SUBSET grid :
          /\ IF Unready = {} THEN told = grid ELSE told \cap Unready = {}
          /\ locked' = [w \in Widgets |-> locked[w] /\ w \notin told]
          /\ editor' = [w \in Widgets |->
                          IF w \in told /\ locked[w] THEN Mounted(w) ELSE editor[w]]
          /\ aliased' = [w \in Widgets |-> aliased[w] \/ (w \in told /\ locked[w])]
    BY <1>1 DEF Unlock
  <2>2. \A w \in Widgets : w \in told /\ locked[w] => Mounted(w) \in Editor
    BY <2>1, MountedType DEF Unready
  <2>3. editor' \in [Widgets -> Editor \cup {Unmounted}]
    BY <2>1, <2>2
  <2>4. locked' \in [Widgets -> BOOLEAN] /\ aliased' \in [Widgets -> BOOLEAN]
    <3>1. \A w \in Widgets : (locked[w] /\ w \notin told) \in BOOLEAN
      OBVIOUS
    <3>2. \A w \in Widgets : (aliased[w] \/ (w \in told /\ locked[w])) \in BOOLEAN
      OBVIOUS
    <3> QED
      BY <2>1, <3>1, <3>2, Zenon
  <2>5. /\ edits' \in 0 .. MaxEdits
        /\ draggable' \in BOOLEAN /\ crashed' \in BOOLEAN /\ toggleLocked' \in BOOLEAN
    BY <1>0, <1>1 DEF Unlock, UserActs
  <2> QED
    BY <1>1, <2>3, <2>4, <2>5 DEF Unlock
<1>2. CASE Lock
  BY <1>0, <1>2, LockAllType DEF Lock, UserActs
<1>3. CASE Resize
  BY <1>0, <1>3 DEF Resize, UserActs
<1>4. CASE ReloadDashboard
  BY <1>4, LockAllType DEF ReloadDashboard
<1>5. CASE OpenPage
  BY <1>0, <1>5, FreshPageType DEF OpenPage
<1>6. ASSUME NEW w \in Widgets, LoadData(w)
      PROVE  TypeOK'
  <2>1. [status |-> "sent"] \in Loads
    BY DEF Loads
  <2>2. loads' \in [Widgets -> Seq(Loads)]
    BY <1>6, <2>1 DEF LoadData
  <2> QED
    BY <1>6, <2>2 DEF LoadData
<1>7. ASSUME NEW w \in Widgets, ServerAnswersLoad(w) \/ ServerFailsLoad(w)
      PROVE  TypeOK'
  <2>1. [status |-> "failed"] \in Loads
    BY DEF Loads
  <2>2. PICK answer \in Loads : ServerAnswers(w, answer)
    BY <1>7, <2>1, AnswerType DEF ServerAnswersLoad, ServerFailsLoad
  <2>3. PICK i \in DOMAIN loads[w] :
          /\ loads' = [loads EXCEPT ![w] = [loads[w] EXCEPT ![i] = answer]]
          /\ UNCHANGED <<store, page, widget, puts, removal, held, edits>>
    BY <2>2 DEF ServerAnswers
  <2>4. [loads[w] EXCEPT ![i] = answer] \in Seq(Loads)
    BY ReplaceType
  <2>5. loads' \in [Widgets -> Seq(Loads)]
    BY <2>3, <2>4
  <2> QED
    BY <2>3, <2>5
<1>8. ASSUME NEW w \in Widgets, LoadDone(w)
      PROVE  TypeOK'
  <2>1. PICK i \in DOMAIN loads[w] :
          /\ Receive(w, loads[w][i])
          /\ loads' = [loads EXCEPT ![w] = RemoveAt(loads[w], i)]
          /\ UNCHANGED <<store, page, locked, editor, puts, removal, held, edits>>
    BY <1>8 DEF LoadDone
  <2>2. loads[w][i] \in Loads
    OBVIOUS
  <2>3. loads' \in [Widgets -> Seq(Loads)]
    BY <2>1, RemoveAtType
  <2>4. shown' \in [Widgets -> Data \cup {NotLoaded}]
    BY <2>1, <2>2, AnswerType DEF Receive
  <2>5. aliased' \in [Widgets -> BOOLEAN]
    BY <2>1 DEF Receive
  <2>6. deleted' \in [Widgets -> BOOLEAN]
    <3>1. (deleted[w] \/ loads[w][i] = Gone) \in BOOLEAN
      OBVIOUS
    <3> QED
      BY <2>1, <3>1, Zenon DEF Receive
  <2> QED
    BY <2>1, <2>3, <2>4, <2>5, <2>6
<1>9. ASSUME NEW w \in Widgets, OpenEditor(w)
      PROVE  TypeOK'
  <2>1. [editor[w] EXCEPT !.open = TRUE] \in Editor \cup {Unmounted}
    <3>1. CASE editor[w] \in Editor
      BY <3>1 DEF Editor
    <3>2. CASE editor[w] = Unmounted
      BY <3>2 DEF Unmounted
    <3> QED
      BY <3>1, <3>2
  <2>2. editor' = [editor EXCEPT ![w] = [editor[w] EXCEPT !.open = TRUE]]
    BY <1>9 DEF OpenEditor
  <2>3. editor' \in [Widgets -> Editor \cup {Unmounted}]
    BY <2>1, <2>2
  <2> QED
    BY <1>0, <1>9, <2>3 DEF OpenEditor, UserActs
<1>10. ASSUME NEW w \in Widgets, NEW t \in Titles, TypeTitle(w, t)
       PROVE  TypeOK'
  <2>1. editor[w] \in Editor
    BY <1>10, EditedType DEF TypeTitle
  <2>2. editor' \in [Widgets -> Editor \cup {Unmounted}]
    BY <1>10, <2>1 DEF TypeTitle, Editor
  <2> QED
    BY <1>0, <1>10, <2>2 DEF TypeTitle, UserActs
<1>11. ASSUME NEW w \in Widgets, NEW c \in Configs, TypeConfig(w, c)
       PROVE  TypeOK'
  <2>1. editor[w] \in Editor
    BY <1>11, EditedType DEF TypeConfig
  <2>2. editor' \in [Widgets -> Editor \cup {Unmounted}]
    BY <1>11, <2>1 DEF TypeConfig, Editor
  <2>3. [shown[w] EXCEPT !.config = c] \in Data \cup {NotLoaded}
    <3>1. CASE shown[w] \in Data
      BY <3>1 DEF Data
    <3>2. CASE shown[w] = NotLoaded
      BY <3>2 DEF NotLoaded
    <3> QED
      BY <3>1, <3>2
  <2>4. \/ shown' = [shown EXCEPT ![w] = [shown[w] EXCEPT !.config = c]]
        \/ shown' = shown
    BY <1>11 DEF TypeConfig
  <2>5. shown' \in [Widgets -> Data \cup {NotLoaded}]
    BY <2>3, <2>4
  <2> QED
    BY <1>0, <1>11, <2>2, <2>5 DEF TypeConfig, UserActs
<1>12. ASSUME NEW w \in Widgets, Cancel(w)
       PROVE  TypeOK'
  <2>1. editor[w] \in Editor
    BY <1>12, EditedType DEF Cancel
  <2>2. editor' \in [Widgets -> Editor \cup {Unmounted}]
    BY <1>12, <2>1 DEF Cancel, Close, Editor
  <2> QED
    BY <1>12, <2>2 DEF Cancel, Close
<1>13. ASSUME NEW w \in Widgets, Save(w)
       PROVE  TypeOK'
  <2>1. editor[w] \in Editor /\ Edited(w) \in Data
    BY <1>13, EditedType DEF Save
  <2>2. editor' \in [Widgets -> Editor \cup {Unmounted}]
    BY <1>13, <2>1 DEF Save, Close, Editor
  <2>3. puts' \in [Widgets -> Seq(Data)] /\ held' \in [Widgets -> SUBSET Data]
    BY <1>13, <2>1 DEF Save
  <2> QED
    BY <1>13, <2>1, <2>2, <2>3 DEF Save, Close
<1>14. ASSUME NEW w \in Widgets, PutArrives(w)
       PROVE  TypeOK'
  <2>1. PICK i \in DOMAIN puts[w] :
          /\ puts' = [puts EXCEPT ![w] = RemoveAt(puts[w], i)]
          /\ store' = store \/ store' = [store EXCEPT ![w] = puts[w][i]]
          /\ UNCHANGED <<page, widget, loads, removal, held, edits>>
    BY <1>14 DEF PutArrives
  <2>2. puts' \in [Widgets -> Seq(Data)]
    BY <2>1, RemoveAtType
  <2>3. puts[w][i] \in Data
    OBVIOUS
  <2>4. store' \in [Widgets -> Data \cup {Gone}]
    BY <2>1, <2>3
  <2> QED
    BY <2>1, <2>2, <2>4
<1>15. ASSUME NEW w \in Widgets, DeleteWidget(w)
       PROVE  TypeOK'
  BY <1>0, <1>15 DEF DeleteWidget, UserActs
<1>16. ASSUME NEW w \in Widgets, ServerRemoves(w)
       PROVE  TypeOK'
  BY <1>16, ZenonT(60) DEF ServerRemoves
<1>17. ASSUME NEW w \in Widgets, RemovalDone(w)
       PROVE  TypeOK'
  BY <1>17 DEF RemovalDone, GridAfter
<1>18. ASSUME NEW w \in Widgets, OtherDeletes(w)
       PROVE  TypeOK'
  BY <1>0, <1>18 DEF OtherDeletes
<1>19. ASSUME NEW w \in Widgets, NEW d \in Data, OtherEdits(w, d)
       PROVE  TypeOK'
  BY <1>0, <1>19 DEF OtherEdits
<1>20. CASE UNCHANGED vars
  BY <1>20 DEF vars
<1> QED
  BY <1>1, <1>2, <1>3, <1>4, <1>5, <1>6, <1>7, <1>8, <1>9, <1>10, <1>11, <1>12, <1>13,
     <1>14, <1>15, <1>16, <1>17, <1>18, <1>19, <1>20 DEF Next

\* The types of a dashboard page, whatever its widgets and users do.
THEOREM TypeCorrect ==
    ASSUME DashboardAssumption
    PROVE  Spec => []TypeOK
<1>1. Init => TypeOK
  BY TypeInit
<1>2. TypeOK /\ [Next]_vars => TypeOK'
  BY TypeStep
<1> QED
  BY <1>1, <1>2, PTL DEF Spec

-----------------------------------------------------------------------------
(* Locking and dialogs.  NoDragWhileEditing is not inductive: closing a dialog
   unfreezes the grid, which is right only if no other dialog is open; and
   opening one is known to open a mounted editor only by LockAgreement. *)

OneDialog == \A v, w \in Widgets : Editing(v) /\ Editing(w) => v = w

DialogInv == LockAgreement /\ NoDragWhileEditing /\ OneDialog

\* A step that changes neither locks nor editors, and adds no widget.
LEMMA QuietStep ==
    ASSUME DialogInv, grid' \subseteq grid,
           UNCHANGED <<locked, editor, toggleLocked, draggable, crashed>>
    PROVE  DialogInv'
BY DEF DialogInv, LockAgreement, NoDragWhileEditing, OneDialog, DialogOpen, Editing

\* A step that changes one mounted editor, and opens it only if the grid is
\* frozen and no other is open.
LEMMA EditorStep ==
    ASSUME TypeOK, DialogInv,
           NEW w \in Widgets, editor[w] \in Editor, NEW e \in Editor,
           \A v \in Widgets : Editing(v) => v = w,
           editor' = [editor EXCEPT ![w] = e],
           e.open => ~draggable',
           UNCHANGED <<locked, toggleLocked, crashed, grid>>
    PROVE  DialogInv'
<1>1. editor[w] # Unmounted /\ e # Unmounted
  BY Distinct
<1>2. editor'[w] = e /\ \A v \in Widgets \ {w} : editor'[v] = editor[v]
  BY DEF TypeOK
<1>3. \A v \in Widgets : Editing(v)' => v = w /\ e.open
  BY <1>2 DEF Editing
<1>4. LockAgreement'
  BY <1>1, <1>2 DEF DialogInv, LockAgreement
<1>5. NoDragWhileEditing'
  BY <1>3 DEF NoDragWhileEditing, DialogOpen
<1>6. OneDialog'
  BY <1>3 DEF OneDialog
<1> QED
  BY <1>4, <1>5, <1>6 DEF DialogInv

\* Locking all widgets of the page.
LEMMA LockStep ==
    ASSUME TypeOK, DialogInv, LockAll, UNCHANGED grid
    PROVE  DialogInv'
<1>1. \A w \in grid : locked'[w] = TRUE /\ editor'[w] = Unmounted
  BY DEF LockAll, TypeOK
<1>2. \A w \in Widgets : Editing(w)' => Editing(w)
  BY DEF LockAll, Editing
<1>3. toggleLocked' = TRUE /\ draggable' = FALSE
  BY DEF LockAll
<1> QED
  BY <1>1, <1>2, <1>3 DEF DialogInv, LockAgreement, NoDragWhileEditing, OneDialog

LEMMA DialogStep ==
    ASSUME TypeOK, DialogInv, [Next]_vars
    PROVE  DialogInv'
<1> USE DEF page, widget, requests
<1>1. CASE Unlock
  <2>1. PICK told \in SUBSET grid :
          /\ IF Unready = {} THEN told = grid ELSE told \cap Unready = {}
          /\ locked' = [w \in Widgets |-> locked[w] /\ w \notin told]
          /\ editor' = [w \in Widgets |->
                          IF w \in told /\ locked[w] THEN Mounted(w) ELSE editor[w]]
    BY <1>1 DEF Unlock
  <2>2. \A w \in Widgets : w \in told /\ locked[w] =>
            Mounted(w) # Unmounted /\ ~Mounted(w).open
    BY <2>1, MountedType, Distinct DEF Unready
  <2>3. ~DialogOpen'
    BY <1>1, <2>1, <2>2 DEF Unlock, DialogOpen, Editing
  <2>4. LockAgreement'
    <3>1. SUFFICES ASSUME ~crashed', NEW w \in grid'
                   PROVE  /\ locked'[w] = toggleLocked'
                          /\ editor'[w] = Unmounted <=> locked'[w]
      BY DEF LockAgreement
    <3>2. Unready = {} /\ toggleLocked' = FALSE /\ grid' = grid /\ w \in Widgets
      BY <1>1, <3>1 DEF Unlock, TypeOK
    <3>3. w \in told
      BY <2>1, <3>1, <3>2
    <3>4. locked'[w] = FALSE
      BY <2>1, <3>2, <3>3
    <3>5. editor'[w] # Unmounted
      <4>1. CASE locked[w]
        BY <2>1, <2>2, <3>2, <3>3, <4>1
      <4>2. CASE ~locked[w]
        <5>1. ~crashed /\ editor[w] # Unmounted
          BY <1>1, <3>1, <3>2, <4>2 DEF Unlock, UserActs, DialogInv, LockAgreement
        <5> QED
          BY <2>1, <3>2, <4>2, <5>1
      <4> QED
        BY <4>1, <4>2
    <3> QED
      BY <3>2, <3>4, <3>5
  <2> QED
    BY <2>3, <2>4 DEF DialogInv, NoDragWhileEditing, OneDialog, DialogOpen
<1>2. CASE Lock
  BY <1>2, LockStep DEF Lock
<1>3. CASE ReloadDashboard
  BY <1>3, LockStep DEF ReloadDashboard
<1>4. CASE OpenPage
  BY <1>4 DEF OpenPage, FreshPage, DialogInv, LockAgreement, NoDragWhileEditing,
             OneDialog, DialogOpen, Editing
<1>5. ASSUME NEW w \in Widgets, OpenEditor(w)
      PROVE  DialogInv'
  <2>1. editor[w] \in Editor
    BY <1>5 DEF OpenEditor, UserActs, DialogInv, LockAgreement, TypeOK
  <2>2. [editor[w] EXCEPT !.open = TRUE] \in Editor
    BY <2>1 DEF Editor
  <2>3. editor' = [editor EXCEPT ![w] = [editor[w] EXCEPT !.open = TRUE]]
    BY <1>5 DEF OpenEditor
  <2> QED
    BY <1>5, <2>1, <2>2, <2>3, EditorStep DEF OpenEditor, DialogOpen
<1>6. ASSUME NEW w \in Widgets,
             \/ \E t \in Titles : TypeTitle(w, t)
             \/ \E c \in Configs : TypeConfig(w, c)
      PROVE  DialogInv'
  <2>1. Editing(w) /\ editor[w] \in Editor
    BY <1>6, EditedType DEF TypeTitle, TypeConfig
  <2>2. \A t \in Titles : [editor[w] EXCEPT !.title = t] \in Editor
    BY <2>1 DEF Editor
  <2>3. \A c \in Configs : [editor[w] EXCEPT !.config = c] \in Editor
    BY <2>1 DEF Editor
  <2>4. PICK e \in Editor : editor' = [editor EXCEPT ![w] = e]
    BY <1>6, <2>2, <2>3 DEF TypeTitle, TypeConfig
  <2>5. ~draggable' /\ UNCHANGED <<locked, toggleLocked, crashed, grid>>
    BY <1>6, <2>1 DEF TypeTitle, TypeConfig, DialogInv, NoDragWhileEditing, DialogOpen
  <2>6. \A v \in Widgets : Editing(v) => v = w
    BY <2>1 DEF DialogInv, OneDialog
  <2> QED
    BY <2>1, <2>4, <2>5, <2>6, EditorStep
<1>7. ASSUME NEW w \in Widgets, Cancel(w) \/ Save(w)
      PROVE  DialogInv'
  <2>1. Editing(w) /\ editor[w] \in Editor /\ Close(w)
    BY <1>7, EditedType DEF Cancel, Save
  <2>2. [editor[w] EXCEPT !.open = FALSE] \in Editor
    BY <2>1 DEF Editor
  <2>3. [editor[w] EXCEPT !.open = FALSE].open = FALSE
    BY <2>1 DEF Editor
  <2>4. editor' = [editor EXCEPT ![w] = [editor[w] EXCEPT !.open = FALSE]]
    BY <2>1 DEF Close
  <2>5. UNCHANGED <<locked, toggleLocked, crashed, grid>>
    BY <1>7 DEF Cancel, Save
  <2>6. \A v \in Widgets : Editing(v) => v = w
    BY <2>1 DEF DialogInv, OneDialog
  <2> QED
    BY <2>1, <2>2, <2>3, <2>4, <2>5, <2>6, EditorStep
<1>8. ASSUME NEW w \in Widgets, RemovalDone(w)
      PROVE  DialogInv'
  BY <1>8, QuietStep DEF RemovalDone, GridAfter
<1>9. CASE Resize \/ UNCHANGED vars
  BY <1>9, QuietStep DEF Resize, vars
<1>10. ASSUME NEW w \in Widgets,
              \/ LoadData(w) \/ ServerAnswersLoad(w) \/ ServerFailsLoad(w) \/ LoadDone(w)
              \/ PutArrives(w) \/ DeleteWidget(w) \/ ServerRemoves(w) \/ OtherDeletes(w)
              \/ \E d \in Data : OtherEdits(w, d)
       PROVE  DialogInv'
  BY <1>10, QuietStep DEF LoadData, ServerAnswersLoad, ServerFailsLoad, ServerAnswers,
       LoadDone, PutArrives, DeleteWidget, ServerRemoves, OtherDeletes, OtherEdits
<1> QED
  BY <1>1, <1>2, <1>3, <1>4, <1>5, <1>6, <1>7, <1>8, <1>9, <1>10 DEF Next

LEMMA DialogInductive ==
    ASSUME DashboardAssumption
    PROVE  Spec => []DialogInv
<1>1. Init => DialogInv
  BY DEF Init, DialogInv, LockAgreement, NoDragWhileEditing, OneDialog, DialogOpen, Editing
<1>2. TypeOK /\ DialogInv /\ [Next]_vars => DialogInv'
  BY DialogStep
<1> QED
  BY <1>1, <1>2, TypeCorrect, PTL DEF Spec

\* The lock button, the widgets and their editors agree.
THEOREM LockAgreementHolds ==
    ASSUME DashboardAssumption
    PROVE  Spec => []LockAgreement
<1>1. DialogInv => LockAgreement
  BY DEF DialogInv
<1> QED
  BY <1>1, DialogInductive, PTL

\* Nothing unfreezes the grid behind an open dialog.
THEOREM NoDragWhileEditingHolds ==
    ASSUME DashboardAssumption
    PROVE  Spec => []NoDragWhileEditing
<1>1. DialogInv => NoDragWhileEditing
  BY DEF DialogInv
<1> QED
  BY <1>1, DialogInductive, PTL

-----------------------------------------------------------------------------
(* Removal.  That a widget may leave the page rests on what the answer to its
   removal says. *)

RemovalInv ==
    /\ RemovedMeansGone
    /\ \A w \in Widgets : removal[w] = "removed" => store[w] = Gone

\* What is gone stays gone, and no other step decides about the page.
LEMMA RemovalStep ==
    ASSUME TypeOK, RemovalInv, [Next]_vars
    PROVE  RemovalInv'
<1> USE DEF RemovalInv, RemovedMeansGone, page, widget, requests, TypeOK
<1>1. CASE OpenPage
  BY <1>1 DEF OpenPage, FreshPage
<1>2. ASSUME NEW w \in Widgets, PutArrives(w)
      PROVE  RemovalInv'
  BY <1>2 DEF PutArrives
<1>3. ASSUME NEW w \in Widgets, DeleteWidget(w)
      PROVE  RemovalInv'
  BY <1>3 DEF DeleteWidget
<1>4. ASSUME NEW w \in Widgets, ServerRemoves(w)
      PROVE  RemovalInv'
  BY <1>4, ZenonT(60) DEF ServerRemoves
<1>5. ASSUME NEW w \in Widgets, RemovalDone(w)
      PROVE  RemovalInv'
  BY <1>5 DEF RemovalDone, GridAfter
<1>6. ASSUME NEW w \in Widgets,
             OtherDeletes(w) \/ \E d \in Data : OtherEdits(w, d)
      PROVE  RemovalInv'
  BY <1>6 DEF OtherDeletes, OtherEdits
<1>7. ASSUME UNCHANGED <<store, grid, removal>>
      PROVE  RemovalInv'
  BY <1>7
<1>8. CASE Unlock \/ Lock \/ Resize \/ ReloadDashboard \/ UNCHANGED vars
  BY <1>7, <1>8 DEF Unlock, Lock, Resize, ReloadDashboard, vars
<1>9. ASSUME NEW w \in Widgets,
             \/ LoadData(w) \/ ServerAnswersLoad(w) \/ ServerFailsLoad(w) \/ LoadDone(w)
             \/ OpenEditor(w) \/ Cancel(w) \/ Save(w)
             \/ \E t \in Titles : TypeTitle(w, t)
             \/ \E c \in Configs : TypeConfig(w, c)
      PROVE  RemovalInv'
  BY <1>7, <1>9 DEF LoadData, ServerAnswersLoad, ServerFailsLoad, ServerAnswers, LoadDone,
       OpenEditor, Cancel, Save, TypeTitle, TypeConfig
<1> QED
  BY <1>1, <1>2, <1>3, <1>4, <1>5, <1>6, <1>8, <1>9 DEF Next

\* A widget leaves the page only when it has left the dashboard.
THEOREM RemovedMeansGoneHolds ==
    ASSUME DashboardAssumption
    PROVE  Spec => []RemovedMeansGone
<1>1. Init => RemovalInv
  BY DEF Init, RemovalInv, RemovedMeansGone
<1>2. TypeOK /\ RemovalInv /\ [Next]_vars => RemovalInv'
  BY RemovalStep
<1>3. RemovalInv => RemovedMeansGone
  BY DEF RemovalInv
<1> QED
  BY <1>1, <1>2, <1>3, TypeCorrect, PTL DEF Spec

-----------------------------------------------------------------------------
(* Titles.  What a widget shows comes from an answer on its way, which comes
   from the server, which got it from a request on its way: all of it was
   saved by someone. *)

Known(w) == {d.title : d \in held[w]}

TitleInv ==
    /\ NoUnsavedTitle
    /\ \A w \in Widgets :
         /\ store[w] # Gone => store[w] \in held[w]
         /\ ToSet(puts[w]) \subseteq held[w]
         /\ \A a \in ToSet(loads[w]) : a.status = "ok" => a.data \in held[w]

\* A step that only forgets, and at most remembers more of what was saved.
LEMMA QuietTitles ==
    ASSUME TypeOK, TitleInv,
           \A w \in Widgets :
              /\ held[w] \subseteq held'[w]
              /\ shown'[w] = shown[w] \/ shown'[w] = NotLoaded
              /\ store'[w] \in {store[w], Gone}
              /\ ToSet(puts'[w]) \subseteq ToSet(puts[w])
              /\ ToSet(loads'[w]) \subseteq ToSet(loads[w])
    PROVE  TitleInv'
<1>1. \A w \in Widgets : Known(w) \subseteq Known(w)'
  BY DEF Known
<1> QED
  BY <1>1 DEF TitleInv, NoUnsavedTitle, Known

LEMMA TitleStep ==
    ASSUME TypeOK, TitleInv, [Next]_vars
    PROVE  TitleInv'
<1> USE DEF page, widget, requests
<1>1. CASE OpenPage
  <2>1. \A w \in Widgets : ToSet(<<>>) \subseteq ToSet(loads[w])
    BY DEF ToSet
  <2> QED
    BY <1>1, <2>1, QuietTitles DEF OpenPage, FreshPage
<1>2. ASSUME NEW w \in Widgets, LoadData(w)
      PROVE  TitleInv'
  <2>1. loads[w] \in Seq(Loads) /\ [status |-> "sent"] \in Loads
    BY DEF TypeOK, Loads
  <2>2. ToSet(loads'[w]) = ToSet(loads[w]) \cup {[status |-> "sent"]}
    BY <1>2, <2>1, ToSetAppend DEF LoadData, TypeOK
  <2>3. \A v \in Widgets \ {w} : loads'[v] = loads[v]
    BY <1>2 DEF LoadData, TypeOK
  <2>4. UNCHANGED <<store, shown, puts, held>>
    BY <1>2 DEF LoadData
  <2> QED
    BY <2>2, <2>3, <2>4 DEF TitleInv, NoUnsavedTitle
<1>3. ASSUME NEW w \in Widgets, ServerAnswersLoad(w) \/ ServerFailsLoad(w)
      PROVE  TitleInv'
  <2>1. \A a \in Answers(w) : a \in Loads /\ (a.status = "ok" => a.data \in held[w])
    <3>1. CASE store[w] = Gone
      <4>1. Answers(w) = {Gone} /\ Gone.status = "gone" /\ Gone \in Loads
        BY <3>1 DEF Answers, Gone, Loads
      <4> QED
        BY <4>1
    <3>2. CASE store[w] # Gone
      <4>1. store[w] \in held[w] /\ store[w] \in Data
        BY <3>2 DEF TitleInv, TypeOK
      <4>2. Answers(w) = {[status |-> "ok", data |-> store[w]]}
        BY <3>2 DEF Answers
      <4>3. [status |-> "ok", data |-> store[w]] \in Loads
        BY <4>1 DEF Loads
      <4> QED
        BY <4>1, <4>2, <4>3
    <3> QED
      BY <3>1, <3>2
  <2>2. [status |-> "failed"] \in Loads
    BY DEF Loads
  <2>3. PICK answer \in Loads : /\ ServerAnswers(w, answer)
                                /\ answer.status = "ok" => answer.data \in held[w]
    BY <1>3, <2>1, <2>2 DEF ServerAnswersLoad, ServerFailsLoad
  <2>4. PICK i \in DOMAIN loads[w] :
          /\ loads' = [loads EXCEPT ![w] = [loads[w] EXCEPT ![i] = answer]]
          /\ UNCHANGED <<store, shown, puts, held>>
    BY <2>3 DEF ServerAnswers
  <2>5. ToSet(loads'[w]) \subseteq ToSet(loads[w]) \cup {answer}
    <3>1. loads[w] \in Seq(Loads)
      BY DEF TypeOK
    <3>2. loads'[w] = [loads[w] EXCEPT ![i] = answer]
      BY <2>4 DEF TypeOK
    <3>3. ToSet([loads[w] EXCEPT ![i] = answer]) \subseteq ToSet(loads[w]) \cup {answer}
      BY <3>1, ReplaceType
    <3> QED
      BY <3>2, <3>3
  <2>6. \A v \in Widgets \ {w} : loads'[v] = loads[v]
    BY <2>4 DEF TypeOK
  <2> QED
    BY <2>3, <2>4, <2>5, <2>6 DEF TitleInv, NoUnsavedTitle
<1>4. ASSUME NEW w \in Widgets, LoadDone(w)
      PROVE  TitleInv'
  <2>1. PICK i \in DOMAIN loads[w] :
          /\ Receive(w, loads[w][i])
          /\ loads' = [loads EXCEPT ![w] = RemoveAt(loads[w], i)]
          /\ UNCHANGED <<store, puts, held>>
    BY <1>4 DEF LoadDone
  <2>2. ToSet(loads'[w]) \subseteq ToSet(loads[w])
    BY <2>1, RemoveAtType DEF TypeOK
  <2>3. \A v \in Widgets \ {w} : loads'[v] = loads[v] /\ shown'[v] = shown[v]
    BY <2>1 DEF Receive, TypeOK
  <2>4. loads[w][i] \in ToSet(loads[w])
    BY DEF ToSet
  <2>5. shown'[w] = shown[w] \/ shown'[w] \in held[w]
    BY <2>1, <2>4 DEF Receive, TypeOK, TitleInv
  <2> QED
    BY <2>1, <2>2, <2>3, <2>5 DEF TitleInv, NoUnsavedTitle
<1>5. ASSUME NEW w \in Widgets, NEW c \in Configs, TypeConfig(w, c)
      PROVE  TitleInv'
  <2>1. UNCHANGED <<store, puts, loads, held>>
    BY <1>5 DEF TypeConfig
  <2>2. \A v \in Widgets \ {w} : shown'[v] = shown[v]
    BY <1>5 DEF TypeConfig, TypeOK
  <2>3. shown[w] # NotLoaded => shown'[w].title = shown[w].title
    BY <1>5, Distinct DEF TypeConfig, TypeOK, Data
  <2>4. shown[w] = NotLoaded => shown'[w] = NotLoaded
    BY <1>5 DEF TypeConfig, TypeOK, NotLoaded
  <2> QED
    BY <2>1, <2>2, <2>3, <2>4 DEF TitleInv, NoUnsavedTitle
<1>6. ASSUME NEW w \in Widgets, Save(w)
      PROVE  TitleInv'
  <2>1. Edited(w) \in Data
    BY <1>6, EditedType DEF Save
  <2>2. ToSet(puts'[w]) = ToSet(puts[w]) \cup {Edited(w)}
    BY <1>6, <2>1, ToSetAppend DEF Save, TypeOK
  <2>3. /\ shown'[w] = Edited(w) /\ held'[w] = held[w] \cup {Edited(w)}
        /\ \A v \in Widgets \ {w} : /\ shown'[v] = shown[v] /\ held'[v] = held[v]
                                    /\ puts'[v] = puts[v]
        /\ UNCHANGED <<store, loads>>
    BY <1>6 DEF Save, TypeOK
  <2>4. \A v \in Widgets : held[v] \subseteq held'[v]
    BY <2>3
  <2> QED
    BY <2>2, <2>3, <2>4 DEF TitleInv, NoUnsavedTitle
<1>7. ASSUME NEW w \in Widgets, PutArrives(w)
      PROVE  TitleInv'
  <2>1. PICK i \in DOMAIN puts[w] :
          /\ puts' = [puts EXCEPT ![w] = RemoveAt(puts[w], i)]
          /\ store' = store \/ store' = [store EXCEPT ![w] = puts[w][i]]
          /\ UNCHANGED <<shown, loads, held>>
    BY <1>7 DEF PutArrives
  <2>2. ToSet(puts'[w]) \subseteq ToSet(puts[w]) /\ puts[w][i] \in ToSet(puts[w])
    <3>1. puts[w] \in Seq(Data) /\ puts'[w] = RemoveAt(puts[w], i)
      BY <2>1 DEF TypeOK
    <3>2. ToSet(RemoveAt(puts[w], i)) \subseteq ToSet(puts[w])
      BY <3>1, RemoveAtType
    <3>3. puts[w][i] \in ToSet(puts[w])
      BY DEF ToSet
    <3> QED
      BY <3>1, <3>2, <3>3
  <2>3. \A v \in Widgets \ {w} : puts'[v] = puts[v] /\ store'[v] = store[v]
    BY <2>1 DEF TypeOK
  <2>4. store'[w] = store[w] \/ store'[w] \in held[w]
    BY <2>1, <2>2 DEF TypeOK, TitleInv
  <2> QED
    BY <2>1, <2>2, <2>3, <2>4 DEF TitleInv, NoUnsavedTitle
<1>8. ASSUME NEW w \in Widgets, NEW d \in Data, OtherEdits(w, d)
      PROVE  TitleInv'
  <2>1. /\ store'[w] = d /\ held'[w] = held[w] \cup {d}
        /\ \A v \in Widgets \ {w} : store'[v] = store[v] /\ held'[v] = held[v]
        /\ UNCHANGED <<shown, puts, loads>>
    BY <1>8 DEF OtherEdits, TypeOK
  <2>2. \A v \in Widgets : held[v] \subseteq held'[v]
    BY <2>1
  <2> QED
    BY <2>1, <2>2 DEF TitleInv, NoUnsavedTitle
<1>9. ASSUME NEW w \in Widgets, OtherDeletes(w) \/ ServerRemoves(w)
      PROVE  TitleInv'
  BY <1>9, QuietTitles DEF OtherDeletes, ServerRemoves, TypeOK
<1>10. ASSUME UNCHANGED <<store, shown, puts, loads, held>>
       PROVE  TitleInv'
  BY <1>10 DEF TitleInv, NoUnsavedTitle
<1>11. CASE Unlock \/ Lock \/ Resize \/ ReloadDashboard \/ UNCHANGED vars
  BY <1>10, <1>11 DEF Unlock, Lock, Resize, ReloadDashboard, vars
<1>12. ASSUME NEW w \in Widgets,
              \/ OpenEditor(w) \/ Cancel(w) \/ DeleteWidget(w) \/ RemovalDone(w)
              \/ \E t \in Titles : TypeTitle(w, t)
       PROVE  TitleInv'
  BY <1>10, <1>12 DEF OpenEditor, Cancel, DeleteWidget, RemovalDone, TypeTitle
<1> QED
  BY <1>1, <1>2, <1>3, <1>4, <1>5, <1>6, <1>7, <1>8, <1>9, <1>11, <1>12 DEF Next

\* A widget never goes by a title that nobody saved.
THEOREM NoUnsavedTitleHolds ==
    ASSUME DashboardAssumption
    PROVE  Spec => []NoUnsavedTitle
<1>1. Init => TitleInv
  BY DEF Init, TitleInv, NoUnsavedTitle, ToSet
<1>2. TypeOK /\ TitleInv /\ [Next]_vars => TitleInv'
  BY TitleStep
<1>3. TitleInv => NoUnsavedTitle
  BY DEF TitleInv
<1> QED
  BY <1>1, <1>2, <1>3, TypeCorrect, PTL DEF Spec
=============================================================================
