--------------------------- MODULE ListPagesProofs ----------------------------
(***************************************************************************)
(* What holds of the pages with lists, for any items and messages and any  *)
(* number of requests: their types, that what is shown is not older than   *)
(* what was confirmed, that what is offered for assignment is not assigned,*)
(* and that no output launched is left behind in silence.                  *)
(***************************************************************************)
EXTENDS ListPages, TLAPS

Dos == {"add", "alter", "drop", "launch", "assign", "unassign", "terminate"}
Reloads == {"answered", "assigned", "sent"}

LEMMA OpKinds ==
    /\ \A p \in Pages : OpsOf[p] \subseteq AllOps
    /\ \A op \in AllOps : op.do \in Dos /\ op.reload \in Reloads
    /\ Op("assign", "answered") \in AllOps
<1>1. Pages = {"streams", "rules", "streamOutputs", "outputs", "callbacks", "users", "patterns"}
  BY DEF Pages, OpsOf
<1>2. AllOps = StreamsPage \cup RulesEditor \cup OutputsOfStream \cup AllOutputs
                 \cup AlarmCallbacks \cup UserList \cup GrokPatterns
  BY <1>1 DEF AllOps, OpsOf
<1>3. \A op \in AllOps : op.do \in Dos /\ op.reload \in Reloads
  BY <1>2 DEF StreamsPage, RulesEditor, OutputsOfStream, AllOutputs, AlarmCallbacks,
              UserList, GrokPatterns, Op, Dos, Reloads
<1>4. Op("assign", "answered") \in AllOps
  BY <1>2 DEF OutputsOfStream
<1>5. \A p \in Pages : OpsOf[p] \subseteq AllOps
  BY DEF AllOps
<1> QED
  BY <1>3, <1>4, <1>5

\* What a change makes of the lists; an output assigned is in the list.
LEMMA EffectsType ==
    ASSUME server \in Lists, NEW do \in Dos, NEW i \in Items \cup {"new"}, NEW e \in Effects(do, i)
    PROVE  /\ e.lists \in Lists /\ e.item \in Items
           /\ do = "assign" => e.item = i /\ i \in e.lists.list
<1>1. server.list \subseteq Items /\ server.all \subseteq Items
  BY DEF Lists
<1>2. CASE do = "add"
  <2>1. e \in {[lists |-> [list |-> server.list \cup {n}, all |-> server.all], item |-> n] : n \in Items \ server.list}
    BY <1>2 DEF Effects
  <2> QED
    BY <1>1, <1>2, <2>1 DEF Lists
<1>3. CASE do = "launch"
  <2>1. e \in {[lists |-> [list |-> server.list, all |-> server.all \cup {n}], item |-> n] : n \in Items \ server.all}
    BY <1>3 DEF Effects
  <2> QED
    BY <1>1, <1>3, <2>1 DEF Lists
<1>4. CASE do = "alter"
  <2>1. e \in {[lists |-> [list |-> server.list, all |-> server.all], item |-> n] : n \in {i} \cap server.list}
    BY <1>4 DEF Effects
  <2> QED
    BY <1>1, <1>4, <2>1 DEF Lists
<1>5. CASE do \in {"drop", "unassign"}
  <2>1. e \in {[lists |-> [list |-> server.list \ {n}, all |-> server.all], item |-> n] : n \in {i} \cap server.list}
    BY <1>5 DEF Effects
  <2> QED
    BY <1>1, <1>5, <2>1 DEF Lists
<1>6. CASE do = "assign"
  <2>1. e \in {[lists |-> [list |-> server.list \cup {n}, all |-> server.all], item |-> n] : n \in {i} \cap server.all}
    BY <1>6 DEF Effects
  <2> QED
    BY <1>1, <1>6, <2>1 DEF Lists
<1>7. CASE do = "terminate"
  <2>1. e \in {[lists |-> [list |-> server.list \ {n}, all |-> server.all \ {n}], item |-> n] : n \in {i} \cap server.all}
    BY <1>7 DEF Effects
  <2> QED
    BY <1>1, <1>7, <2>1 DEF Lists
<1> QED
  BY <1>2, <1>3, <1>4, <1>5, <1>6, <1>7 DEF Dos

-----------------------------------------------------------------------------
(* Types, and what each request and answer is *)

LEMMA NewLoads ==
    ASSUME TypeOK, NEW n \in Nat
    PROVE  /\ LoadData(n) \subseteq LoadRecords /\ LatestAfter(n) \in [Parts -> Nat]
           /\ \A l \in LoadData(n) : /\ l.no = n /\ l.version = 0 /\ l.part \in {"list", "match"}
                                     /\ l.part = "match" => message # "none" /\ l.about = message
           /\ \A l, m \in LoadData(n) : l.part = m.part => l = m
           /\ LatestAfter(n)["list"] = n /\ LatestAfter(n)["all"] = n
           /\ LatestAfter(n)["match"] = IF message = "none" THEN latest["match"] ELSE n
<1>1. LatestAfter(n) \in [Parts -> Nat]
  BY DEF TypeOK, LatestAfter, Parts
<1>2. /\ Load("list", n, "none", {}) \in LoadRecords
      /\ Load("match", n, message, {}) \in LoadRecords
  BY DEF TypeOK, Load, LoadRecords, Parts
<1>3. \A l \in LoadData(n) : \/ l = Load("list", n, "none", {})
                             \/ message # "none" /\ l = Load("match", n, message, {})
  BY DEF LoadData
<1>4. /\ Load("list", n, "none", {}).no = n /\ Load("match", n, message, {}).no = n
      /\ Load("list", n, "none", {}).version = 0 /\ Load("match", n, message, {}).version = 0
      /\ Load("list", n, "none", {}).part = "list" /\ Load("match", n, message, {}).part = "match"
      /\ Load("match", n, message, {}).about = message
  BY DEF Load
<1>5. /\ LatestAfter(n)["list"] = n /\ LatestAfter(n)["all"] = n
      /\ LatestAfter(n)["match"] = IF message = "none" THEN latest["match"] ELSE n
  BY DEF LatestAfter, Parts
<1>6. LoadData(n) \subseteq LoadRecords
  BY <1>2, <1>3
<1>7. \A l \in LoadData(n) : /\ l.no = n /\ l.version = 0 /\ l.part \in {"list", "match"}
                             /\ l.part = "match" => message # "none" /\ l.about = message
  BY <1>3, <1>4
<1>8. \A l, m \in LoadData(n) : l.part = m.part => l = m
  BY <1>3, <1>4
<1> QED
  BY <1>1, <1>5, <1>6, <1>7, <1>8

LEMMA NewAssignable ==
    ASSUME NEW l \in LoadRecords
    PROVE  /\ FetchAssignable(l) \subseteq LoadRecords
           /\ \A a \in FetchAssignable(l) : /\ a.part = "all" /\ a.no = l.no /\ a.version = 0
                                            /\ a.known = l.items /\ l.part = "list"
<1>1. Load("all", l.no, "none", l.items) \in LoadRecords
  BY DEF Load, LoadRecords, Parts
<1> QED
  BY <1>1 DEF FetchAssignable, Load

\* What the page shows after a load.
Answer(l) == [no |-> l.no, about |-> l.about, version |-> l.version, items |-> Assignable(l)]
Contents == [no : Nat, about : Messages \cup {"none"}, version : Nat, items : SUBSET Items]

LEMMA LoadedShows ==
    ASSUME TypeOK, NEW l \in loads, Loaded(l)
    PROVE  /\ l \in LoadRecords /\ l.version > 0 /\ l.part \in Parts
           /\ shown' \in [Parts -> Contents]
           /\ shown'[l.part] = Answer(l)
           /\ \A p \in Parts \ {l.part} : shown'[p] = shown[p]
           /\ loads' = (loads \ {l}) \cup FetchAssignable(l)
           /\ UNCHANGED <<page, server, version, changes, latest, asked, message, history, acts>>
<1>1. l \in LoadRecords /\ l.version > 0 /\ l.part \in Parts
  BY DEF TypeOK, Loaded, LoadRecords
<1>2. Answer(l) \in Contents
  BY <1>1 DEF Answer, Contents, Assignable, LoadRecords
<1>3. shown' = [shown EXCEPT ![l.part] = Answer(l)] /\ shown \in [Parts -> Contents]
  BY DEF Loaded, Answer, TypeOK, Contents
<1> QED
  BY <1>1, <1>2, <1>3 DEF Loaded

LEMMA ServedRecords ==
    ASSUME TypeOK
    PROVE  /\ \A l \in loads, items \in SUBSET Items : Served(l, version, items) \in LoadRecords
           /\ \A c \in changes, i \in Items : Done(c, i, version + 1) \in ChangeRecords
           /\ \A op \in AllOps, i \in Items \cup {"new"} : Change(op, i, asked + 1) \in ChangeRecords
  BY DEF TypeOK, Served, Done, Change, LoadRecords, ChangeRecords

LEMMA TypeInit ==
    ASSUME Init
    PROVE  TypeOK
<1>1. Load("list", 1, "none", {}) \in LoadRecords
  BY DEF Load, LoadRecords, Parts
<1> QED
  BY <1>1, ListPagesAssumption DEF Init, TypeOK, Contents

LEMMA SubmitType ==
    ASSUME TypeOK, NEW op, NEW i, Submit(op, i)
    PROVE  TypeOK'
<1>1. op \in AllOps
  BY OpKinds DEF Submit, TypeOK
<1>2. i \in Items \cup {"new"}
  <2>1. shown["all"].items \subseteq Items /\ shown["list"].items \subseteq Items
    BY DEF TypeOK, Parts
  <2> QED
    BY <2>1 DEF Submit, Offered
<1>3. changes' \in SUBSET ChangeRecords
  BY <1>1, <1>2, ServedRecords DEF Submit, TypeOK
<1>4. loads' \in SUBSET LoadRecords /\ latest' \in [Parts -> Nat] /\ asked' \in Nat
  BY NewLoads, SMTT(40) DEF Submit, TypeOK
<1>5. acts' \in 0..MaxActs
  BY ListPagesAssumption DEF Submit, UserActs, TypeOK
<1> QED
  BY <1>3, <1>4, <1>5 DEF Submit, TypeOK, page_state, history

LEMMA MessageLoadedType ==
    ASSUME TypeOK, NEW m \in Messages, MessageLoaded(m)
    PROVE  TypeOK'
<1>1. Load("match", asked + 1, m, {}) \in LoadRecords
  BY DEF Load, LoadRecords, Parts, TypeOK
<1>2. latest' \in [Parts -> Nat] /\ asked' \in Nat
  BY DEF MessageLoaded, TypeOK, Parts
<1>3. acts' \in 0..MaxActs
  BY ListPagesAssumption DEF MessageLoaded, UserActs, TypeOK
<1> QED
  BY <1>1, <1>2, <1>3 DEF MessageLoaded, TypeOK, history

LEMMA ServeChangeType ==
    ASSUME TypeOK, NEW c \in changes, ServeChange(c)
    PROVE  TypeOK'
<1>1. c.op.do \in Dos /\ c.item \in Items \cup {"new"}
  BY OpKinds DEF TypeOK, ChangeRecords
<1>2. PICK e \in Effects(c.op.do, c.item) :
        /\ server' = e.lists /\ version' = version + 1
        /\ changes' = (changes \ {c}) \cup {Done(c, e.item, version + 1)}
        /\ created' = Forgiven(server, server')
  BY DEF ServeChange
<1>3. e.lists \in Lists /\ e.item \in Items
  BY <1>1, <1>2, EffectsType DEF TypeOK
<1>4. Done(c, e.item, version + 1) \in ChangeRecords
  BY <1>3, ServedRecords
<1>5. created' \in SUBSET Items
  BY <1>2 DEF Forgiven, TypeOK
<1> QED
  BY <1>2, <1>3, <1>4, <1>5 DEF ServeChange, TypeOK, page_state

LEMMA OthersChangeType ==
    ASSUME TypeOK, OthersChange
    PROVE  TypeOK'
<1>1. PICK op \in OpsOf[page], i \in Items : \E e \in Effects(op.do, i) :
        server' = e.lists /\ created' = Forgiven(server, server')
  BY DEF OthersChange
<1>2. op.do \in Dos
  BY OpKinds DEF TypeOK
<1>3. server' \in Lists
  BY <1>1, <1>2, EffectsType DEF TypeOK
<1>4. created' \in SUBSET Items
  BY <1>1 DEF Forgiven, TypeOK
<1>5. acts' \in 0..MaxActs
  BY ListPagesAssumption DEF OthersChange, UserActs, TypeOK
<1> QED
  BY <1>3, <1>4, <1>5 DEF OthersChange, TypeOK, page_state

LEMMA ServeLoadType ==
    ASSUME TypeOK, NEW l \in loads, ServeLoad(l)
    PROVE  TypeOK'
<1>1. server.all \subseteq Items /\ server.list \subseteq Items
  BY DEF TypeOK, Lists
<1>2. Served(l, version, IF l.part = "all" THEN server.all ELSE server.list) \in LoadRecords
  BY <1>1, ServedRecords
<1> QED
  BY <1>2 DEF ServeLoad, TypeOK, page_state, history

LEMMA ChangeDoneType ==
    ASSUME TypeOK, NEW c \in changes, ChangeDone(c)
    PROVE  TypeOK'
<1>1. /\ c.version \in Nat /\ c.item \in Items \cup {"new"} /\ c.op.reload \in Reloads
      /\ server.all \subseteq Items
  BY OpKinds DEF TypeOK, ChangeRecords, Lists
<1>2. UNCHANGED <<page, server, version, page_state, told, acts>>
  BY DEF ChangeDone
<1>3. CASE Reload(c)
  <2>3. asked + 1 \in Nat
    BY DEF TypeOK
  <2>4. LoadData(asked + 1) \subseteq LoadRecords /\ LatestAfter(asked + 1) \in [Parts -> Nat]
    BY <2>3, NewLoads
  <2>1. loads' \in SUBSET LoadRecords /\ latest' \in [Parts -> Nat] /\ asked' \in Nat
    BY <1>3, <2>3, <2>4 DEF Reload, TypeOK
  <2>2. wrote' \in Nat
    BY <1>1, <1>3 DEF Reload, Later, TypeOK
  <2> QED
    BY <1>2, <1>3, <2>1, <2>2 DEF Reload, TypeOK, page_state
<1>4. CASE AssignCreated(c)
  <2>1. Change(Op("assign", "answered"), c.item, asked + 1) \in ChangeRecords
    BY <1>1, OpKinds, ServedRecords
  <2> QED
    BY <1>1, <1>2, <1>4, <2>1 DEF AssignCreated, TypeOK, page_state
<1>5. CASE NothingElse(c)
  <2>1. updated' \in Nat
    BY <1>1, <1>5 DEF NothingElse, Later, TypeOK
  <2> QED
    BY <1>2, <1>5, <2>1 DEF NothingElse, TypeOK, page_state
<1> QED
  BY <1>1, <1>3, <1>4, <1>5 DEF ChangeDone, Reloads

LEMMA FailuresType ==
    ASSUME TypeOK, \/ \E c \in changes : ChangeFailed(c)
                   \/ \E l \in loads : LoadFailed(l)
    PROVE  TypeOK'
<1>1. ASSUME NEW c \in changes, ChangeFailed(c)
      PROVE  TypeOK'
  <2>1. told' \in SUBSET (Items \cup {"new"}) /\ changes' \in SUBSET ChangeRecords
    BY <1>1 DEF ChangeFailed, TypeOK, ChangeRecords
  <2> QED
    BY <1>1, <2>1 DEF ChangeFailed, TypeOK, page_state
<1>2. ASSUME NEW l \in loads, LoadFailed(l)
      PROVE  TypeOK'
  BY <1>2 DEF LoadFailed, TypeOK, page_state, history
<1> QED
  BY <1>1, <1>2

LEMMA LoadedType ==
    ASSUME TypeOK, NEW l \in loads, Loaded(l)
    PROVE  TypeOK'
<1>1. loads' \in SUBSET LoadRecords
  BY LoadedShows, NewAssignable DEF TypeOK
<1> QED
  BY <1>1, LoadedShows DEF TypeOK, Contents, history

LEMMA TypeStep ==
    ASSUME TypeOK, [Next]_vars
    PROVE  TypeOK'
<1>1. CASE Next
  BY <1>1, SubmitType, MessageLoadedType, OthersChangeType, ServeChangeType, ChangeDoneType,
     ServeLoadType, LoadedType, FailuresType DEF Next
<1>2. CASE UNCHANGED vars
  BY <1>2 DEF vars, TypeOK, page_state, history
<1> QED
  BY <1>1, <1>2

\* The type invariant, for any items and messages, and any number of requests.
THEOREM TypeCorrect == Spec => []TypeOK
  BY TypeInit, TypeStep, PTL DEF Spec

-----------------------------------------------------------------------------
(* Outputs launched from the page of a stream.  Until the server has       *)
(* assigned one, the page's request to do so is still to be served: a      *)
(* request served and not yet answered is no comfort.                      *)

ToBeAssigned(i) == \E c \in changes : c.op.do = "assign" /\ c.item = i /\ c.outcome = "open"
LaunchedInv == \A i \in created : i \in server.list \/ i \in told \/ ToBeAssigned(i)

LEMMA LaunchedServe ==
    ASSUME TypeOK, LaunchedInv, NEW c \in changes, ServeChange(c)
    PROVE  LaunchedInv'
<1>1. c.op.do \in Dos /\ c.item \in Items \cup {"new"}
  BY OpKinds DEF TypeOK, ChangeRecords
<1>2. PICK e \in Effects(c.op.do, c.item) :
        /\ server' = e.lists
        /\ changes' = (changes \ {c}) \cup {Done(c, e.item, version + 1)}
        /\ created' = Forgiven(server, server')
  BY DEF ServeChange
<1>3. c.op.do = "assign" => c.item \in server'.list
  BY <1>1, <1>2, EffectsType DEF TypeOK
<1>4. told' = told
  BY DEF ServeChange
<1>5. ASSUME NEW i \in created'
      PROVE  (i \in server.list \/ i \in told \/ ToBeAssigned(i))'
  <2>1. i \in created /\ i \notin server.list \ server'.list
    BY <1>2, <1>5 DEF Forgiven
  <2>2. CASE i \in server.list \/ i \in told
    BY <1>4, <2>1, <2>2
  <2>3. CASE ToBeAssigned(i)
    <3>1. PICK d \in changes : d.op.do = "assign" /\ d.item = i /\ d.outcome = "open"
      BY <2>3 DEF ToBeAssigned
    <3>2. CASE d = c
      BY <1>3, <3>1, <3>2
    <3>3. CASE d # c
      BY <1>2, <3>1, <3>3 DEF ToBeAssigned
    <3> QED
      BY <3>2, <3>3
  <2> QED
    BY <2>1, <2>2, <2>3 DEF LaunchedInv
<1> QED
  BY <1>5 DEF LaunchedInv

LEMMA LaunchedAnswer ==
    ASSUME TypeOK, LaunchedInv, NEW c \in changes, ChangeDone(c) \/ ChangeFailed(c)
    PROVE  LaunchedInv'
<1>1. CASE ChangeDone(c)
  <2>1. c.outcome # "open" /\ UNCHANGED <<server, told>>
    BY <1>1 DEF ChangeDone
  <2>2. \A d \in changes : d.outcome = "open" => d \in changes'
    BY <1>1, <2>1, OpKinds DEF ChangeDone, Reload, AssignCreated, NothingElse, TypeOK, ChangeRecords, Reloads
  <2>3. \A i : ToBeAssigned(i) => ToBeAssigned(i)'
    BY <2>2 DEF ToBeAssigned
  <2>4. \A i \in created' : i \in created \/ ToBeAssigned(i)'
    <3>1. CASE AssignCreated(c)
      <4>1. Change(Op("assign", "answered"), c.item, asked + 1) \in changes'
        BY <3>1 DEF AssignCreated
      <4>2. ToBeAssigned(c.item)'
        BY <4>1 DEF ToBeAssigned, Change, Op
      <4> QED
        BY <3>1, <4>2 DEF AssignCreated
    <3>2. CASE Reload(c) \/ NothingElse(c)
      BY <3>2 DEF Reload, NothingElse
    <3> QED
      BY <1>1, <3>1, <3>2, OpKinds DEF ChangeDone, TypeOK, ChangeRecords, Reloads
  <2> QED
    BY <2>1, <2>3, <2>4 DEF LaunchedInv
<1>2. CASE ChangeFailed(c)
  <2>1. changes' = changes \ {c} /\ UNCHANGED <<server, created>> /\ told \subseteq told'
        /\ (c.op.do = "assign" => c.item \in told')
    BY <1>2 DEF ChangeFailed
  <2>2. \A i : ToBeAssigned(i) => ToBeAssigned(i)' \/ i \in told'
    BY <2>1 DEF ToBeAssigned
  <2> QED
    BY <2>1, <2>2 DEF LaunchedInv
<1> QED
  BY <1>1, <1>2

LEMMA LaunchedStep ==
    ASSUME TypeOK, LaunchedInv, [Next]_vars
    PROVE  LaunchedInv'
<1>1. ASSUME NEW op, NEW i, Submit(op, i)
      PROVE  LaunchedInv'
  BY <1>1 DEF Submit, LaunchedInv, ToBeAssigned, history
<1>2. CASE OthersChange
  <2>1. created' = Forgiven(server, server') /\ UNCHANGED <<changes, told>>
    BY <1>2 DEF OthersChange
  <2> QED
    BY <2>1 DEF Forgiven, LaunchedInv, ToBeAssigned
<1>3. CASE \/ \E m \in Messages : MessageLoaded(m)
           \/ \E l \in loads : ServeLoad(l) \/ Loaded(l) \/ LoadFailed(l)
           \/ UNCHANGED vars
  <2>1. UNCHANGED <<server, changes, created, told>>
    BY <1>3 DEF MessageLoaded, ServeLoad, Loaded, LoadFailed, vars, history
  <2> QED
    BY <2>1 DEF LaunchedInv, ToBeAssigned
<1> QED
  BY <1>1, <1>2, <1>3, LaunchedServe, LaunchedAnswer DEF Next

\* An output launched from the page of a stream is the stream's, or about to be,
\* or the user was told: with any number of outputs launched, and whatever
\* others do (OutputsComponent._handleCreateOutput).
THEOREM LaunchedIsAssignedOrToldHolds == Spec => []LaunchedIsAssignedOrTold
<1>1. Init => LaunchedInv
  BY DEF Init, LaunchedInv
<1>2. TypeOK /\ LaunchedInv /\ [Next]_vars => LaunchedInv'
  BY LaunchedStep
<1>3. LaunchedInv => LaunchedIsAssignedOrTold
  BY DEF LaunchedInv, LaunchedIsAssignedOrTold, ToBeAssigned
<1> QED
  BY <1>1, <1>2, <1>3, TypeCorrect, PTL DEF Spec

-----------------------------------------------------------------------------
(* The page reads what it wrote.  When a change is confirmed, every part   *)
(* that is loaded is loaded again, so that no load which is under way and  *)
(* no answer which is shown is the last one any more.                      *)

Current(p, no, v, about) ==
    no = latest[p] /\ latest[p] > 0 => (v > 0 => v >= wrote) /\ (p = "match" => about = message)
Numbered ==
    /\ \A l \in loads : l.no <= asked
    /\ \A p \in Parts : shown[p].no <= asked
Versions == wrote <= version /\ \A c \in changes : c.version <= version
FreshInv ==
    /\ Numbered /\ Versions
    /\ message = "none" => latest["match"] = 0
    /\ \A l \in loads : Current(l.part, l.no, l.version, l.about)
    /\ \A p \in Parts : /\ Current(p, shown[p].no, shown[p].version, shown[p].about)
                        /\ shown[p].no > 0 => shown[p].version > 0

\* After all parts are loaded anew, nothing else is the last load of its part.
LEMMA FreshReload ==
    ASSUME TypeOK, TypeOK', FreshInv, Versions', asked' = asked + 1, latest' = LatestAfter(asked + 1),
           loads' = loads \cup LoadData(asked + 1), UNCHANGED page_state
    PROVE  FreshInv'
<1> DEFINE n == asked + 1
<1>1. /\ n \in Nat /\ asked \in Nat /\ latest \in [Parts -> Nat] /\ latest' = LatestAfter(n)
      /\ loads' = loads \cup LoadData(n) /\ asked' = n /\ shown' = shown /\ message' = message
      /\ shown \in [Parts -> Contents] /\ loads \subseteq LoadRecords
  BY DEF TypeOK, page_state, Contents
<1>2. n > asked /\ n > 0
  BY <1>1
<1> HIDE DEF n
<1>3. /\ \A l \in LoadData(n) : /\ l.no = n /\ l.version = 0 /\ l.part \in {"list", "match"}
                                /\ l.part = "match" => message # "none" /\ l.about = message
      /\ latest'["list"] = n /\ latest'["all"] = n
      /\ latest'["match"] = IF message = "none" THEN latest["match"] ELSE n
  BY <1>1, NewLoads
<1>4. Numbered'
  <2>1. \A l \in loads' : l.no <= asked'
    BY <1>1, <1>2, <1>3 DEF FreshInv, Numbered, LoadRecords
  <2>2. \A p \in Parts : shown'[p].no <= asked'
    BY <1>1, <1>2 DEF FreshInv, Numbered, Contents
  <2> QED
    BY <2>1, <2>2 DEF Numbered
<1>5. ASSUME NEW p \in Parts, NEW no \in Nat, no <= asked
      PROVE  no = latest'[p] => latest'[p] = 0
  BY <1>1, <1>2, <1>3, <1>5 DEF FreshInv, Parts
<1>6. \A l \in loads' : Current(l.part, l.no, l.version, l.about)'
  <2>1. ASSUME NEW l \in loads
        PROVE  Current(l.part, l.no, l.version, l.about)'
    <3>1. l.part \in Parts /\ l.no \in Nat /\ l.no <= asked
      BY <1>1 DEF FreshInv, Numbered, LoadRecords
    <3> QED
      BY <3>1, <1>5 DEF Current
  <2>2. ASSUME NEW l \in LoadData(n)
        PROVE  Current(l.part, l.no, l.version, l.about)'
    BY <1>1, <1>3 DEF Current
  <2> QED
    BY <1>1, <2>1, <2>2
<1>7. \A p \in Parts : Current(p, shown[p].no, shown[p].version, shown[p].about)'
  <2> SUFFICES ASSUME NEW p \in Parts
               PROVE  Current(p, shown[p].no, shown[p].version, shown[p].about)'
    OBVIOUS
  <2>1. shown[p].no \in Nat /\ shown[p].no <= asked /\ shown'[p] = shown[p]
    BY <1>1 DEF FreshInv, Numbered, Contents
  <2> QED
    BY <2>1, <1>5 DEF Current
<1>8. message' = "none" => latest'["match"] = 0
  BY <1>1, <1>3 DEF FreshInv
<1> QED
  BY <1>1, <1>4, <1>6, <1>7, <1>8 DEF FreshInv

\* Steps that neither load nor show anything.
LEMMA FreshOtherwise ==
    ASSUME TypeOK, TypeOK', FreshInv, Versions', asked' >= asked, loads' \subseteq loads, wrote' = wrote,
           UNCHANGED <<latest, page_state>>
    PROVE  FreshInv'
<1>1. Numbered'
  BY DEF FreshInv, Numbered, TypeOK, LoadRecords, page_state
<1> QED
  BY <1>1 DEF FreshInv, Current, page_state

LEMMA FreshServeLoad ==
    ASSUME TypeOK, TypeOK', FreshInv, NEW l \in loads, ServeLoad(l)
    PROVE  FreshInv'
<1> DEFINE m == Served(l, version, IF l.part = "all" THEN server.all ELSE server.list)
<1>1. /\ loads' = (loads \ {l}) \cup {m}
      /\ UNCHANGED <<page, server, version, changes, page_state, latest, asked, wrote>>
  BY DEF ServeLoad, history
<1>2. m.no = l.no /\ m.part = l.part /\ m.about = l.about /\ m.version = version
  BY DEF Served
<1> HIDE DEF m
<1>3. Versions' /\ Numbered'
  BY <1>1, <1>2 DEF FreshInv, Versions, Numbered, page_state
<1>4. Current(m.part, m.no, m.version, m.about)
  BY <1>2 DEF FreshInv, Current, Versions, TypeOK
<1> QED
  BY <1>1, <1>3, <1>4 DEF FreshInv, Current, page_state

LEMMA FreshLoaded ==
    ASSUME TypeOK, TypeOK', FreshInv, NEW l \in loads, Loaded(l)
    PROVE  FreshInv'
<1>1. /\ l \in LoadRecords /\ l.version > 0 /\ l.part \in Parts
      /\ shown'[l.part] = Answer(l)
      /\ \A p \in Parts \ {l.part} : shown'[p] = shown[p]
      /\ loads' = (loads \ {l}) \cup FetchAssignable(l)
      /\ UNCHANGED <<version, changes, latest, asked, message, wrote>>
  BY LoadedShows DEF history
<1>2. \A a \in FetchAssignable(l) : a.part = "all" /\ a.no = l.no /\ a.version = 0
  BY <1>1, NewAssignable
<1>3. Answer(l).no = l.no /\ Answer(l).version = l.version /\ Answer(l).about = l.about
  BY DEF Answer
<1>4. Numbered' /\ Versions'
  <2>1. \A p \in Parts : shown'[p].no <= asked
    BY <1>1, <1>3 DEF FreshInv, Numbered
  <2> QED
    BY <1>1, <1>2, <2>1 DEF FreshInv, Numbered, Versions
<1>5. \A a \in loads' : Current(a.part, a.no, a.version, a.about)'
  BY <1>1, <1>2 DEF FreshInv, Current
<1>6. ASSUME NEW p \in Parts
      PROVE  /\ Current(p, shown[p].no, shown[p].version, shown[p].about)'
             /\ shown'[p].no > 0 => shown'[p].version > 0
  <2>1. CASE p = l.part
    BY <2>1, <1>1, <1>3 DEF FreshInv, Current
  <2>2. CASE p # l.part
    BY <2>2, <1>1 DEF FreshInv, Current
  <2> QED
    BY <2>1, <2>2
<1> QED
  BY <1>1, <1>4, <1>5, <1>6 DEF FreshInv

LEMMA FreshMessage ==
    ASSUME TypeOK, TypeOK', FreshInv, NEW m \in Messages, MessageLoaded(m)
    PROVE  FreshInv'
<1> DEFINE new == Load("match", asked + 1, m, {})
<1>1. /\ message' = m /\ m # "none" /\ asked' = asked + 1 /\ loads' = loads \cup {new}
      /\ latest' = [latest EXCEPT !["match"] = asked + 1]
      /\ UNCHANGED <<version, changes, shown, wrote>>
  BY ListPagesAssumption DEF MessageLoaded, history
<1>2. new.part = "match" /\ new.no = asked + 1 /\ new.about = m /\ new.version = 0
  BY DEF Load
<1> HIDE DEF new
<1>3. /\ asked \in Nat /\ latest'["match"] = asked + 1
      /\ latest'["list"] = latest["list"] /\ latest'["all"] = latest["all"]
  BY <1>1 DEF TypeOK, Parts
<1>4. Numbered' /\ Versions'
  BY <1>1, <1>2, <1>3 DEF FreshInv, Numbered, Versions, TypeOK, LoadRecords
<1>5. ASSUME NEW l \in loads'
      PROVE  Current(l.part, l.no, l.version, l.about)'
  <2>1. CASE l = new
    BY <1>1, <1>2, <2>1 DEF Current
  <2>2. CASE l \in loads
    <3>1. l.part \in Parts /\ l.no \in Nat /\ l.no <= asked
      BY <2>2 DEF FreshInv, Numbered, TypeOK, LoadRecords
    <3> QED
      BY <1>1, <1>3, <2>2, <3>1 DEF FreshInv, Current, Parts
  <2> QED
    BY <1>1, <2>1, <2>2
<1>6. ASSUME NEW p \in Parts
      PROVE  Current(p, shown[p].no, shown[p].version, shown[p].about)'
  <2>1. shown[p].no \in Nat /\ shown[p].no <= asked
    BY DEF FreshInv, Numbered, TypeOK
  <2> QED
    BY <1>1, <1>3, <2>1 DEF FreshInv, Current, Parts
<1> QED
  BY <1>1, <1>4, <1>5, <1>6 DEF FreshInv

LEMMA FreshChange ==
    ASSUME TypeOK, TypeOK', FreshInv, NEW c \in changes,
           ServeChange(c) \/ ChangeDone(c) \/ ChangeFailed(c)
    PROVE  FreshInv'
<1>1. CASE ServeChange(c)
  <2>1. \E e : changes' = (changes \ {c}) \cup {Done(c, e, version + 1)} /\ version' = version + 1
    BY <1>1 DEF ServeChange
  <2>2. \A d \in changes' : d.version <= version + 1
    BY <2>1 DEF FreshInv, Versions, Done, TypeOK, ChangeRecords
  <2>3. wrote' = wrote /\ UNCHANGED <<loads, latest, page_state, asked>>
    BY <1>1 DEF ServeChange
  <2>4. Versions'
    BY <2>1, <2>2, <2>3 DEF FreshInv, Versions, TypeOK
  <2> QED
    BY <2>3, <2>4, FreshOtherwise DEF TypeOK
<1>2. CASE ChangeDone(c)
  <2>1. UNCHANGED <<version, page_state>> /\ c.version \in Nat /\ c.version <= version
    BY <1>2 DEF ChangeDone, FreshInv, Versions, TypeOK, ChangeRecords
  <2>2. CASE Reload(c)
    <3>1. Versions'
      BY <2>1, <2>2 DEF Reload, Later, FreshInv, Versions
    <3> QED
      BY <2>1, <2>2, <3>1, FreshReload DEF Reload
  <2>3. CASE AssignCreated(c)
    <3>1. changes' = (changes \ {c}) \cup {Change(Op("assign", "answered"), c.item, asked + 1)}
      BY <2>3 DEF AssignCreated
    <3>2. \A d \in changes' : d.version <= version
      BY <3>1 DEF FreshInv, Versions, Change, TypeOK
    <3>3. Versions'
      BY <2>1, <2>3, <3>2 DEF AssignCreated, FreshInv, Versions
    <3> QED
      BY <2>1, <2>3, <3>3, FreshOtherwise DEF AssignCreated, TypeOK
  <2>4. CASE NothingElse(c)
    <3>1. Versions'
      BY <2>1, <2>4 DEF NothingElse, FreshInv, Versions
    <3> QED
      BY <2>1, <2>4, <3>1, FreshOtherwise DEF NothingElse, TypeOK
  <2> QED
    BY <1>2, <2>2, <2>3, <2>4, OpKinds DEF ChangeDone, TypeOK, ChangeRecords, Reloads
<1>3. CASE ChangeFailed(c)
  <2>1. Versions'
    BY <1>3 DEF ChangeFailed, FreshInv, Versions
  <2> QED
    BY <1>3, <2>1, FreshOtherwise DEF ChangeFailed, TypeOK
<1> QED
  BY <1>1, <1>2, <1>3

LEMMA FreshSubmit ==
    ASSUME TypeOK, TypeOK', FreshInv, NEW op, NEW i, Submit(op, i)
    PROVE  FreshInv'
<1>1. /\ changes' = changes \cup {Change(op, i, asked + 1)} /\ asked' = asked + 1
      /\ UNCHANGED <<version, page_state, wrote>>
  BY DEF Submit, history
<1>2. Versions'
  BY <1>1 DEF FreshInv, Versions, Change, TypeOK
<1>3. CASE op.reload = "sent"
  BY <1>1, <1>2, <1>3, FreshReload DEF Submit
<1>4. CASE op.reload # "sent"
  BY <1>1, <1>2, <1>4, FreshOtherwise DEF Submit, TypeOK
<1> QED
  BY <1>3, <1>4

LEMMA FreshStep ==
    ASSUME TypeOK, TypeOK', FreshInv, [Next]_vars
    PROVE  FreshInv'
<1>1. ASSUME NEW op, NEW i, Submit(op, i)
      PROVE  FreshInv'
  BY <1>1, FreshSubmit
<1>2. CASE OthersChange
  <2>1. version' = version + 1 /\ UNCHANGED <<changes, loads, page_state, latest, asked, wrote>>
    BY <1>2 DEF OthersChange
  <2>2. Versions'
    BY <2>1 DEF FreshInv, Versions, TypeOK, ChangeRecords
  <2> QED
    BY <2>1, <2>2, FreshOtherwise DEF TypeOK
<1>3. ASSUME NEW l \in loads, LoadFailed(l)
      PROVE  FreshInv'
  <2>1. loads' = loads \ {l} /\ UNCHANGED <<version, changes, page_state, latest, asked, wrote>>
    BY <1>3 DEF LoadFailed, history
  <2> QED
    BY <2>1, FreshOtherwise DEF FreshInv, Versions, TypeOK
<1>4. CASE UNCHANGED vars
  <2>1. UNCHANGED <<loads, changes, version, latest, asked, wrote, page_state>>
    BY <1>4 DEF vars, history, page_state
  <2>2. Versions' /\ asked' >= asked
    BY <2>1 DEF FreshInv, Versions, TypeOK
  <2> QED
    BY <2>1, <2>2, FreshOtherwise
<1> QED
  BY <1>1, <1>2, <1>3, <1>4, FreshMessage, FreshChange, FreshServeLoad, FreshLoaded DEF Next

\* What a page shows, if it is the answer to its last load, is not older than
\* any change that was confirmed to it; and the match is that of the message in
\* the editor (the stores' _emitChange, and loadData of the components).
THEOREM ReadsItsWritesHolds == Spec => []ReadsItsWrites
<1>1. Init => FreshInv
  <2> SUFFICES ASSUME Init
               PROVE  FreshInv
    OBVIOUS
  <2>1. \A l \in loads : l.no = 1 /\ l.version = 0 /\ l.part = "list"
    BY DEF Init, Load
  <2>2. \A p \in Parts : shown[p].no = 0
    BY DEF Init
  <2>3. \A p \in Parts : latest[p] = 0 \/ latest[p] = 1
    BY DEF Init
  <2>4. asked = 1 /\ wrote = 0 /\ version = 1 /\ changes = {} /\ message = "none" /\ latest["match"] = 0
    BY DEF Init, Parts
  <2> QED
    BY <2>1, <2>2, <2>3, <2>4 DEF FreshInv, Numbered, Versions, Current
<1>2. TypeOK /\ TypeOK' /\ FreshInv /\ [Next]_vars => FreshInv'
  BY FreshStep
<1>3. TypeOK /\ FreshInv => ReadsItsWrites
  BY DEF FreshInv, Current, ReadsItsWrites, TypeOK
<1> QED
  BY <1>1, <1>2, <1>3, TypeCorrect, PTL DEF Spec

-----------------------------------------------------------------------------
(* What can be assigned is not assigned.  The list that was asked for is   *)
(* answered once, and all outputs are asked for after it, with what it     *)
(* held: while it is awaited nothing with its number is shown.             *)

Awaited(no) == \E l \in loads : l.part = "list" /\ l.no = no
RestInv ==
    /\ latest["list"] = latest["all"]
    /\ Numbered
    /\ \A l, m \in loads : l.part = "list" /\ m.part = "list" /\ l.no = m.no => l = m
    /\ ~Awaited(shown["list"].no) /\ ~Awaited(shown["all"].no)
    /\ \A a \in loads : a.part = "all" =>
         /\ ~Awaited(a.no)
         /\ a.no = shown["list"].no => a.known = shown["list"].items
    /\ shown["list"].no = shown["all"].no => shown["all"].items \cap shown["list"].items = {}

LEMMA RestReload ==
    ASSUME TypeOK, RestInv, asked' = asked + 1, latest' = LatestAfter(asked + 1),
           loads' = loads \cup LoadData(asked + 1), UNCHANGED page_state
    PROVE  RestInv'
<1> DEFINE n == asked + 1
<1>1. /\ n \in Nat /\ asked \in Nat /\ latest' = LatestAfter(n) /\ loads' = loads \cup LoadData(n)
      /\ asked' = n /\ shown' = shown /\ n > asked
      /\ \A l \in loads : l.no \in Nat /\ l.no <= asked
      /\ \A p \in Parts : shown[p].no \in Nat /\ shown[p].no <= asked
  BY DEF TypeOK, page_state, RestInv, Numbered, LoadRecords
<1> HIDE DEF n
<1>2. /\ \A l \in LoadData(n) : l.no = n /\ l.part \in {"list", "match"}
      /\ \A l, m \in LoadData(n) : l.part = m.part => l = m
      /\ latest'["list"] = n /\ latest'["all"] = n
  BY <1>1, NewLoads
<1>3. \A no \in Nat : no <= asked => (Awaited(no)' => Awaited(no))
  BY <1>1, <1>2 DEF Awaited
<1>4. Numbered'
  BY <1>1, <1>2 DEF Numbered
<1>5. \A l, m \in loads' : l.part = "list" /\ m.part = "list" /\ l.no = m.no => l = m
  <2>1. ASSUME NEW l \in loads', NEW m \in loads', l.part = "list", m.part = "list", l.no = m.no
        PROVE  l = m
    <3>1. CASE l \in loads /\ m \in loads
      BY <2>1, <3>1 DEF RestInv
    <3>2. CASE l \in LoadData(n) /\ m \in LoadData(n)
      BY <2>1, <3>2, <1>2
    <3>3. CASE (l \in loads /\ m \in LoadData(n)) \/ (l \in LoadData(n) /\ m \in loads)
      BY <2>1, <3>3, <1>1, <1>2
    <3>4. l \in loads \cup LoadData(n) /\ m \in loads \cup LoadData(n)
      BY <2>1, <1>1
    <3> QED
      BY <3>1, <3>2, <3>3, <3>4
  <2> QED
    BY <2>1
<1>6. ~Awaited(shown["list"].no)' /\ ~Awaited(shown["all"].no)'
  BY <1>1, <1>3 DEF RestInv, Parts
<1>7. \A a \in loads' : a.part = "all" => a \in loads
  BY <1>1, <1>2
<1>8. \A a \in loads' : a.part = "all" =>
        ~Awaited(a.no)' /\ (a.no = shown["list"].no => a.known = shown["list"].items)
  BY <1>1, <1>3, <1>7 DEF RestInv
<1> QED
  BY <1>1, <1>2, <1>4, <1>5, <1>6, <1>8 DEF RestInv

LEMMA RestServeLoad ==
    ASSUME TypeOK, RestInv, NEW l \in loads, ServeLoad(l)
    PROVE  RestInv'
<1> DEFINE m == Served(l, version, IF l.part = "all" THEN server.all ELSE server.list)
<1>1. loads' = (loads \ {l}) \cup {m} /\ UNCHANGED <<shown, latest, asked>>
  BY DEF ServeLoad, page_state
<1>2. m.no = l.no /\ m.part = l.part /\ m.known = l.known
  BY DEF Served
<1> HIDE DEF m
<1>3. \A no : Awaited(no)' <=> Awaited(no)
  BY <1>1, <1>2 DEF Awaited
<1>4. \A a, b \in loads' : a.part = "list" /\ b.part = "list" /\ a.no = b.no => a = b
  BY <1>1, <1>2 DEF RestInv
<1>5. \A a \in loads' : a.part = "all" =>
        ~Awaited(a.no)' /\ (a.no = shown["list"].no => a.known = shown["list"].items)
  BY <1>1, <1>2, <1>3 DEF RestInv
<1>6. Numbered'
  BY <1>1, <1>2 DEF RestInv, Numbered
<1> QED
  BY <1>1, <1>3, <1>4, <1>5, <1>6 DEF RestInv

LEMMA RestLoaded ==
    ASSUME TypeOK, RestInv, NEW l \in loads, Loaded(l)
    PROVE  RestInv'
<1>1. /\ l \in LoadRecords /\ l.version > 0 /\ l.part \in Parts
      /\ shown'[l.part] = Answer(l)
      /\ \A p \in Parts \ {l.part} : shown'[p] = shown[p]
      /\ loads' = (loads \ {l}) \cup FetchAssignable(l)
      /\ UNCHANGED <<latest, asked>>
  BY LoadedShows
<1>2. \A a \in FetchAssignable(l) : a.part = "all" /\ a.no = l.no /\ a.known = l.items /\ l.part = "list"
  BY <1>1, NewAssignable
<1>3. Answer(l).no = l.no /\ Answer(l).items = Assignable(l)
  BY DEF Answer
<1>4. Numbered'
  <2>1. \A p \in Parts : shown'[p].no <= asked
    BY <1>1, <1>3 DEF RestInv, Numbered
  <2> QED
    BY <1>1, <1>2, <2>1 DEF RestInv, Numbered
<1>5. \A no : Awaited(no)' => Awaited(no)
  BY <1>1, <1>2 DEF Awaited
<1>6. \A b \in loads' : b.part = "list" => b \in loads /\ (l.part = "list" => b.no # l.no)
  BY <1>1, <1>2 DEF RestInv
<1>7. \A a, b \in loads' : a.part = "list" /\ b.part = "list" /\ a.no = b.no => a = b
  BY <1>1, <1>2 DEF RestInv
<1>8. CASE l.part = "list"
  <2>1. shown'["list"].no = l.no /\ shown'["list"].items = l.items /\ shown'["all"] = shown["all"]
    BY <1>1, <1>3, <1>8 DEF Assignable, Parts
  <2>2. Awaited(l.no)
    BY <1>8 DEF Awaited
  <2>3. shown["all"].no # l.no /\ \A a \in loads : a.part = "all" => a.no # l.no
    BY <2>2 DEF RestInv
  <2>4. \A a \in loads' : a.part = "all" =>
          /\ \A b \in loads' : b.part = "list" => b.no # a.no
          /\ a.no = l.no => a.known = l.items
    <3>1. \A a \in loads' : a.part = "all" => a \in loads \/ (a.no = l.no /\ a.known = l.items)
      BY <1>1, <1>2
    <3>2. \A a \in loads, b \in loads : a.part = "all" /\ b.part = "list" => b.no # a.no
      BY DEF RestInv, Awaited
    <3> QED
      BY <1>6, <1>8, <2>3, <3>1, <3>2
  <2>5. \A b \in loads' : b.part = "list" => b.no # l.no /\ b.no # shown["all"].no
    BY <1>6, <1>8 DEF RestInv, Awaited
  <2> QED
    BY <1>1, <1>4, <1>7, <2>1, <2>3, <2>4, <2>5 DEF RestInv, Awaited
<1>9. CASE l.part = "all"
  <2>1. /\ shown'["all"].no = l.no /\ shown'["all"].items = l.items \ l.known
        /\ shown'["list"] = shown["list"]
    BY <1>1, <1>3, <1>9 DEF Assignable, Parts
  <2>2. loads' \subseteq loads
    BY <1>1, <1>2, <1>9
  <2>3. ~Awaited(l.no) /\ (l.no = shown["list"].no => l.known = shown["list"].items)
    BY <1>9 DEF RestInv
  <2> QED
    BY <1>1, <1>4, <1>5, <1>7, <2>1, <2>2, <2>3 DEF RestInv
<1>10. CASE l.part = "match"
  <2>1. shown'["all"] = shown["all"] /\ shown'["list"] = shown["list"] /\ loads' \subseteq loads
    BY <1>1, <1>2, <1>10 DEF Parts
  <2> QED
    BY <1>1, <1>4, <1>5, <1>7, <2>1 DEF RestInv
<1> QED
  BY <1>1, <1>8, <1>9, <1>10 DEF Parts

LEMMA RestOtherwise ==
    ASSUME TypeOK, RestInv, asked' \in {asked, asked + 1}, UNCHANGED shown,
           latest'["list"] = latest["list"], latest'["all"] = latest["all"],
           \A l \in loads' : l \in loads \/ (l.part = "match" /\ l.no = asked')
    PROVE  RestInv'
<1>1. \A no : Awaited(no)' => Awaited(no)
  BY DEF Awaited
<1>2. Numbered'
  BY DEF RestInv, Numbered, TypeOK, LoadRecords
<1> QED
  BY <1>1, <1>2 DEF RestInv

LEMMA RestStep ==
    ASSUME TypeOK, RestInv, [Next]_vars
    PROVE  RestInv'
<1>1. ASSUME NEW op, NEW i, Submit(op, i)
      PROVE  RestInv'
  <2>1. CASE op.reload = "sent"
    BY <1>1, <2>1, RestReload DEF Submit
  <2>2. CASE op.reload # "sent"
    <3>1. loads' = loads /\ asked' = asked + 1 /\ latest' = latest /\ shown' = shown
      BY <1>1, <2>2 DEF Submit, page_state
    <3> QED
      BY <3>1, RestOtherwise
  <2> QED
    BY <2>1, <2>2
<1>2. ASSUME NEW m \in Messages, MessageLoaded(m)
      PROVE  RestInv'
  <2>1. latest'["list"] = latest["list"] /\ latest'["all"] = latest["all"]
    BY <1>2 DEF MessageLoaded, TypeOK, Parts
  <2>2. \A l \in loads' : l \in loads \/ (l.part = "match" /\ l.no = asked')
    BY <1>2 DEF MessageLoaded, Load
  <2>3. asked' = asked + 1 /\ shown' = shown
    BY <1>2 DEF MessageLoaded
  <2> QED
    BY <2>1, <2>2, <2>3, RestOtherwise
<1>3. ASSUME NEW c \in changes, ServeChange(c) \/ ChangeDone(c) \/ ChangeFailed(c)
      PROVE  RestInv'
  <2>1. CASE ServeChange(c) \/ ChangeFailed(c)
    <3>1. loads' = loads /\ asked' = asked /\ latest' = latest /\ shown' = shown
      BY <2>1 DEF ServeChange, ChangeFailed, page_state
    <3> QED
      BY <3>1, RestOtherwise
  <2>2. CASE ChangeDone(c) /\ Reload(c)
    BY <2>2, RestReload DEF ChangeDone, Reload
  <2>3. CASE ChangeDone(c) /\ (AssignCreated(c) \/ NothingElse(c))
    <3>1. /\ loads' = loads /\ (asked' = asked \/ asked' = asked + 1) /\ latest' = latest
          /\ shown' = shown
      BY <2>3 DEF ChangeDone, AssignCreated, NothingElse, page_state
    <3> QED
      BY <3>1, RestOtherwise
  <2> QED
    BY <1>3, <2>1, <2>2, <2>3, OpKinds DEF ChangeDone, TypeOK, ChangeRecords, Reloads
<1>4. CASE OthersChange \/ (\E l \in loads : LoadFailed(l)) \/ UNCHANGED vars
  <2>1. loads' \subseteq loads /\ asked' = asked /\ latest' = latest /\ shown' = shown
    BY <1>4 DEF OthersChange, LoadFailed, vars, page_state
  <2> QED
    BY <2>1, RestOtherwise
<1> QED
  BY <1>1, <1>2, <1>3, <1>4, RestServeLoad, RestLoaded DEF Next

\* No output is shown as the stream's and offered for assignment, if both are
\* the answers to the last load (OutputsComponent._fetchAssignableOutputs).
THEOREM AssignableIsTheRestHolds == Spec => []AssignableIsTheRest
<1>1. Init => RestInv
  <2> SUFFICES ASSUME Init
               PROVE  RestInv
    OBVIOUS
  <2>1. loads = {Load("list", 1, "none", {})} /\ Load("list", 1, "none", {}).no = 1
        /\ Load("list", 1, "none", {}).part = "list"
    BY DEF Init, Load
  <2>2. \A p \in Parts : shown[p].no = 0 /\ shown[p].items = {}
    BY DEF Init
  <2>3. asked = 1 /\ latest["list"] = latest["all"]
    BY DEF Init, Parts
  <2> QED
    BY <2>1, <2>2, <2>3 DEF RestInv, Numbered, Awaited, Parts
<1>2. TypeOK /\ RestInv /\ [Next]_vars => RestInv'
  BY RestStep
<1>3. RestInv => AssignableIsTheRest
  BY DEF RestInv, AssignableIsTheRest
<1> QED
  BY <1>1, <1>2, <1>3, TypeCorrect, PTL DEF Spec
=============================================================================
