------------------------- MODULE FieldChartsProofs --------------------------
(***************************************************************************)
(* What holds of the field charts of a page, for any number of them; then  *)
(* of stacked charts: none is hidden where nobody can reach it, and a      *)
(* stack is drawn with all its charts.                                     *)
(***************************************************************************)
EXTENDS FieldCharts, SequenceLemmas, TLAPS

LEMMA RequestType ==
    ASSUME NEW o \in Opts, NEW n \in {"created", "updated"}
    PROVE  Request(o, n) \in Requests
BY DEF Request, Requests

LEMMA OptsChange ==
    ASSUME NEW o \in Opts, NEW i \in Intervals, NEW r \in Renderers
    PROVE  [o EXCEPT !.interval = i] \in Opts /\ [o EXCEPT !.renderer = r] \in Opts
BY DEF Opts

LEMMA AppendRequest ==
    ASSUME NEW q \in Seq(Requests), NEW r \in Requests
    PROVE  Append(q, r) \in Seq(Requests) /\ <<r>> \in Seq(Requests)
OBVIOUS

LEMMA FirstRequestsType ==
    ASSUME TypeOK
    PROVE  FirstRequests \in [Charts -> Seq(Requests)]
<1>1. ASSUME NEW c \in Charts PROVE <<Request(opts[c], "created")>> \in Seq(Requests)
  <2>1. Request(opts[c], "created") \in Requests
    BY RequestType DEF TypeOK
  <2> QED
    BY <2>1
<1>2. <<>> \in Seq(Requests)
  OBVIOUS
<1> QED
  BY <1>1, <1>2 DEF FirstRequests

LEMMA DetachedType ==
    ASSUME NEW q \in Seq(Requests)
    PROVE  Detached(q) \in Seq(Requests)
<1>1. ASSUME NEW r \in Requests PROVE [r EXCEPT !.container = "detached"] \in Requests
  BY DEF Requests
<1>2. PICK n \in Nat : DOMAIN q = 1 .. n
  OBVIOUS
<1>3. \A i \in 1 .. n : q[i] \in Requests
  BY <1>2
<1>4. \A i \in 1 .. n : [q[i] EXCEPT !.container = "detached"] \in Requests
  BY <1>1, <1>3, Zenon
<1>5. Detached(q) = [i \in 1 .. n |-> [q[i] EXCEPT !.container = "detached"]]
  BY <1>2, Zenon DEF Detached
<1> DEFINE e(i) == [q[i] EXCEPT !.container = "detached"]
<1> HIDE DEF e
<1>6. \A i \in 1 .. n : e(i) \in Requests
  BY <1>4, Zenon DEF e
<1>7. [i \in 1 .. n |-> e(i)] \in Seq(Requests)
  BY <1>6
<1> QED
  BY <1>5, <1>7, Zenon DEF e

\* The requests of charts that are deleted become stale, and nothing else.
LEMMA UnmountEffect ==
    ASSUME TypeOK, NEW remaining \in [Charts -> Seq(Requests)], Unmount(remaining)
    PROVE  /\ requests' \in [Charts -> Seq(Requests)]
           /\ \A c \in Charts \ dismissed' :
                /\ requests'[c] = remaining[c]
                /\ canvas'[c] = canvas[c] /\ leftovers'[c] = leftovers[c]
                /\ c \in attached' <=> c \in attached
           /\ leftovers' \in [Charts -> SUBSET Opts]
           /\ loaded' \in SUBSET Charts /\ combined' \in SUBSET Charts
           /\ attached' \in SUBSET Charts
           /\ canvas' \in [Charts -> SUBSET Charts]
           /\ dismissed' \in SUBSET Charts /\ dismissed \subseteq dismissed'
           /\ lost \in SUBSET Charts
<1> DEFINE gone == saved \ saved'
<1>1. ASSUME NEW c \in Charts PROVE Detached(remaining[c]) \in Seq(Requests)
  BY DetachedType
<1>2. requests' = [c \in Charts |-> IF c \in gone THEN Detached(remaining[c]) ELSE remaining[c]]
  BY DEF Unmount
<1>3. requests' \in [Charts -> Seq(Requests)]
  BY <1>1, <1>2
<1>4. gone \subseteq Charts /\ dismissed' = dismissed \cup gone
  BY DEF Unmount, TypeOK
<1>5. \A c \in Charts \ dismissed' : requests'[c] = remaining[c]
  BY <1>2, <1>4
<1> QED
  BY <1>3, <1>4, <1>5 DEF Unmount, TypeOK

LEMMA DeleteGraphType ==
    ASSUME TypeOK, NEW c \in Charts, DeleteGraph(c)
    PROVE  saved' \subseteq saved /\ stacks' \in [Charts -> SUBSET Charts]
BY DEF DeleteGraph, TypeOK

\* Drawing keeps the types, and the other charts attached as they were.
LEMMA DrawType ==
    ASSUME TypeOK, saved' \in SUBSET Charts, NEW c \in Charts, NEW r \in Requests,
           NEW guests \in [Charts -> SUBSET Charts], Draw(c, r), MergeGuests(c, guests)
    PROVE  /\ series' \in [Charts -> SUBSET Charts] /\ attached' \in SUBSET Charts
           /\ canvas' \in [Charts -> SUBSET Charts] /\ drawn' \in [Charts -> Opts]
           /\ combined' \in SUBSET Charts /\ leftovers' \in [Charts -> SUBSET Opts]
<1> DEFINE own == [series EXCEPT ![c] = {c}]
<1>1. own \in [Charts -> SUBSET Charts]
  BY DEF TypeOK
<1>2. series' = [t \in Charts |-> own[t] \cup UNION {own[m] : m \in guests[t]}]
  BY DEF Draw, MergeGuests
<1>3. \A t \in Charts : UNION {own[m] : m \in guests[t]} \subseteq Charts
  BY <1>1
<1>4. series' \in [Charts -> SUBSET Charts]
  BY <1>1, <1>2, <1>3
<1>5. attached' \in SUBSET Charts
  BY DEF Draw, MergeGuests, TypeOK
<1>6. canvas' \in [Charts -> SUBSET Charts]
  BY <1>4 DEF Draw, MergeGuests, TypeOK
<1>7. drawn' \in [Charts -> Opts] /\ combined' \in SUBSET Charts
  BY DEF Draw, MergeGuests, TypeOK, Requests
<1>8. leftovers' \in [Charts -> SUBSET Opts]
  <2>1. leftovers \in [Charts -> SUBSET Opts] /\ drawn[c] \in Opts
    BY DEF TypeOK
  <2>2. leftovers' \in {leftovers, [leftovers EXCEPT ![c] = @ \cup {drawn[c]}]}
    BY DEF Draw
  <2>3. [leftovers EXCEPT ![c] = @ \cup {drawn[c]}] \in [Charts -> SUBSET Opts]
    BY <2>1
  <2> QED
    BY <2>1, <2>2, <2>3
<1> QED
  BY <1>4, <1>5, <1>6, <1>7, <1>8

\* What an answer with data does to requests, lines and drawing.
LEMMA AnswerEffect ==
    ASSUME TypeOK, NEW c \in Charts, NEW i \in DOMAIN requests[c], AnswerOk(c, i)
    PROVE  /\ requests[c][i] \in Requests
           /\ requests[c][i] \in ToSet(requests[c])
           /\ requests' \in [Charts -> Seq(Requests)]
           /\ \A d \in Charts \ {c} : requests'[d] = requests[d]
           /\ ToSet(requests'[c]) \subseteq
                ToSet(requests[c]) \cup {Request(requests[c][i].opts, "created")}
           /\ rendered' \in SUBSET Charts /\ saved' \in SUBSET Charts
<1> DEFINE r == requests[c][i]
           rest == RemoveAt(requests[c], i)
<1>1. requests[c] \in Seq(Requests) /\ requests \in [Charts -> Seq(Requests)]
  BY DEF TypeOK, Requests
<1>2. r \in Requests /\ r \in ToSet(requests[c])
  BY <1>1 DEF ToSet
<1>3. rest \in Seq(Requests) /\ ToSet(rest) \subseteq ToSet(requests[c])
  BY <1>1, RemoveAtType
<1>4. Request(r.opts, "created") \in Requests
  BY <1>2, RequestType DEF Requests
<1>5. /\ Append(rest, Request(r.opts, "created")) \in Seq(Requests)
      /\ ToSet(Append(rest, Request(r.opts, "created"))) = ToSet(rest) \cup {Request(r.opts, "created")}
  BY <1>3, <1>4, ToSetAppend
<1>6. requests' = [requests EXCEPT ![c] =
                     IF c \in saved THEN rest ELSE Append(rest, Request(r.opts, "created"))]
  BY DEF AnswerOk, SaveGraph
<1>7. rendered' \in SUBSET Charts /\ saved' \in SUBSET Charts
  BY DEF AnswerOk, SaveGraph, TypeOK
<1> HIDE DEF r, rest
<1>8. requests' \in [Charts -> Seq(Requests)]
  BY <1>1, <1>3, <1>5, <1>6
<1>9. requests'[c] = IF c \in saved THEN rest ELSE Append(rest, Request(r.opts, "created"))
  BY <1>1, <1>6
<1>10. \A d \in Charts \ {c} : requests'[d] = requests[d]
  BY <1>1, <1>6
<1> QED
  BY <1>2, <1>3, <1>5, <1>7, <1>8, <1>9, <1>10 DEF r

-----------------------------------------------------------------------------
LEMMA TypeInit == Init => TypeOK
<1> SUFFICES ASSUME Init PROVE TypeOK
  OBVIOUS
<1>1. opts \in [Charts -> Opts]
  BY DEF Init
<1>2. FirstRequests \in [Charts -> Seq(Requests)]
  <2>1. ASSUME NEW c \in Charts PROVE <<Request(opts[c], "created")>> \in Seq(Requests)
    <3>1. Request(opts[c], "created") \in Requests
      BY <1>1, RequestType
    <3> QED
      BY <3>1
  <2>2. <<>> \in Seq(Requests)
    OBVIOUS
  <2> QED
    BY <2>1, <2>2 DEF FirstRequests
<1>3. acts \in 0 .. MaxActs
  BY ChartsAssumption DEF Init
<1> QED
  BY <1>1, <1>2, <1>3 DEF Init, TypeOK, Requests

LEMMA TypeStep ==
    ASSUME TypeOK, [Next]_vars
    PROVE  TypeOK'
<1> USE DEF store, containers, graphs, history
<1>0. UserActs => acts' \in 0 .. MaxActs
  BY ChartsAssumption DEF UserActs, TypeOK
<1>1. CASE Reload
  <2>1. requests' \in [Charts -> Seq(Requests)]
    BY <1>1, FirstRequestsType DEF Reload
  <2> QED
    BY <1>0, <1>1, <2>1 DEF Reload, TypeOK, Requests
<1>2. ASSUME NEW c \in Charts, NEW o \in Opts, NewFieldGraph(c, o)
      PROVE TypeOK'
  <2>1. Request(o, "created") \in Requests
    BY RequestType
  <2>2. <<Request(o, "created")>> \in Seq(Requests)
    BY <2>1, AppendRequest
  <2>3. requests' \in [Charts -> Seq(Requests)]
    BY <1>2, <2>2 DEF NewFieldGraph, TypeOK, Requests
  <2> QED
    BY <1>0, <1>2, <2>3 DEF NewFieldGraph, TypeOK, Requests
<1>3. ASSUME NEW c \in Charts, Dismiss(c)
      PROVE TypeOK'
  <2>1. requests \in [Charts -> Seq(Requests)]
    BY DEF TypeOK, Requests
  <2>2. Unmount(requests) /\ DeleteGraph(c)
    BY <1>3 DEF Dismiss
  <2> QED
    BY <1>0, <1>3, <2>1, <2>2, UnmountEffect, DeleteGraphType DEF Dismiss, TypeOK, Requests
<1>4. ASSUME NEW c \in Charts, NEW r \in Renderers, ChangeType(c, r)
      PROVE TypeOK'
  <2>1. [lines[c] EXCEPT !.renderer = r] \in Opts /\ [drawn[c] EXCEPT !.renderer = r] \in Opts
    BY ZenonT(60) DEF TypeOK, Opts
  <2>2. lines' \in [Charts -> Opts] /\ drawn' \in [Charts -> Opts]
    BY <1>4, <2>1 DEF ChangeType, TypeOK
  <2>3. opts' \in [Charts -> Opts]
    BY <1>4, <2>2 DEF ChangeType, TypeOK
  <2> QED
    BY <1>0, <1>4, <2>2, <2>3 DEF ChangeType, TypeOK
<1>5. ASSUME NEW c \in Charts, NEW i \in Intervals, ChangeInterval(c, i)
      PROVE TypeOK'
  <2>1. [lines[c] EXCEPT !.interval = i] \in Opts
    BY ZenonT(60) DEF TypeOK, Opts
  <2>2. lines' \in [Charts -> Opts]
    BY <1>5, <2>1 DEF ChangeInterval, DeleteGraphs, TypeOK
  <2>3. Request(lines'[c], "updated") \in Requests
    BY <2>2, RequestType
  <2>4. requests[c] \in Seq(Requests) /\ requests \in [Charts -> Seq(Requests)]
    BY DEF TypeOK, Requests
  <2>5. Append(requests[c], Request(lines'[c], "updated")) \in Seq(Requests)
    BY <2>3, <2>4, AppendRequest
  <2>6. requests' \in [Charts -> Seq(Requests)]
    BY <1>5, <2>4, <2>5 DEF ChangeInterval, DeleteGraphs
  <2> QED
    BY <1>0, <1>5, <2>2, <2>6 DEF ChangeInterval, DeleteGraphs, TypeOK, Requests
<1>6. ASSUME NEW t \in Charts, NEW d \in Charts, Drop(t, d)
      PROVE TypeOK'
  <2>1. stacks' \in [Charts -> SUBSET Charts]
    BY <1>6, ZenonT(60) DEF Drop, UpdateStackedGraphs, TypeOK
  <2>2. series' \in [Charts -> SUBSET Charts]
    BY <1>6 DEF Drop, TypeOK
  <2>3. canvas' \in [Charts -> SUBSET Charts]
    BY <1>6, <2>2 DEF Drop, TypeOK
  <2> QED
    BY <1>0, <1>6, <2>1, <2>2, <2>3 DEF Drop, TypeOK
<1>7. ASSUME NEW c \in Charts, NEW i \in DOMAIN requests[c], AnswerOk(c, i)
      PROVE TypeOK'
  <2> DEFINE r == requests[c][i]
             guests == IF r.event = "created" THEN Combine(c) ELSE NoGuests
  <2>1. /\ r \in Requests /\ requests' \in [Charts -> Seq(Requests)]
        /\ rendered' \in SUBSET Charts /\ saved' \in SUBSET Charts
    BY <1>7, AnswerEffect
  <2>2. guests \in [Charts -> SUBSET Charts]
    BY <2>1 DEF Combine, GuestsForTarget, GuestsForMember, NoGuests, TypeOK
  <2>3. Draw(c, r) /\ MergeGuests(c, guests)
    BY <1>7 DEF AnswerOk
  <2>4. opts' \in [Charts -> Opts] /\ lines' \in [Charts -> Opts]
    BY <1>7, <2>1 DEF AnswerOk, SaveGraph, LinesAfter, TypeOK, Requests
  <2>5. loaded' \in SUBSET Charts /\ lost' \in SUBSET Charts
    BY <1>7 DEF AnswerOk, TypeOK
  <2>6. UNCHANGED <<stacks, unused, dismissed, overlapped, acts>>
    BY <1>7 DEF AnswerOk
  <2> HIDE DEF r, guests
  <2> QED
    BY <2>1, <2>2, <2>3, <2>4, <2>5, <2>6, DrawType DEF TypeOK, Requests
<1>8. ASSUME NEW c \in Charts, NEW i \in DOMAIN requests[c], AnswerNotNumeric(c, i)
      PROVE TypeOK'
  <2> DEFINE remaining == [requests EXCEPT ![c] = RemoveAt(@, i)]
  <2>1. requests[c] \in Seq(Requests) /\ requests \in [Charts -> Seq(Requests)]
    BY DEF TypeOK, Requests
  <2>2. RemoveAt(requests[c], i) \in Seq(Requests)
    BY <2>1, RemoveAtType
  <2>3. remaining \in [Charts -> Seq(Requests)]
    BY <2>1, <2>2
  <2>4. Unmount(remaining) /\ DeleteGraph(c)
    BY <1>8 DEF AnswerNotNumeric
  <2> HIDE DEF remaining
  <2> QED
    BY <1>8, <2>3, <2>4, UnmountEffect, DeleteGraphType DEF AnswerNotNumeric, TypeOK, Requests
<1>9. ASSUME NEW c \in Charts, NEW i \in DOMAIN requests[c], AnswerFails(c, i)
      PROVE TypeOK'
  <2>1. requests[c] \in Seq(Requests) /\ requests \in [Charts -> Seq(Requests)]
    BY DEF TypeOK, Requests
  <2>2. RemoveAt(requests[c], i) \in Seq(Requests)
    BY <2>1, RemoveAtType
  <2> QED
    BY <1>9, <2>1, <2>2 DEF AnswerFails, TypeOK, Requests
<1>10. CASE UNCHANGED vars
  BY <1>10 DEF vars, TypeOK
<1> QED
  BY <1>1, <1>2, <1>3, <1>4, <1>5, <1>6, <1>7, <1>8, <1>9, <1>10 DEF Next

\* Every state of a page with charts is well typed.
THEOREM TypeCorrect == Spec => []TypeOK
<1>1. Init => TypeOK
  BY TypeInit
<1>2. TypeOK /\ [Next]_vars => TypeOK'
  BY TypeStep
<1> QED
  BY <1>1, <1>2, PTL DEF Spec

-----------------------------------------------------------------------------
(* What is shown is what is saved. *)

\* Requests for a chart that was never dismissed are for its one container;
\* what that shows is the graph the chart's id stands for, and this graph, the
\* lines and the saved options agree whenever it is in the container.
ShownInv ==
    /\ \A c \in Charts \ dismissed :
         /\ \A r \in ToSet(requests[c]) : r.container = "present"
         /\ canvas[c] # {} => c \in attached
         /\ c \in attached => drawn[c] = opts[c] /\ lines[c] = opts[c]
    /\ \A c \in unused : c \notin saved /\ c \notin attached /\ requests[c] = <<>>

LEMMA SingleRequest ==
    ASSUME NEW r
    PROVE  ToSet(<<r>>) = {r}
BY DEF ToSet

LEMMA ShownInit == Init => ShownInv
<1> SUFFICES ASSUME Init PROVE ShownInv
  OBVIOUS
<1>1. ASSUME NEW c \in Charts, NEW r \in ToSet(requests[c])
      PROVE  r.container = "present"
  <2>1. requests[c] = IF c \in saved THEN <<Request(opts[c], "created")>> ELSE <<>>
    BY DEF Init, FirstRequests
  <2>2. ToSet(<<>>) = {}
    BY DEF ToSet
  <2>3. r = Request(opts[c], "created")
    BY <2>1, <2>2, SingleRequest
  <2> QED
    BY <2>3 DEF Request
<1>2. \A c \in unused : requests[c] = <<>>
  BY DEF Init, FirstRequests
<1> QED
  BY <1>1, <1>2 DEF Init, ShownInv

\* Deleting charts takes them out of what the invariant is about.
LEMMA UnmountKeeps ==
    ASSUME TypeOK, ShownInv, NEW c \in Charts, DeleteGraph(c),
           NEW remaining \in [Charts -> Seq(Requests)], Unmount(remaining),
           \A d \in Charts : ToSet(remaining[d]) \subseteq ToSet(requests[d]),
           \A d \in unused : remaining[d] = requests[d],
           UNCHANGED <<opts, lines, drawn, unused>>
    PROVE  ShownInv'
<1>1. saved' \subseteq saved
  BY DeleteGraphType
<1>2. /\ \A d \in Charts \ dismissed' :
           /\ requests'[d] = remaining[d]
           /\ canvas'[d] = canvas[d]
           /\ d \in attached' <=> d \in attached
      /\ dismissed \subseteq dismissed'
  BY UnmountEffect
<1>3. \A d \in unused : /\ d \notin saved' /\ d \notin attached'
                        /\ requests'[d] = requests[d]
  BY <1>1 DEF Unmount, ShownInv, TypeOK
<1>4. \A d \in Charts \ dismissed' : \A r \in ToSet(requests'[d]) : r.container = "present"
  BY <1>2 DEF ShownInv
<1> QED
  BY <1>2, <1>3, <1>4 DEF ShownInv

LEMMA ShownStep ==
    ASSUME TypeOK, TypeOK', ShownInv, [Next]_vars
    PROVE  ShownInv'
<1> USE DEF store, containers, graphs, history
<1>1. CASE Reload
  <2>1. ASSUME NEW c \in Charts, NEW r \in ToSet(requests'[c])
        PROVE  r.container = "present"
    <3>1. requests'[c] = IF c \in saved THEN <<Request(opts[c], "created")>> ELSE <<>>
      BY <1>1 DEF Reload, FirstRequests
    <3>2. ToSet(<<>>) = {}
      BY DEF ToSet
    <3>3. r = Request(opts[c], "created")
      BY <2>1, <3>1, <3>2, SingleRequest
    <3> QED
      BY <3>3 DEF Request
  <2>2. \A c \in unused' : c \notin saved' /\ requests'[c] = <<>>
    BY <1>1 DEF Reload, FirstRequests, ShownInv, TypeOK
  <2> QED
    BY <1>1, <2>1, <2>2 DEF Reload, ShownInv
<1>2. ASSUME NEW c \in Charts, NEW o \in Opts, NewFieldGraph(c, o)
      PROVE ShownInv'
  <2>1. requests'[c] = <<Request(o, "created")>>
    BY <1>2 DEF NewFieldGraph, TypeOK
  <2>2. \A d \in Charts \ {c} : requests'[d] = requests[d] /\ opts'[d] = opts[d]
    BY <1>2 DEF NewFieldGraph, TypeOK
  <2>3. ASSUME NEW r \in ToSet(requests'[c]) PROVE r.container = "present"
    <3>1. r = Request(o, "created")
      BY <2>1, <2>3, SingleRequest
    <3> QED
      BY <3>1 DEF Request
  <2>4. c \notin attached /\ c \notin attached'
    BY <1>2 DEF NewFieldGraph, ShownInv
  <2>5. UNCHANGED <<lines, drawn, canvas, attached, dismissed>>
    BY <1>2 DEF NewFieldGraph
  <2>6. unused' = unused \ {c} /\ saved' = saved \cup {c} /\ unused \in SUBSET Charts
    BY <1>2 DEF NewFieldGraph, TypeOK
  <2>7. \A d \in Charts \ dismissed :
          /\ \A r \in ToSet(requests'[d]) : r.container = "present"
          /\ d \in attached => drawn[d] = opts'[d] /\ lines[d] = opts'[d]
    BY <2>2, <2>3, <2>4 DEF ShownInv
  <2>8. \A d \in Charts \ dismissed : canvas[d] # {} => d \in attached
    BY DEF ShownInv
  <2>9. \A d \in unused' : d \notin saved' /\ d \notin attached' /\ requests'[d] = <<>>
    BY <2>2, <2>5, <2>6 DEF ShownInv
  <2> QED
    BY <2>5, <2>7, <2>8, <2>9 DEF ShownInv
<1>3. ASSUME NEW c \in Charts, Dismiss(c)
      PROVE ShownInv'
  <2>1. requests \in [Charts -> Seq(Requests)]
    BY DEF TypeOK
  <2>2. Unmount(requests) /\ DeleteGraph(c)
    BY <1>3 DEF Dismiss
  <2> QED
    BY <1>3, <2>2, UnmountKeeps, <2>1 DEF Dismiss
<1>4. ASSUME NEW c \in Charts, NEW r \in Renderers, ChangeType(c, r)
      PROVE ShownInv'
  <2>1. /\ lines'[c] = [lines[c] EXCEPT !.renderer = r]
        /\ opts'[c] = lines'[c]
        /\ c \in attached => drawn'[c] = [drawn[c] EXCEPT !.renderer = r]
        /\ \A d \in Charts \ {c} :
             lines'[d] = lines[d] /\ opts'[d] = opts[d] /\ drawn'[d] = drawn[d]
    BY <1>4 DEF ChangeType, TypeOK
  <2>2. c \in attached \ dismissed => drawn'[c] = opts'[c]
    BY <2>1 DEF ShownInv
  <2>3. UNCHANGED <<saved, canvas, attached, requests, unused, dismissed>>
    BY <1>4 DEF ChangeType
  <2>4. \A d \in (Charts \ dismissed) \cap attached : drawn'[d] = opts'[d] /\ lines'[d] = opts'[d]
    BY <2>1, <2>2 DEF ShownInv
  <2> QED
    BY <2>3, <2>4 DEF ShownInv
<1>5. ASSUME NEW c \in Charts, NEW i \in Intervals, ChangeInterval(c, i)
      PROVE ShownInv'
  <2>1. requests[c] \in Seq(Requests) /\ lines'[c] \in Opts
    BY <1>5 DEF ChangeInterval, DeleteGraphs, TypeOK
  <2>2. Request(lines'[c], "updated") \in Requests
    BY <2>1, RequestType
  <2>3. requests'[c] = Append(requests[c], Request(lines'[c], "updated"))
    BY <1>5 DEF ChangeInterval, DeleteGraphs, TypeOK
  <2>4. ToSet(requests'[c]) = ToSet(requests[c]) \cup {Request(lines'[c], "updated")}
    BY <2>1, <2>2, <2>3, ToSetAppend
  <2>5. Request(lines'[c], "updated").container = "present"
    BY DEF Request
  <2>6. \A d \in Charts \ {c} : /\ requests'[d] = requests[d] /\ lines'[d] = lines[d]
                                /\ canvas'[d] = canvas[d]
    BY <1>5 DEF ChangeInterval, DeleteGraphs, TypeOK
  <2>7. canvas'[c] = {} /\ c \notin attached' /\ attached' \subseteq attached
    BY <1>5 DEF ChangeInterval, DeleteGraphs, TypeOK
  <2>8. c \notin unused
    BY <1>5 DEF ChangeInterval, DeleteGraphs, Visible, ShownInv
  <2>9. UNCHANGED <<saved, opts, drawn, unused, dismissed>>
    BY <1>5 DEF ChangeInterval, DeleteGraphs
  <2>10. \A d \in Charts \ dismissed : \A r \in ToSet(requests'[d]) : r.container = "present"
    BY <2>4, <2>5, <2>6 DEF ShownInv
  <2>11. \A d \in Charts \ {c} : d \in attached' <=> d \in attached
    BY <1>5 DEF ChangeInterval, DeleteGraphs
  <2> QED
    BY <2>6, <2>7, <2>8, <2>9, <2>10, <2>11, ZenonT(60) DEF ShownInv, TypeOK
<1>6. ASSUME NEW t \in Charts, NEW d \in Charts, Drop(t, d)
      PROVE ShownInv'
  <2>1. \A c \in Charts : c \in attached \/ canvas'[c] = canvas[c]
    BY <1>6 DEF Drop, TypeOK
  <2> QED
    BY <1>6, <2>1 DEF Drop, ShownInv
<1>7. ASSUME NEW c \in Charts, NEW i \in DOMAIN requests[c], AnswerOk(c, i)
      PROVE ShownInv'
  <2> DEFINE r == requests[c][i]
             guests == IF r.event = "created" THEN Combine(c) ELSE NoGuests
  <2>1. /\ r \in Requests /\ r \in ToSet(requests[c])
        /\ \A d \in Charts \ {c} : requests'[d] = requests[d]
        /\ ToSet(requests'[c]) \subseteq ToSet(requests[c]) \cup {Request(r.opts, "created")}
    BY <1>7, AnswerEffect
  <2>2. Request(r.opts, "created").container = "present"
    BY DEF Request
  <2>3. Draw(c, r) /\ MergeGuests(c, guests) /\ UNCHANGED <<unused, dismissed>>
    BY <1>7 DEF AnswerOk
  <2>4. c \notin dismissed => r.container = "present"
    BY <2>1 DEF ShownInv
  <2>5. /\ \A d \in Charts \ {c} : opts'[d] = opts[d] /\ lines'[d] = lines[d]
        /\ opts'[c] = r.opts
        /\ r.container = "present" => lines'[c] = r.opts
        /\ saved' = saved \cup {c}
    BY <1>7 DEF AnswerOk, SaveGraph, LinesAfter, TypeOK
  <2>6. c \notin unused
    <3>1. requests[c] # <<>>
      OBVIOUS
    <3> QED
      BY <3>1 DEF ShownInv
  <2> HIDE DEF r, guests
  <2>7. /\ \A d \in Charts \ {c} : /\ d \in attached' <=> d \in attached
                                   /\ drawn'[d] = drawn[d]
                                   /\ d \in attached \/ canvas'[d] = canvas[d]
        /\ r.container = "present" => c \in attached' /\ drawn'[c] = r.opts
    BY <2>1, <2>3 DEF Draw, MergeGuests, TypeOK, Requests
  <2>8. \A d \in Charts \ dismissed : \A q \in ToSet(requests'[d]) : q.container = "present"
    BY <2>1, <2>2 DEF ShownInv
  <2> QED
    BY <2>1, <2>3, <2>4, <2>5, <2>6, <2>7, <2>8, ZenonT(60) DEF ShownInv, TypeOK
<1>8. ASSUME NEW c \in Charts, NEW i \in DOMAIN requests[c], AnswerNotNumeric(c, i)
      PROVE ShownInv'
  <2> DEFINE remaining == [requests EXCEPT ![c] = RemoveAt(@, i)]
  <2>1. requests[c] \in Seq(Requests) /\ requests \in [Charts -> Seq(Requests)]
    BY DEF TypeOK
  <2>2. RemoveAt(requests[c], i) \in Seq(Requests) /\ ToSet(RemoveAt(requests[c], i)) \subseteq ToSet(requests[c])
    BY <2>1, RemoveAtType
  <2>3. /\ remaining \in [Charts -> Seq(Requests)]
        /\ \A d \in Charts : ToSet(remaining[d]) \subseteq ToSet(requests[d])
        /\ \A d \in unused : remaining[d] = requests[d]
    <3>1. requests[c] # <<>>
      OBVIOUS
    <3>2. c \notin unused
      BY <3>1 DEF ShownInv
    <3> QED
      BY <2>1, <2>2, <3>2 DEF TypeOK
  <2>4. Unmount(remaining) /\ DeleteGraph(c)
    BY <1>8 DEF AnswerNotNumeric
  <2> HIDE DEF remaining
  <2>5. UNCHANGED <<opts, lines, drawn, unused>>
    BY <1>8 DEF AnswerNotNumeric
  <2> QED
    BY <2>3, <2>4, <2>5, UnmountKeeps
<1>9. ASSUME NEW c \in Charts, NEW i \in DOMAIN requests[c], AnswerFails(c, i)
      PROVE ShownInv'
  <2>1. requests[c] \in Seq(Requests) /\ requests \in [Charts -> Seq(Requests)]
    BY DEF TypeOK
  <2>2. ToSet(RemoveAt(requests[c], i)) \subseteq ToSet(requests[c])
    BY <2>1, RemoveAtType
  <2>3. requests[c] # <<>>
    OBVIOUS
  <2>4. c \notin unused
    BY <2>3 DEF ShownInv
  <2>5. \A d \in Charts : /\ ToSet(requests'[d]) \subseteq ToSet(requests[d])
                          /\ d # c => requests'[d] = requests[d]
    BY <1>9, <2>1, <2>2 DEF AnswerFails
  <2> QED
    BY <1>9, <2>4, <2>5 DEF AnswerFails, ShownInv, TypeOK
<1>10. CASE UNCHANGED vars
  BY <1>10 DEF vars, ShownInv
<1> QED
  BY <1>1, <1>2, <1>3, <1>4, <1>5, <1>6, <1>7, <1>8, <1>9, <1>10 DEF Next

\* A chart never dismissed that is asked for is saved; unless it was asked for
\* too early, it is asked for once at a time, with an empty container.
Sole(c) ==
    /\ requests[c] # <<>> => c \in saved
    /\ c \notin overlapped =>
         /\ leftovers[c] = {}
         /\ requests[c] # <<>> => Len(requests[c]) = 1 /\ c \notin attached
SoleInv == \A c \in Charts \ dismissed : Sole(c)

LEMMA SoleInit == Init => SoleInv
BY DEF Init, FirstRequests, SoleInv, Sole

\* Less is asked for, and nothing is drawn.
LEMMA SoleFewer ==
    ASSUME TypeOK, NEW c \in Charts, Sole(c), NEW i \in DOMAIN requests[c],
           requests'[c] = RemoveAt(requests[c], i), leftovers'[c] = leftovers[c],
           c \in attached' <=> c \in attached, c \in overlapped' <=> c \in overlapped,
           c \in saved'
    PROVE  Sole(c)'
<1>1. requests[c] \in Seq(Requests)
  BY DEF TypeOK
<1>2. requests'[c] \in Seq(Requests) /\ Len(requests'[c]) = Len(requests[c]) - 1
  BY <1>1, RemoveAtType
<1>3. requests[c] # <<>>
  OBVIOUS
<1>4. Len(requests[c]) = 1 => requests'[c] = <<>>
  BY <1>2
<1> QED
  BY <1>3, <1>4 DEF Sole

\* A chart that nothing happens to.
LEMMA SoleSame ==
    ASSUME NEW c \in Charts, Sole(c), requests'[c] = requests[c], leftovers'[c] = leftovers[c],
           c \in attached' <=> c \in attached, c \in overlapped' <=> c \in overlapped,
           c \in saved => c \in saved'
    PROVE  Sole(c)'
BY DEF Sole

\* Deleting charts takes them out of what the invariant is about.
LEMMA SoleUnmount ==
    ASSUME TypeOK, SoleInv, NEW c \in Charts, DeleteGraph(c),
           NEW remaining \in [Charts -> Seq(Requests)], Unmount(remaining),
           \A d \in Charts : \/ remaining[d] = requests[d]
                             \/ \E i \in DOMAIN requests[d] :
                                  remaining[d] = RemoveAt(requests[d], i),
           UNCHANGED overlapped
    PROVE  SoleInv'
<1>1. /\ \A d \in Charts \ dismissed' :
           /\ requests'[d] = remaining[d]
           /\ leftovers'[d] = leftovers[d]
           /\ d \in attached' <=> d \in attached
      /\ dismissed \subseteq dismissed'
  BY UnmountEffect
<1>2. \A d \in Charts \ dismissed' : d \in saved => d \in saved'
  BY DEF Unmount
<1>3. ASSUME NEW d \in Charts, d \notin dismissed'
      PROVE  Sole(d)'
  <2>1. Sole(d)
    BY <1>1, <1>3 DEF SoleInv
  <2>2. CASE remaining[d] = requests[d]
    BY <1>1, <1>2, <1>3, <2>1, <2>2, SoleSame
  <2>3. ASSUME NEW i \in DOMAIN requests[d], remaining[d] = RemoveAt(requests[d], i)
        PROVE  Sole(d)'
    <3>1. requests[d] # <<>>
      OBVIOUS
    <3>2. d \in saved'
      BY <1>2, <1>3, <2>1, <3>1 DEF Sole
    <3> QED
      BY <1>1, <1>3, <2>1, <2>3, <3>2, SoleFewer
  <2> QED
    BY <2>2, <2>3
<1> QED
  BY <1>3 DEF SoleInv

LEMMA SoleStep ==
    ASSUME TypeOK, ShownInv, SoleInv, [Next]_vars
    PROVE  SoleInv'
<1> USE DEF store, containers, graphs, history
<1>1. CASE Reload
  <2>1. \A c \in Charts : requests'[c] = IF c \in saved THEN <<Request(opts[c], "created")>> ELSE <<>>
    BY <1>1 DEF Reload, FirstRequests
  <2>2. /\ saved' = saved /\ attached' = {}
        /\ \A c \in Charts : leftovers'[c] = {}
    BY <1>1 DEF Reload
  <2>3. ASSUME NEW c \in Charts PROVE Sole(c)'
    <3>1. requests'[c] # <<>> => c \in saved' /\ Len(requests'[c]) = 1
      <4>1. CASE c \in saved
        <5>1. requests'[c] = <<Request(opts[c], "created")>>
          BY <2>1, <4>1
        <5>2. Len(requests'[c]) = 1
          BY <5>1
        <5> QED
          BY <2>2, <4>1, <5>2
      <4> QED
        BY <2>1, <4>1
    <3>2. leftovers'[c] = {} /\ c \notin attached'
      BY <2>2
    <3> QED
      BY <3>1, <3>2 DEF Sole
  <2> QED
    BY <2>3 DEF SoleInv
<1>2. ASSUME NEW c \in Charts, NEW o \in Opts, NewFieldGraph(c, o)
      PROVE SoleInv'
  <2>1. /\ requests'[c] = <<Request(o, "created")>> /\ c \in saved'
        /\ \A d \in Charts \ {c} : requests'[d] = requests[d] /\ (d \in saved => d \in saved')
        /\ UNCHANGED <<leftovers, attached, overlapped, dismissed>>
    BY <1>2 DEF NewFieldGraph, TypeOK
  <2>2. c \notin attached
    BY <1>2 DEF NewFieldGraph, ShownInv
  <2>3. c \notin dismissed => Sole(c)'
    BY <2>1, <2>2 DEF SoleInv, Sole
  <2>4. \A d \in (Charts \ dismissed) \ {c} : Sole(d)'
    BY <2>1, SoleSame DEF SoleInv
  <2> QED
    BY <2>1, <2>3, <2>4 DEF SoleInv
<1>3. ASSUME NEW c \in Charts, Dismiss(c)
      PROVE SoleInv'
  <2>1. requests \in [Charts -> Seq(Requests)]
    BY DEF TypeOK
  <2>2. Unmount(requests) /\ DeleteGraph(c) /\ UNCHANGED overlapped
    BY <1>3 DEF Dismiss
  <2> QED
    BY <2>1, <2>2, SoleUnmount
<1>4. ASSUME NEW c \in Charts, NEW r \in Renderers, ChangeType(c, r)
      PROVE SoleInv'
  BY <1>4 DEF ChangeType, SoleInv, Sole
<1>5. ASSUME NEW c \in Charts, NEW i \in Intervals, ChangeInterval(c, i)
      PROVE SoleInv'
  <2> DEFINE q == Request(lines'[c], "updated")
  <2>1. /\ requests' = [requests EXCEPT ![c] = Append(@, q)]
        /\ leftovers' = [leftovers EXCEPT ![c] = {}]
        /\ attached' = attached \ {c}
        /\ overlapped' = IF requests[c] # <<>> THEN overlapped \cup {c} ELSE overlapped \ {c}
        /\ UNCHANGED <<saved, dismissed>>
    BY <1>5 DEF ChangeInterval, DeleteGraphs
  <2>2. c \in saved
    BY <1>5 DEF ChangeInterval, Visible
  <2> HIDE DEF q
  <2>3. /\ requests'[c] = Append(requests[c], q) /\ leftovers'[c] = {}
        /\ \A d \in Charts \ {c} : requests'[d] = requests[d] /\ leftovers'[d] = leftovers[d]
    BY <2>1 DEF TypeOK
  <2>4. c \notin overlapped' => Len(requests'[c]) = 1
    <3>1. c \notin overlapped' => requests[c] = <<>>
      BY <2>1
    <3> QED
      BY <2>3, <3>1
  <2>5. c \in saved' /\ c \notin attached'
    BY <2>1, <2>2
  <2>6. Sole(c)'
    BY <2>3, <2>4, <2>5 DEF Sole
  <2>7. \A d \in (Charts \ dismissed) \ {c} : Sole(d)'
    BY <2>1, <2>3, SoleSame DEF SoleInv
  <2> QED
    BY <2>1, <2>6, <2>7 DEF SoleInv
<1>6. ASSUME NEW t \in Charts, NEW d \in Charts, Drop(t, d)
      PROVE SoleInv'
  BY <1>6 DEF Drop, SoleInv, Sole
<1>7. ASSUME NEW c \in Charts, NEW i \in DOMAIN requests[c], AnswerOk(c, i)
      PROVE SoleInv'
  <2> DEFINE r == requests[c][i]
  <2>1. /\ \A d \in Charts \ {c} : requests'[d] = requests[d]
        /\ saved' = saved \cup {c}
        /\ requests[c] # <<>>
    BY <1>7, AnswerEffect DEF AnswerOk, SaveGraph
  <2>2. Draw(c, r) /\ UNCHANGED <<dismissed, overlapped>>
    BY <1>7 DEF AnswerOk
  <2>3. \A d \in Charts \ {c} : leftovers'[d] = leftovers[d] /\ (d \in attached' <=> d \in attached)
    BY <2>2 DEF Draw, TypeOK
  <2>4. \A d \in (Charts \ dismissed) \ {c} : Sole(d)'
    BY <2>1, <2>2, <2>3, SoleSame DEF SoleInv
  <2>5. ASSUME c \notin dismissed, c \notin overlapped
        PROVE  leftovers'[c] = {} /\ requests'[c] = <<>>
    <3>1. Sole(c) /\ c \in saved /\ leftovers[c] = {} /\ Len(requests[c]) = 1 /\ c \notin attached
      BY <2>1, <2>5 DEF SoleInv, Sole
    <3>2. canvas[c] = {}
      BY <2>5, <3>1 DEF ShownInv
    <3>3. requests' = [requests EXCEPT ![c] = RemoveAt(requests[c], i)]
      BY <1>7, <3>1 DEF AnswerOk, SaveGraph
    <3>4. requests'[c] = RemoveAt(requests[c], i) /\ requests[c] \in Seq(Requests)
      BY <3>3 DEF TypeOK
    <3>5. requests'[c] \in Seq(Requests) /\ Len(requests'[c]) = 0
      BY <3>1, <3>4, RemoveAtType
    <3>6. leftovers' = leftovers
      BY <2>2, <3>2 DEF Draw
    <3> QED
      BY <3>1, <3>5, <3>6
  <2>6. c \notin dismissed => Sole(c)'
    BY <2>1, <2>2, <2>5 DEF Sole
  <2> QED
    BY <2>2, <2>4, <2>6 DEF SoleInv
<1>8. ASSUME NEW c \in Charts, NEW i \in DOMAIN requests[c], AnswerNotNumeric(c, i)
      PROVE SoleInv'
  <2> DEFINE remaining == [requests EXCEPT ![c] = RemoveAt(@, i)]
  <2>1. requests[c] \in Seq(Requests) /\ requests \in [Charts -> Seq(Requests)]
    BY DEF TypeOK
  <2>2. RemoveAt(requests[c], i) \in Seq(Requests)
    BY <2>1, RemoveAtType
  <2>3. /\ remaining \in [Charts -> Seq(Requests)]
        /\ remaining[c] = RemoveAt(requests[c], i)
        /\ \A d \in Charts \ {c} : remaining[d] = requests[d]
    BY <2>1, <2>2
  <2>4. Unmount(remaining) /\ DeleteGraph(c) /\ UNCHANGED overlapped
    BY <1>8 DEF AnswerNotNumeric
  <2> HIDE DEF remaining
  <2>5. \A d \in Charts : \/ remaining[d] = requests[d]
                          \/ \E j \in DOMAIN requests[d] : remaining[d] = RemoveAt(requests[d], j)
    BY <2>3
  <2> QED
    BY <2>3, <2>4, <2>5, SoleUnmount
<1>9. ASSUME NEW c \in Charts, NEW i \in DOMAIN requests[c], AnswerFails(c, i)
      PROVE SoleInv'
  <2>1. /\ requests'[c] = RemoveAt(requests[c], i)
        /\ \A d \in Charts \ {c} : requests'[d] = requests[d]
        /\ UNCHANGED <<saved, leftovers, attached, overlapped, dismissed>>
        /\ requests[c] # <<>>
    BY <1>9 DEF AnswerFails, TypeOK
  <2>2. \A d \in (Charts \ dismissed) \ {c} : Sole(d)'
    BY <2>1, SoleSame DEF SoleInv
  <2>3. ASSUME c \notin dismissed PROVE Sole(c)'
    <3>1. Sole(c) /\ c \in saved'
      BY <2>1, <2>3 DEF SoleInv, Sole
    <3> QED
      BY <2>1, <3>1, SoleFewer
  <2> QED
    BY <2>1, <2>2, <2>3 DEF SoleInv
<1>10. CASE UNCHANGED vars
  BY <1>10 DEF vars, SoleInv, Sole
<1> QED
  BY <1>1, <1>2, <1>3, <1>4, <1>5, <1>6, <1>7, <1>8, <1>9, <1>10 DEF Next

\* For a chart never dismissed, what its container shows last, what its lines
\* say and what is saved of it are the same, in every order of clicks and
\* answers; and nothing else is shown, unless the chart was asked for again
\* before the first answer had come.
THEOREM ShownAsSavedHolds == Spec => []ShownAsSaved
<1>1. Init => TypeOK /\ ShownInv /\ SoleInv
  BY TypeInit, ShownInit, SoleInit
<1>2. TypeOK /\ ShownInv /\ SoleInv /\ [Next]_vars => (TypeOK /\ ShownInv /\ SoleInv)'
  BY TypeStep, ShownStep, SoleStep
<1>3. TypeOK /\ ShownInv /\ SoleInv => ShownAsSaved
  BY DEF TypeOK, ShownInv, SoleInv, Sole, ShownAsSaved
<1> QED
  BY <1>1, <1>2, <1>3, PTL DEF Spec

-----------------------------------------------------------------------------
(* Every chart is within reach.  A set that holds the charts of its stacks *)
(* is closed; a family is what all closed sets with its chart have in      *)
(* common, so that it grows when there are fewer of them.                  *)

Closed(S) == \A t \in S \cap saved : stacks[t] \subseteq S
ClosedNext(S) == \A t \in S \cap saved' : stacks'[t] \subseteq S

LEMMA FamilyMembers ==
    ASSUME NEW r \in Charts, NEW c \in Charts
    PROVE  c \in Family(r) <=> \A S \in SUBSET Charts : r \in S /\ Closed(S) => c \in S
BY DEF Family, Closed

LEMMA FamilyMembersNext ==
    ASSUME NEW r \in Charts, NEW c \in Charts,
           \A S \in SUBSET Charts : r \in S /\ ClosedNext(S) => c \in S
    PROVE  (c \in Family(r))'
BY DEF Family, ClosedNext

LEMMA OwnFamily ==
    ASSUME NEW c \in Charts
    PROVE  c \in Family(c) /\ (c \in Family(c))'
BY DEF Family

\* Only charts that are saved have stacks, and each of them is within reach.
ReachInv ==
    /\ \A t \in Charts \ saved : stacks[t] = {}
    /\ \A c \in saved : \E root \in Visible : c \in Family(root)

\* A chart saved again is in a stack of a saved chart, or stands by itself.
LEMMA ReachSaved ==
    ASSUME TypeOK, ReachInv, NEW c \in Charts, saved' = saved \cup {c}, UNCHANGED stacks
    PROVE  ReachInv'
<1>1. ASSUME NEW r \in Charts, NEW d \in Charts, d \in Family(r)
      PROVE  (d \in Family(r))'
  BY <1>1, FamilyMembers, FamilyMembersNext DEF Closed, ClosedNext
<1>2. ASSUME NEW r \in Visible PROVE r \in Visible'
  BY DEF Visible, Hidden
<1>3. ASSUME NEW d \in saved PROVE \E root \in Visible' : (d \in Family(root))'
  <2>1. PICK root \in Visible : d \in Family(root)
    BY DEF ReachInv
  <2>2. root \in Charts /\ d \in Charts
    BY DEF Visible, TypeOK
  <2> QED
    BY <1>1, <1>2, <2>1, <2>2
<1>4. CASE c \notin saved
  <2>1. CASE Hidden(c)
    <3>1. PICK t \in Charts : c \in stacks[t]
      BY <2>1 DEF Hidden
    <3>2. t \in saved
      BY <3>1 DEF ReachInv
    <3>3. PICK root \in Visible : t \in Family(root)
      BY <3>2 DEF ReachInv
    <3>4. root \in Charts
      BY DEF Visible, TypeOK
    <3>5. c \in Family(root)
      BY <3>1, <3>2, <3>3, <3>4, FamilyMembers DEF Closed
    <3> QED
      BY <1>1, <1>2, <1>3, <3>3, <3>4, <3>5 DEF ReachInv
  <2>2. CASE ~Hidden(c)
    <3>1. c \in Visible'
      BY <2>2 DEF Visible, Hidden
    <3> QED
      BY <1>3, <3>1, OwnFamily DEF ReachInv
  <2> QED
    BY <2>1, <2>2
<1>5. CASE c \in saved
  BY <1>3, <1>5 DEF ReachInv
<1> QED
  BY <1>4, <1>5

\* With a chart goes all that only it leads to, and nothing else.
LEMMA ReachDeleted ==
    ASSUME TypeOK, ReachInv, NEW c \in Charts, DeleteGraph(c)
    PROVE  ReachInv'
<1> DEFINE gone == IF c \in saved THEN Family(c) \cap saved ELSE {}
<1>1. /\ saved' = saved \ gone
      /\ stacks' = [t \in Charts |-> IF t \in gone THEN {} ELSE stacks[t]]
  BY DEF DeleteGraph
<1>2. \A t \in Charts \ saved' : stacks'[t] = {}
  BY <1>1 DEF ReachInv
<1>3. ASSUME NEW d \in saved'
      PROVE  \E root \in Visible' : (d \in Family(root))'
  <2>1. d \in saved /\ d \notin gone /\ d \in Charts
    BY <1>1, <1>3 DEF TypeOK
  <2>2. PICK root \in Visible : d \in Family(root)
    BY <2>1 DEF ReachInv
  <2>3. root \in Charts /\ root \in saved /\ ~Hidden(root)
    BY DEF Visible, TypeOK
  <2>4. root \notin gone
    <3>1. SUFFICES ASSUME root \in gone PROVE FALSE
      OBVIOUS
    <3>2. c \in saved /\ root \in Family(c)
      BY <3>1
    <3>3. d \in Family(c)
      BY <2>1, <2>2, <2>3, <3>2, FamilyMembers
    <3> QED
      BY <2>1, <3>2, <3>3
  <2>5. root \in Visible'
    BY <1>1, <2>3, <2>4 DEF Visible, Hidden
  <2>6. ASSUME NEW S \in SUBSET Charts, root \in S, ClosedNext(S)
        PROVE  d \in S
    <3>1. ASSUME c \in saved PROVE Closed(S \cup Family(c))
      <4>1. Closed(Family(c))
        BY <3>1, FamilyMembers DEF Closed, Family, TypeOK
      <4> QED
        BY <1>1, <2>6, <3>1, <4>1 DEF Closed, ClosedNext, TypeOK
    <3>2. CASE c \in saved
      <4>1. S \cup Family(c) \in SUBSET Charts
        BY DEF Family
      <4>2. d \in S \cup Family(c)
        BY <2>1, <2>2, <2>3, <2>6, <3>1, <3>2, <4>1, FamilyMembers
      <4> QED
        BY <2>1, <3>2, <4>2
    <3>3. CASE c \notin saved
      <4>1. Closed(S)
        BY <1>1, <2>6, <3>3 DEF Closed, ClosedNext, TypeOK
      <4> QED
        BY <2>1, <2>2, <2>3, <2>6, <4>1, FamilyMembers
    <3> QED
      BY <3>2, <3>3
  <2>7. (d \in Family(root))'
    BY <2>1, <2>3, <2>6, FamilyMembersNext
  <2> QED
    BY <2>5, <2>7
<1> QED
  BY <1>2, <1>3 DEF ReachInv

\* What was within reach of the chart that is dropped is within reach of the
\* one it is dropped on, whoever keeps its stack.
LEMMA ReachMerged ==
    ASSUME TypeOK, ReachInv, NEW t \in Charts, NEW d \in Charts, Drop(t, d)
    PROVE  ReachInv'
<1>1. /\ t # d /\ t \in saved /\ d \in saved /\ ~Hidden(t) /\ ~Hidden(d)
      /\ saved' = saved
      /\ stacks \in [Charts -> SUBSET Charts]
  BY DEF Drop, Visible, TypeOK
<1>2. CASE stacks[t] # {}
  <2>1. stacks' = [stacks EXCEPT ![t] = @ \cup {d}]
    BY <1>2 DEF Drop, UpdateStackedGraphs
  <2>2. \A x \in Charts : stacks'[x] = IF x = t THEN stacks[t] \cup {d} ELSE stacks[x]
    BY <1>1, <2>1
  <2>3. \A S \in SUBSET Charts : ClosedNext(S) => Closed(S) /\ (t \in S => d \in S)
    BY <1>1, <2>2 DEF Closed, ClosedNext
  <2>4. ASSUME NEW c \in saved
        PROVE  \E root \in Visible' : (c \in Family(root))'
    <3>1. PICK root \in Visible : c \in Family(root)
      BY DEF ReachInv
    <3>2. root \in Charts /\ c \in Charts /\ root \in saved /\ ~Hidden(root)
      BY DEF Visible, TypeOK
    <3>3. CASE root = d
      <4>1. t \in Visible'
        BY <1>1, <2>2 DEF Visible, Hidden
      <4>2. (c \in Family(t))'
        BY <2>3, <3>1, <3>2, <3>3, FamilyMembers, FamilyMembersNext
      <4> QED
        BY <4>1, <4>2
    <3>4. CASE root # d
      <4>1. root \in Visible'
        BY <1>1, <2>2, <3>2, <3>4 DEF Visible, Hidden
      <4>2. (c \in Family(root))'
        BY <2>3, <3>1, <3>2, FamilyMembers, FamilyMembersNext
      <4> QED
        BY <4>1, <4>2
    <3> QED
      BY <3>3, <3>4
  <2>5. \A x \in Charts \ saved' : stacks'[x] = {}
    BY <1>1, <2>2 DEF ReachInv
  <2> QED
    BY <1>1, <2>4, <2>5 DEF ReachInv
<1>3. CASE stacks[t] = {}
  <2>1. stacks' = [stacks EXCEPT ![t] = stacks[d] \cup {d}, ![d] = {}]
    BY <1>3 DEF Drop, UpdateStackedGraphs
  <2>2. \A x \in Charts : stacks'[x] = IF x = d THEN {} ELSE IF x = t THEN stacks[d] \cup {d} ELSE stacks[x]
    BY <1>1, <2>1
  <2>3. ASSUME NEW S \in SUBSET Charts, ClosedNext(S)
        PROVE  /\ t \in S => Closed(S) /\ d \in S
               /\ Closed(S \ {d})
    BY <1>1, <1>3, <2>2, <2>3 DEF Closed, ClosedNext, Hidden
  <2>4. ASSUME NEW c \in saved
        PROVE  \E root \in Visible' : (c \in Family(root))'
    <3>1. PICK root \in Visible : c \in Family(root)
      BY DEF ReachInv
    <3>2. root \in Charts /\ c \in Charts /\ root \in saved /\ ~Hidden(root)
      BY DEF Visible, TypeOK
    <3>3. CASE root = d
      <4>1. t \in Visible'
        BY <1>1, <2>2 DEF Visible, Hidden
      <4>2. (c \in Family(t))'
        BY <2>3, <3>1, <3>2, <3>3, FamilyMembers, FamilyMembersNext
      <4> QED
        BY <4>1, <4>2
    <3>4. CASE root # d
      <4>1. root \in Visible'
        BY <1>1, <2>2, <3>2, <3>4 DEF Visible, Hidden
      <4>2. ASSUME NEW S \in SUBSET Charts, root \in S, ClosedNext(S)
            PROVE  c \in S
        <5>1. S \ {d} \in SUBSET Charts /\ root \in S \ {d} /\ Closed(S \ {d})
          BY <2>3, <3>4, <4>2
        <5> QED
          BY <3>1, <3>2, <5>1, FamilyMembers
      <4>3. (c \in Family(root))'
        BY <3>2, <4>2, FamilyMembersNext
      <4> QED
        BY <4>1, <4>3
    <3> QED
      BY <3>3, <3>4
  <2>5. \A x \in Charts \ saved' : stacks'[x] = {}
    BY <1>1, <2>2 DEF ReachInv
  <2> QED
    BY <1>1, <2>4, <2>5 DEF ReachInv
<1> QED
  BY <1>2, <1>3

LEMMA ReachUnchanged ==
    ASSUME ReachInv, UNCHANGED <<saved, stacks>>
    PROVE  ReachInv'
BY DEF ReachInv, Visible, Hidden, Family

LEMMA ReachInit == Init => ReachInv
<1> SUFFICES ASSUME Init PROVE ReachInv
  OBVIOUS
<1>1. \A c \in saved : c \in Visible /\ c \in Charts
  BY DEF Init, Visible, Hidden
<1> QED
  BY <1>1, OwnFamily DEF Init, ReachInv

LEMMA ReachStep ==
    ASSUME TypeOK, ReachInv, [Next]_vars
    PROVE  ReachInv'
<1>1. CASE Reload \/ UNCHANGED vars
  BY <1>1, ReachUnchanged DEF Reload, vars, store
<1>2. ASSUME NEW c \in Charts, NEW o \in Opts, NewFieldGraph(c, o)
      PROVE  ReachInv'
  BY <1>2, ReachSaved DEF NewFieldGraph
<1>3. ASSUME NEW c \in Charts, Dismiss(c)
      PROVE  ReachInv'
  BY <1>3, ReachDeleted DEF Dismiss
<1>4. ASSUME NEW c \in Charts, NEW r \in Renderers, ChangeType(c, r)
      PROVE  ReachInv'
  BY <1>4, ReachUnchanged DEF ChangeType
<1>5. ASSUME NEW c \in Charts, NEW i \in Intervals, ChangeInterval(c, i)
      PROVE  ReachInv'
  BY <1>5, ReachUnchanged DEF ChangeInterval, DeleteGraphs, store
<1>6. ASSUME NEW c \in Charts, NEW d \in Charts, Drop(c, d)
      PROVE  ReachInv'
  BY <1>6, ReachMerged
<1>7. ASSUME NEW c \in Charts, NEW i \in DOMAIN requests[c], AnswerOk(c, i)
      PROVE  ReachInv'
  BY <1>7, ReachSaved DEF AnswerOk, SaveGraph
<1>8. ASSUME NEW c \in Charts, NEW i \in DOMAIN requests[c], AnswerNotNumeric(c, i)
      PROVE  ReachInv'
  BY <1>8, ReachDeleted DEF AnswerNotNumeric
<1>9. ASSUME NEW c \in Charts, NEW i \in DOMAIN requests[c], AnswerFails(c, i)
      PROVE  ReachInv'
  BY <1>9, ReachUnchanged DEF AnswerFails, store
<1> QED
  BY <1>1, <1>2, <1>3, <1>4, <1>5, <1>6, <1>7, <1>8, <1>9 DEF Next

\* No saved chart is hidden in a stack that nobody can open: merging, deleting
\* and saving leave each within reach of a chart that stands in the page.
THEOREM NothingHiddenForEverHolds == Spec => []NothingHiddenForEver
<1>1. Init => TypeOK /\ ReachInv
  BY TypeInit, ReachInit
<1>2. TypeOK /\ ReachInv /\ [Next]_vars => (TypeOK /\ ReachInv)'
  BY TypeStep, ReachStep
<1>3. ReachInv => NothingHiddenForEver
  BY DEF ReachInv, NothingHiddenForEver
<1> QED
  BY <1>1, <1>2, <1>3, PTL DEF Spec

-----------------------------------------------------------------------------
(* Stacks are drawn whole.  A chart whose first answer has come has a graph *)
(* with its own series; what asks for it anew can only do so after that.    *)

GraphsInv ==
    /\ \A c \in rendered : c \in series[c]
    /\ \A t \in Charts : series[t] # {} => t \in rendered
    /\ loaded \subseteq rendered
    /\ \A c \in Charts : \A r \in ToSet(requests[c]) : r.event = "updated" => c \in rendered

\* A chart is in one stack at most.  One that has a stack of its own is asked
\* for once before it has a graph, and then not again while it is hidden: the
\* graph of its target has its series, unless no answer can make it stand alone
\* in its stack.
StacksInv ==
    /\ \A c, t, u \in Charts : c \in stacks[t] /\ c \in stacks[u] => t = u
    /\ \A c \in Charts \ rendered : stacks[c] # {} => Len(requests[c]) <= 1
    /\ \A t, c \in Charts :
         /\ c \in (stacks[t] \cap rendered) \ lost
         /\ series[t] # {}
         /\ stacks[c] = {} \/ requests[c] # <<>>
         => c \in series[t]

\* A container that has its graph shows it.
LiveInv == \A t \in attached \ dismissed : canvas[t] = series[t]

LEMMA NoRequests == ToSet(<<>>) = {}
BY DEF ToSet

LEMMA DetachedEvents ==
    ASSUME NEW q \in Seq(Requests), NEW r \in ToSet(Detached(q))
    PROVE  \E old \in ToSet(q) : r.event = old.event
<1>1. PICK i \in DOMAIN q : r = [q[i] EXCEPT !.container = "detached"]
  BY DEF ToSet, Detached
<1>2. q[i] \in Requests /\ q[i] \in ToSet(q)
  BY DEF ToSet
<1>3. r.event = q[i].event
  BY <1>1, <1>2 DEF Requests
<1> QED
  BY <1>2, <1>3

LEMMA UnmountEvents ==
    ASSUME TypeOK, NEW remaining \in [Charts -> Seq(Requests)], Unmount(remaining),
           \A d \in Charts : ToSet(remaining[d]) \subseteq ToSet(requests[d])
    PROVE  \A d \in Charts : \A r \in ToSet(requests'[d]) :
             \E old \in ToSet(requests[d]) : r.event = old.event
<1>1. SUFFICES ASSUME NEW d \in Charts, NEW r \in ToSet(requests'[d])
               PROVE  \E old \in ToSet(requests[d]) : r.event = old.event
  OBVIOUS
<1>2. requests'[d] = Detached(remaining[d]) \/ requests'[d] = remaining[d]
  BY DEF Unmount
<1> QED
  BY <1>1, <1>2, DetachedEvents

\* The charts that are merged when one has come.
LEMMA CombineType ==
    ASSUME TypeOK, rendered' \in SUBSET Charts, NEW c \in Charts
    PROVE  /\ Combine(c) \in [Charts -> SUBSET Charts]
           /\ \A t \in Charts \ {c} : Combine(c)[t] # {} => t \in rendered'
           /\ stacks[c] # {} => Combine(c)[c] = stacks[c] \cap rendered'
           /\ stacks[c] = {} => \A t \in rendered' : c \in stacks[t] => c \in Combine(c)[t]
<1>1. CASE stacks[c] # {}
  BY <1>1 DEF Combine, GuestsForTarget, TypeOK
<1>2. CASE stacks[c] = {}
  BY <1>2 DEF Combine, GuestsForMember, TypeOK
<1> QED
  BY <1>1, <1>2

LEMMA DrawSeries ==
    ASSUME TypeOK, NEW c \in Charts, NEW r \in Requests,
           NEW guests \in [Charts -> SUBSET Charts], Draw(c, r), MergeGuests(c, guests)
    PROVE  /\ c \in series'[c]
           /\ \A t \in Charts \ {c} : series[t] \subseteq series'[t]
           /\ \A t \in Charts \ {c} : guests[t] = {} => series'[t] = series[t]
           /\ \A t \in Charts : \A m \in guests[t] : m = c \/ m \in series[m] => m \in series'[t]
           /\ c \in attached' => canvas'[c] = series'[c]
           /\ \A t \in attached' \ {c} :
                /\ t \in attached
                /\ guests[t] # {} => canvas'[t] = series'[t]
                /\ guests[t] = {} => canvas'[t] = canvas[t]
<1> DEFINE own == [series EXCEPT ![c] = {c}]
<1>1. own \in [Charts -> SUBSET Charts]
  BY DEF TypeOK
<1>2. \A t \in Charts : own[t] = IF t = c THEN {c} ELSE series[t]
  BY DEF TypeOK
<1>3. series' = [t \in Charts |-> own[t] \cup UNION {own[m] : m \in guests[t]}]
  BY DEF Draw, MergeGuests
<1> HIDE DEF own
<1>4. \A t \in Charts : /\ own[t] \subseteq series'[t]
                        /\ \A m \in guests[t] : own[m] \subseteq series'[t]
                        /\ guests[t] = {} => series'[t] = own[t]
  BY <1>3
<1>5. /\ \A t \in attached' \ {c} : t \in attached
      /\ canvas' = [t \in Charts |-> IF t \in attached' /\ (t = c \/ guests[t] # {})
                                     THEN series'[t] ELSE canvas[t]]
      /\ attached' \subseteq Charts
  BY DEF Draw, MergeGuests, TypeOK
<1>6. \A t \in Charts : \A m \in guests[t] : m = c \/ m \in series[m] => m \in series'[t]
  BY <1>2, <1>4
<1> QED
  BY <1>2, <1>4, <1>5, <1>6

\* What an answer draws.
LEMMA AnswerDraws ==
    ASSUME TypeOK, GraphsInv, NEW c \in Charts, NEW i \in DOMAIN requests[c], AnswerOk(c, i)
    PROVE  /\ rendered' = rendered \cup {c}
           /\ c \in series'[c]
           /\ \A t \in Charts \ {c} : series[t] \subseteq series'[t]
           /\ \A t \in Charts \ rendered' : series'[t] = {}
           /\ (stacks[c] \cap rendered') \ lost' \subseteq series'[c]
           /\ requests[c][i].event = "created" /\ stacks[c] = {} =>
                \A t \in rendered' : c \in stacks[t] => c \in series'[t]
           /\ c \in attached' => canvas'[c] = series'[c]
           /\ \A t \in attached' \ {c} :
                /\ t \in attached
                /\ canvas'[t] = series'[t] \/ (canvas'[t] = canvas[t] /\ series'[t] = series[t])
<1> DEFINE r == requests[c][i]
<1>1. r \in Requests /\ r \in ToSet(requests[c]) /\ rendered' \in SUBSET Charts
  BY AnswerEffect
<1>2. /\ Draw(c, r)
      /\ MergeGuests(c, IF r.event = "created" THEN Combine(c) ELSE NoGuests)
      /\ rendered' = IF r.event = "created" THEN rendered \cup {c} ELSE rendered
      /\ lost' = IF r.event = "created" THEN lost ELSE lost \cup stacks[c]
  BY DEF AnswerOk
<1>3. r.event = "created" \/ r.event = "updated"
  BY <1>1 DEF Requests
<1>4. r.event = "updated" => c \in rendered
  BY <1>1 DEF GraphsInv
<1>5. rendered' = rendered \cup {c}
  BY <1>2, <1>3, <1>4
<1>6. CASE r.event = "created"
  <2> DEFINE guests == Combine(c)
  <2>1. /\ guests \in [Charts -> SUBSET Charts]
        /\ \A t \in Charts \ {c} : guests[t] # {} => t \in rendered'
        /\ stacks[c] # {} => guests[c] = stacks[c] \cap rendered'
        /\ stacks[c] = {} => \A t \in rendered' : c \in stacks[t] => c \in guests[t]
    BY <1>1, CombineType
  <2>2. Draw(c, r) /\ MergeGuests(c, guests)
    BY <1>2, <1>6
  <2> HIDE DEF guests, r
  <2>3. /\ c \in series'[c]
        /\ \A t \in Charts \ {c} : series[t] \subseteq series'[t]
        /\ \A t \in Charts \ {c} : guests[t] = {} => series'[t] = series[t]
        /\ \A t \in Charts : \A m \in guests[t] : m = c \/ m \in series[m] => m \in series'[t]
        /\ c \in attached' => canvas'[c] = series'[c]
        /\ \A t \in attached' \ {c} :
             /\ t \in attached
             /\ guests[t] # {} => canvas'[t] = series'[t]
             /\ guests[t] = {} => canvas'[t] = canvas[t]
    BY <1>1, <2>1, <2>2, DrawSeries
  <2>4. \A t \in Charts \ rendered' : series'[t] = {}
    BY <1>5, <2>1, <2>3 DEF GraphsInv
  <2>5. stacks[c] \cap rendered' \subseteq series'[c]
    BY <1>5, <2>1, <2>3 DEF GraphsInv
  <2>6. stacks[c] = {} => \A t \in rendered' : c \in stacks[t] => c \in series'[t]
    BY <1>1, <2>1, <2>3
  <2>7. attached \subseteq Charts
    BY DEF TypeOK
  <2> QED
    BY <1>5, <2>3, <2>4, <2>5, <2>6, <2>7
<1>7. CASE r.event = "updated"
  <2>1. NoGuests \in [Charts -> SUBSET Charts] /\ \A t \in Charts : NoGuests[t] = {}
    BY DEF NoGuests
  <2>2. Draw(c, r) /\ MergeGuests(c, NoGuests) /\ lost' = lost \cup stacks[c]
    BY <1>2, <1>7
  <2> HIDE DEF r
  <2>3. /\ c \in series'[c]
        /\ \A t \in Charts \ {c} : series'[t] = series[t]
        /\ c \in attached' => canvas'[c] = series'[c]
        /\ \A t \in attached' \ {c} : t \in attached /\ canvas'[t] = canvas[t]
    <3> HIDE DEF NoGuests
    <3> QED
      BY <1>1, <2>1, <2>2, DrawSeries DEF TypeOK
  <2>4. \A t \in Charts \ rendered' : series'[t] = {}
    BY <1>5, <2>3 DEF GraphsInv
  <2>5. attached \subseteq Charts /\ r = requests[c][i]
    BY DEF TypeOK, r
  <2> QED
    BY <1>5, <1>7, <2>2, <2>3, <2>4, <2>5
<1> QED
  BY <1>3, <1>6, <1>7

LEMMA GraphsInit == Init => GraphsInv
<1> SUFFICES ASSUME Init PROVE GraphsInv
  OBVIOUS
<1>1. ASSUME NEW c \in Charts, NEW r \in ToSet(requests[c])
      PROVE  r.event # "updated"
  <2>1. requests[c] = IF c \in saved THEN <<Request(opts[c], "created")>> ELSE <<>>
    BY DEF Init, FirstRequests
  <2>2. r = Request(opts[c], "created")
    BY <2>1, NoRequests, SingleRequest
  <2> QED
    BY <2>2 DEF Request
<1> QED
  BY <1>1 DEF Init, GraphsInv

LEMMA GraphsStep ==
    ASSUME TypeOK, TypeOK', GraphsInv, [Next]_vars
    PROVE  GraphsInv'
<1> USE DEF store, containers, graphs, history
<1>1. CASE Reload
  <2>1. ASSUME NEW c \in Charts, NEW r \in ToSet(requests'[c])
        PROVE  r.event # "updated"
    <3>1. requests'[c] = IF c \in saved THEN <<Request(opts[c], "created")>> ELSE <<>>
      BY <1>1 DEF Reload, FirstRequests
    <3>2. r = Request(opts[c], "created")
      BY <3>1, NoRequests, SingleRequest
    <3> QED
      BY <3>2 DEF Request
  <2> QED
    BY <1>1, <2>1 DEF Reload, GraphsInv
<1>2. ASSUME NEW c \in Charts, NEW o \in Opts, NewFieldGraph(c, o)
      PROVE GraphsInv'
  <2>1. requests'[c] = <<Request(o, "created")>> /\ \A d \in Charts \ {c} : requests'[d] = requests[d]
    BY <1>2 DEF NewFieldGraph, TypeOK
  <2>2. \A r \in ToSet(requests'[c]) : r.event # "updated"
    BY <2>1, SingleRequest DEF Request
  <2> QED
    BY <1>2, <2>1, <2>2 DEF NewFieldGraph, GraphsInv
<1>3. ASSUME NEW remaining \in [Charts -> Seq(Requests)], Unmount(remaining),
             \A d \in Charts : ToSet(remaining[d]) \subseteq ToSet(requests[d]),
             UNCHANGED <<rendered, series>>
      PROVE GraphsInv'
  <2>1. \A d \in Charts : \A r \in ToSet(requests'[d]) :
          \E old \in ToSet(requests[d]) : r.event = old.event
    BY <1>3, UnmountEvents
  <2>2. loaded' \subseteq loaded
    BY <1>3 DEF Unmount
  <2> QED
    BY <1>3, <2>1, <2>2 DEF GraphsInv
<1>4. ASSUME NEW c \in Charts, NEW r \in Renderers, ChangeType(c, r)
      PROVE GraphsInv'
  BY <1>4 DEF ChangeType, GraphsInv
<1>5. ASSUME NEW c \in Charts, NEW i \in Intervals, ChangeInterval(c, i)
      PROVE GraphsInv'
  <2>1. requests[c] \in Seq(Requests) /\ lines'[c] \in Opts
    BY <1>5 DEF ChangeInterval, DeleteGraphs, TypeOK
  <2>2. Request(lines'[c], "updated") \in Requests
    BY <2>1, RequestType
  <2>3. requests'[c] = Append(requests[c], Request(lines'[c], "updated"))
    BY <1>5 DEF ChangeInterval, DeleteGraphs, TypeOK
  <2>4. ToSet(requests'[c]) = ToSet(requests[c]) \cup {Request(lines'[c], "updated")}
    BY <2>1, <2>2, <2>3, ToSetAppend
  <2>5. \A d \in Charts \ {c} : requests'[d] = requests[d]
    BY <1>5 DEF ChangeInterval, DeleteGraphs, TypeOK
  <2>6. c \in rendered
    BY <1>5 DEF ChangeInterval, DeleteGraphs, GraphsInv
  <2> QED
    BY <1>5, <2>4, <2>5, <2>6 DEF ChangeInterval, DeleteGraphs, GraphsInv
<1>6. ASSUME NEW t \in Charts, NEW d \in Charts, Drop(t, d)
      PROVE GraphsInv'
  <2>1. \A c \in Charts : series[c] \subseteq series'[c] /\ (c # t => series'[c] = series[c])
    BY <1>6 DEF Drop, TypeOK
  <2>2. t \in rendered
    BY <1>6 DEF Drop, GraphsInv
  <2> QED
    BY <1>6, <2>1, <2>2 DEF Drop, GraphsInv, TypeOK
<1>7. ASSUME NEW c \in Charts, NEW i \in DOMAIN requests[c], AnswerOk(c, i)
      PROVE GraphsInv'
  <2>1. /\ \A d \in Charts \ {c} : requests'[d] = requests[d]
        /\ ToSet(requests'[c]) \subseteq ToSet(requests[c]) \cup {Request(requests[c][i].opts, "created")}
    BY <1>7, AnswerEffect
  <2>2. Request(requests[c][i].opts, "created").event = "created"
    BY DEF Request
  <2>3. /\ rendered' = rendered \cup {c}
        /\ c \in series'[c]
        /\ \A t \in Charts \ {c} : series[t] \subseteq series'[t]
        /\ \A t \in Charts \ rendered' : series'[t] = {}
    BY <1>7, AnswerDraws
  <2>4. loaded' \subseteq loaded \cup {c}
    BY <1>7 DEF AnswerOk
  <2>5. \A d \in Charts : \A r \in ToSet(requests'[d]) : r.event = "updated" => d \in rendered'
    BY <2>1, <2>2, <2>3 DEF GraphsInv
  <2> QED
    BY <2>3, <2>4, <2>5 DEF GraphsInv, TypeOK
<1>8. ASSUME NEW c \in Charts, NEW i \in DOMAIN requests[c]
      PROVE  /\ [requests EXCEPT ![c] = RemoveAt(@, i)] \in [Charts -> Seq(Requests)]
             /\ \A d \in Charts :
                  ToSet([requests EXCEPT ![c] = RemoveAt(@, i)][d]) \subseteq ToSet(requests[d])
  <2>1. requests[c] \in Seq(Requests) /\ requests \in [Charts -> Seq(Requests)]
    BY DEF TypeOK
  <2> DEFINE rest == RemoveAt(requests[c], i)
  <2>2. rest \in Seq(Requests) /\ ToSet(rest) \subseteq ToSet(requests[c])
    BY <2>1, RemoveAtType
  <2> HIDE DEF rest
  <2>3. /\ [requests EXCEPT ![c] = rest] \in [Charts -> Seq(Requests)]
        /\ \A d \in Charts : [requests EXCEPT ![c] = rest][d] = IF d = c THEN rest ELSE requests[d]
    BY <2>1, <2>2
  <2>4. [requests EXCEPT ![c] = RemoveAt(@, i)] = [requests EXCEPT ![c] = rest]
    BY DEF rest
  <2> QED
    BY <2>2, <2>3, <2>4
<1>9. ASSUME NEW c \in Charts, Dismiss(c)
      PROVE GraphsInv'
  <2>1. requests \in [Charts -> Seq(Requests)]
    BY DEF TypeOK
  <2> QED
    BY <1>3, <1>9, <2>1 DEF Dismiss
<1>10. ASSUME NEW c \in Charts, NEW i \in DOMAIN requests[c], AnswerNotNumeric(c, i)
       PROVE GraphsInv'
  BY <1>3, <1>8, <1>10 DEF AnswerNotNumeric
<1>11. ASSUME NEW c \in Charts, NEW i \in DOMAIN requests[c], AnswerFails(c, i)
       PROVE GraphsInv'
  <2>1. \A d \in Charts : ToSet(requests'[d]) \subseteq ToSet(requests[d])
    BY <1>8, <1>11 DEF AnswerFails
  <2> QED
    BY <1>11, <2>1 DEF AnswerFails, GraphsInv
<1>12. CASE UNCHANGED vars
  BY <1>12 DEF vars, GraphsInv
<1> QED
  BY <1>1, <1>2, <1>4, <1>5, <1>6, <1>7, <1>9, <1>10, <1>11, <1>12 DEF Next

LEMMA StacksInit == Init => StacksInv
<1> SUFFICES ASSUME Init PROVE StacksInv
  OBVIOUS
<1> QED
  BY DEF Init, StacksInv

\* Merging: the dropped chart and its stack have their series in the target.
LEMMA StacksMerged ==
    ASSUME TypeOK, GraphsInv, StacksInv, NEW t \in Charts, NEW d \in Charts, Drop(t, d)
    PROVE  StacksInv'
<1>1. /\ t # d /\ ~Hidden(t) /\ ~Hidden(d) /\ t \in rendered /\ d \in rendered
      /\ d \in series[d]
      /\ UNCHANGED <<rendered, lost, requests>>
  BY DEF Drop, Visible, GraphsInv, history
<1>2. \A x \in Charts : series'[x] = IF x = t THEN series[t] \cup series[d] ELSE series[x]
  BY DEF Drop, TypeOK
<1>3. \A x \in Charts : d \notin stacks[x] /\ t \notin stacks[x]
  BY <1>1 DEF Hidden
<1>4. CASE stacks[t] # {}
  <2>1. \A x \in Charts : stacks'[x] = IF x = t THEN stacks[t] \cup {d} ELSE stacks[x]
    BY <1>4 DEF Drop, UpdateStackedGraphs, TypeOK
  <2>2. \A c, x, y \in Charts : c \in stacks'[x] /\ c \in stacks'[y] => x = y
    BY <1>3, <2>1 DEF StacksInv
  <2>3. \A c \in Charts \ rendered' : stacks'[c] # {} => Len(requests'[c]) <= 1
    BY <1>1, <2>1 DEF StacksInv
  <2>4. ASSUME NEW x \in Charts, NEW c \in Charts,
               c \in (stacks'[x] \cap rendered') \ lost', series'[x] # {},
               stacks'[c] = {} \/ requests'[c] # <<>>
        PROVE  c \in series'[x]
    <3>1. stacks[c] = {} \/ requests[c] # <<>>
      BY <1>1, <1>4, <2>1, <2>4
    <3>2. CASE x = t /\ c = d
      BY <1>1, <1>2, <3>2
    <3>3. CASE x = t /\ c # d
      BY <1>1, <1>2, <2>1, <2>4, <3>1, <3>3 DEF StacksInv, GraphsInv
    <3>4. CASE x # t
      BY <1>1, <1>2, <2>1, <2>4, <3>1, <3>4 DEF StacksInv
    <3> QED
      BY <3>2, <3>3, <3>4
  <2> QED
    BY <2>2, <2>3, <2>4 DEF StacksInv
<1>5. CASE stacks[t] = {}
  <2>1. \A x \in Charts : stacks'[x] = IF x = d THEN {} ELSE IF x = t THEN stacks[d] \cup {d} ELSE stacks[x]
    BY <1>1, <1>5 DEF Drop, UpdateStackedGraphs, TypeOK
  <2>2. \A c, x, y \in Charts : c \in stacks'[x] /\ c \in stacks'[y] => x = y
    BY <1>3, <2>1 DEF StacksInv
  <2>3. \A c \in Charts \ rendered' : stacks'[c] # {} => Len(requests'[c]) <= 1
    BY <1>1, <2>1 DEF StacksInv
  <2>4. ASSUME NEW x \in Charts, NEW c \in Charts,
               c \in (stacks'[x] \cap rendered') \ lost', series'[x] # {},
               stacks'[c] = {} \/ requests'[c] # <<>>
        PROVE  c \in series'[x]
    <3>1. CASE x = t /\ c = d
      BY <1>1, <1>2, <3>1
    <3>2. CASE x = t /\ c # d
      <4>1. c \in stacks[d] /\ c # t
        BY <1>1, <1>3, <2>1, <2>4, <3>2
      <4>2. stacks[c] = {} \/ requests[c] # <<>>
        BY <1>1, <2>1, <2>4, <3>2, <4>1
      <4>3. c \in series[d]
        BY <1>1, <2>4, <4>1, <4>2 DEF StacksInv
      <4> QED
        BY <1>2, <3>2, <4>3
    <3>3. CASE x # t
      <4>1. x # d /\ c \in stacks[x] /\ c # d /\ c # t
        BY <1>3, <2>1, <2>4, <3>3
      <4> QED
        BY <1>1, <1>2, <2>1, <2>4, <3>3, <4>1 DEF StacksInv
    <3> QED
      BY <3>1, <3>2, <3>3
  <2> QED
    BY <2>2, <2>3, <2>4 DEF StacksInv
<1> QED
  BY <1>4, <1>5

\* Deleting: a chart that goes while its target stays has had an answer of its
\* own; its stack goes with it, and it is a chart of the target's as before.
LEMMA StacksDeleted ==
    ASSUME TypeOK, ReachInv, StacksInv, NEW c \in Charts, DeleteGraph(c),
           NEW remaining \in [Charts -> Seq(Requests)], Unmount(remaining),
           \A d \in Charts : Len(remaining[d]) <= Len(requests[d]),
           requests[c] # <<>> \/ ~Hidden(c),
           UNCHANGED <<rendered, series, lost>>
    PROVE  StacksInv'
<1> DEFINE gone == IF c \in saved THEN Family(c) \cap saved ELSE {}
<1>1. /\ saved' = saved \ gone
      /\ \A t \in Charts : stacks'[t] = IF t \in gone THEN {} ELSE stacks[t]
  BY DEF DeleteGraph
<1>2. saved \ saved' = gone
  BY <1>1
<1>3. \A d \in Charts \ gone : requests'[d] = remaining[d]
  BY <1>2 DEF Unmount
<1>4. ASSUME NEW d \in Charts, remaining[d] # <<>>
      PROVE  requests[d] # <<>>
  <2>1. remaining[d] \in Seq(Requests) /\ requests[d] \in Seq(Requests)
    BY DEF TypeOK
  <2>2. Len(remaining[d]) # 0 /\ Len(remaining[d]) \in Nat /\ Len(requests[d]) \in Nat
    BY <1>4, <2>1
  <2> QED
    BY <2>1, <2>2
<1>5. ASSUME NEW t \in Charts \ gone, NEW d \in gone, d \in stacks[t]
      PROVE  d = c
  <2>1. SUFFICES ASSUME d # c PROVE FALSE
    OBVIOUS
  <2>2. c \in saved /\ d \in Family(c) /\ d \in Charts
    BY <1>5 DEF Family
  <2>3. \A x \in Family(c) \cap saved : d \notin stacks[x]
    <3>1. \A x \in Charts : d \in stacks[x] => x = t
      BY <1>5, <2>2 DEF StacksInv
    <3>2. t \notin Family(c) \cap saved
      BY <1>5, <2>2
    <3> QED
      BY <3>1, <3>2 DEF Family
  <2>4. Closed(Family(c))
    BY <2>2, FamilyMembers DEF Closed, Family, TypeOK
  <2>5. Closed(Family(c) \ {d})
    BY <2>3, <2>4 DEF Closed
  <2>6. c \in Family(c) \ {d} /\ Family(c) \ {d} \in SUBSET Charts
    BY <2>1, OwnFamily DEF Family
  <2>7. d \in Family(c) \ {d}
    BY <2>2, <2>5, <2>6, FamilyMembers
  <2> QED
    BY <2>7
<1>6. ASSUME NEW t \in Charts, NEW d \in Charts,
             d \in (stacks'[t] \cap rendered') \ lost', series'[t] # {},
             stacks'[d] = {} \/ requests'[d] # <<>>
      PROVE  d \in series'[t]
  <2>1. t \notin gone /\ d \in stacks[t]
    BY <1>1, <1>6
  <2>2. stacks[d] = {} \/ requests[d] # <<>>
    <3>1. CASE d \in gone
      <4>1. d = c /\ Hidden(c)
        BY <1>5, <2>1, <3>1 DEF Hidden
      <4> QED
        BY <4>1
    <3>2. CASE d \notin gone
      BY <1>1, <1>3, <1>4, <1>6, <3>2
    <3> QED
      BY <3>1, <3>2
  <2> QED
    BY <1>6, <2>1, <2>2 DEF StacksInv
<1>7. \A d, x, y \in Charts : d \in stacks'[x] /\ d \in stacks'[y] => x = y
  BY <1>1 DEF StacksInv
<1>8. ASSUME NEW d \in Charts \ rendered', stacks'[d] # {}
      PROVE  Len(requests'[d]) <= 1
  <2>1. d \notin gone /\ stacks[d] # {} /\ d \notin rendered
    BY <1>1, <1>8
  <2>2. Len(requests[d]) <= 1 /\ Len(remaining[d]) <= Len(requests[d])
    BY <2>1 DEF StacksInv
  <2>3. Len(remaining[d]) \in Nat /\ Len(requests[d]) \in Nat
    BY DEF TypeOK
  <2> QED
    BY <1>3, <2>1, <2>2, <2>3
<1> QED
  BY <1>6, <1>7, <1>8 DEF StacksInv

\* An answer: the charts of its stack are drawn with it, or lost; it is drawn
\* with its target, or was, unless it has a stack of its own and no request.
LEMMA StacksAnswered ==
    ASSUME TypeOK, ReachInv, GraphsInv, StacksInv,
           NEW c \in Charts, NEW i \in DOMAIN requests[c], AnswerOk(c, i)
    PROVE  StacksInv'
<1>1. /\ rendered' = rendered \cup {c}
      /\ c \in series'[c]
      /\ \A t \in Charts \ {c} : series[t] \subseteq series'[t]
      /\ \A t \in Charts \ rendered' : series'[t] = {}
      /\ (stacks[c] \cap rendered') \ lost' \subseteq series'[c]
      /\ requests[c][i].event = "created" /\ stacks[c] = {} =>
           \A t \in rendered' : c \in stacks[t] => c \in series'[t]
  BY AnswerDraws
<1>2. /\ stacks' = stacks /\ lost \subseteq lost'
      /\ requests' = [requests EXCEPT ![c] =
                        IF c \in saved THEN RemoveAt(requests[c], i)
                        ELSE Append(RemoveAt(requests[c], i), Request(requests[c][i].opts, "created"))]
  BY DEF AnswerOk, SaveGraph
<1>3. requests[c] \in Seq(Requests) /\ requests \in [Charts -> Seq(Requests)]
  BY DEF TypeOK
<1>4. requests[c] # <<>> /\ Len(requests[c]) \in Nat /\ requests[c][i] \in ToSet(requests[c])
      /\ requests[c][i] \in Requests
  BY <1>3 DEF ToSet
<1>5. \A d \in Charts \ {c} : requests'[d] = requests[d]
  BY <1>2, <1>3
<1>6. ASSUME c \in saved
      PROVE  Len(requests'[c]) = Len(requests[c]) - 1 /\ requests'[c] \in Seq(Requests)
  <2>1. requests'[c] = RemoveAt(requests[c], i)
    BY <1>2, <1>3, <1>6
  <2> QED
    BY <1>3, <2>1, RemoveAtType
<1>7. stacks[c] # {} => c \in saved
  BY DEF ReachInv
<1>8. ASSUME NEW t \in Charts \ {c}, c \in stacks[t], c \notin lost', series'[t] # {},
             stacks[c] = {} \/ requests'[c] # <<>>
      PROVE  c \in series'[t]
  <2>1. t \in rendered
    BY <1>1, <1>8
  <2>2. CASE c \in rendered
    <3>1. c \in series[t]
      BY <1>2, <1>4, <1>8, <2>1, <2>2 DEF StacksInv, GraphsInv
    <3> QED
      BY <1>1, <3>1
  <2>3. CASE c \notin rendered /\ stacks[c] = {}
    <3>1. requests[c][i].event # "updated"
      BY <1>4, <2>3 DEF GraphsInv
    <3>2. requests[c][i].event = "created"
      BY <1>4, <3>1 DEF Requests
    <3> QED
      BY <1>1, <1>8, <2>1, <2>3, <3>2
  <2>4. CASE c \notin rendered /\ stacks[c] # {}
    <3>1. Len(requests[c]) <= 1 /\ c \in saved
      BY <1>7, <2>4 DEF StacksInv
    <3>2. Len(requests'[c]) <= 0 /\ Len(requests'[c]) \in Nat /\ requests'[c] \in Seq(Requests)
      BY <1>4, <1>6, <3>1
    <3>3. requests'[c] = <<>>
      BY <3>2
    <3> QED
      BY <1>8, <2>4, <3>3
  <2> QED
    BY <2>2, <2>3, <2>4
<1>9. ASSUME NEW t \in Charts, NEW d \in Charts,
             d \in (stacks'[t] \cap rendered') \ lost', series'[t] # {},
             stacks'[d] = {} \/ requests'[d] # <<>>
      PROVE  d \in series'[t]
  <2>1. CASE t = c
    BY <1>1, <1>2, <1>9, <2>1
  <2>2. CASE t # c /\ d = c
    BY <1>2, <1>8, <1>9, <2>2
  <2>3. CASE t # c /\ d # c
    <3>1. t \in rendered /\ d \in rendered
      BY <1>1, <1>9, <2>3
    <3>2. d \in series[t]
      BY <1>2, <1>5, <1>9, <2>3, <3>1 DEF StacksInv, GraphsInv
    <3> QED
      BY <1>1, <2>3, <3>2
  <2> QED
    BY <2>1, <2>2, <2>3
<1>10. \A d \in Charts \ rendered' : stacks'[d] # {} => Len(requests'[d]) <= 1
  BY <1>1, <1>2, <1>5 DEF StacksInv
<1> QED
  BY <1>2, <1>9, <1>10 DEF StacksInv

LEMMA StacksStep ==
    ASSUME TypeOK, ShownInv, ReachInv, GraphsInv, StacksInv, [Next]_vars
    PROVE  StacksInv'
<1> USE DEF store, containers, graphs, history
<1>1. CASE Reload
  <2>1. ASSUME NEW c \in Charts PROVE Len(requests'[c]) <= 1
    <3>1. requests'[c] = <<>> \/ requests'[c] = <<Request(opts[c], "created")>>
      BY <1>1 DEF Reload, FirstRequests
    <3>2. CASE requests'[c] = <<>>
      BY <3>2
    <3>3. CASE requests'[c] = <<Request(opts[c], "created")>>
      <4>1. Len(requests'[c]) = 1
        BY <3>3
      <4> QED
        BY <4>1
    <3> QED
      BY <3>1, <3>2, <3>3
  <2> QED
    BY <1>1, <2>1 DEF Reload, StacksInv
<1>2. ASSUME NEW c \in Charts, NEW o \in Opts, NewFieldGraph(c, o)
      PROVE StacksInv'
  <2>1. /\ requests'[c] = <<Request(o, "created")>>
        /\ \A d \in Charts \ {c} : requests'[d] = requests[d]
        /\ UNCHANGED <<stacks, rendered, series, lost>>
    BY <1>2 DEF NewFieldGraph, TypeOK
  <2>2. Len(requests'[c]) = 1
    BY <2>1
  <2>3. c \in saved \/ stacks[c] = {}
    BY DEF ReachInv
  <2>4. c \notin saved
    BY <1>2 DEF NewFieldGraph, ShownInv
  <2> QED
    BY <2>1, <2>2, <2>3, <2>4 DEF StacksInv
<1>3. ASSUME NEW c \in Charts, Dismiss(c)
      PROVE StacksInv'
  <2>1. requests \in [Charts -> Seq(Requests)] /\ \A d \in Charts : Len(requests[d]) <= Len(requests[d])
    BY DEF TypeOK
  <2>2. ~Hidden(c)
    BY <1>3 DEF Dismiss, Visible
  <2> QED
    BY <1>3, <2>1, <2>2, StacksDeleted DEF Dismiss
<1>4. ASSUME NEW c \in Charts, NEW r \in Renderers, ChangeType(c, r)
      PROVE StacksInv'
  BY <1>4 DEF ChangeType, StacksInv
<1>5. ASSUME NEW c \in Charts, NEW i \in Intervals, ChangeInterval(c, i)
      PROVE StacksInv'
  <2>1. c \in rendered /\ ~Hidden(c)
    BY <1>5 DEF ChangeInterval, DeleteGraphs, Visible, GraphsInv
  <2>2. \A d \in Charts \ {c} : requests'[d] = requests[d]
    BY <1>5 DEF ChangeInterval, DeleteGraphs, TypeOK
  <2> QED
    BY <1>5, <2>1, <2>2 DEF ChangeInterval, DeleteGraphs, StacksInv, Hidden
<1>6. ASSUME NEW t \in Charts, NEW d \in Charts, Drop(t, d)
      PROVE StacksInv'
  BY <1>6, StacksMerged
<1>7. ASSUME NEW c \in Charts, NEW i \in DOMAIN requests[c], AnswerOk(c, i)
      PROVE StacksInv'
  BY <1>7, StacksAnswered
<1>8. ASSUME NEW c \in Charts, NEW i \in DOMAIN requests[c]
      PROVE  /\ [requests EXCEPT ![c] = RemoveAt(@, i)] \in [Charts -> Seq(Requests)]
             /\ \A d \in Charts : Len([requests EXCEPT ![c] = RemoveAt(@, i)][d]) <= Len(requests[d])
             /\ requests[c] # <<>>
  <2>1. requests[c] \in Seq(Requests) /\ requests \in [Charts -> Seq(Requests)] /\ requests[c] # <<>>
    BY DEF TypeOK
  <2>2. Len(requests[c]) \in Nat /\ \A d \in Charts : Len(requests[d]) \in Nat
    BY <2>1
  <2> DEFINE rest == RemoveAt(requests[c], i)
  <2>3. rest \in Seq(Requests) /\ Len(rest) <= Len(requests[c])
    BY <2>1, <2>2, RemoveAtType
  <2> HIDE DEF rest
  <2>4. /\ [requests EXCEPT ![c] = rest] \in [Charts -> Seq(Requests)]
        /\ \A d \in Charts : [requests EXCEPT ![c] = rest][d] = IF d = c THEN rest ELSE requests[d]
    BY <2>1, <2>3
  <2>5. [requests EXCEPT ![c] = RemoveAt(@, i)] = [requests EXCEPT ![c] = rest]
    BY DEF rest
  <2> QED
    BY <2>1, <2>2, <2>3, <2>4, <2>5
<1>9. ASSUME NEW c \in Charts, NEW i \in DOMAIN requests[c], AnswerNotNumeric(c, i)
      PROVE StacksInv'
  BY <1>8, <1>9, StacksDeleted DEF AnswerNotNumeric
<1>10. ASSUME NEW c \in Charts, NEW i \in DOMAIN requests[c], AnswerFails(c, i)
       PROVE StacksInv'
  <2>1. \A d \in Charts : /\ requests'[d] \in Seq(Requests) /\ requests[d] \in Seq(Requests)
                          /\ Len(requests'[d]) <= Len(requests[d])
    BY <1>8, <1>10 DEF AnswerFails, TypeOK
  <2>2. \A d \in Charts : Len(requests'[d]) \in Nat /\ Len(requests[d]) \in Nat
    BY <2>1
  <2>3. \A d \in Charts : requests'[d] # <<>> => requests[d] # <<>>
    BY <2>1, <2>2
  <2> QED
    BY <1>10, <2>1, <2>2, <2>3 DEF AnswerFails, StacksInv
<1>11. CASE UNCHANGED vars
  BY <1>11 DEF vars, StacksInv
<1> QED
  BY <1>1, <1>2, <1>3, <1>4, <1>5, <1>6, <1>7, <1>9, <1>10, <1>11 DEF Next

LEMMA LiveStep ==
    ASSUME TypeOK, GraphsInv, ShownInv, LiveInv, [Next]_vars
    PROVE  LiveInv'
<1> USE DEF store, containers, graphs, history
<1>1. CASE Reload
  BY <1>1 DEF Reload, LiveInv
<1>2. ASSUME NEW c \in Charts, NEW o \in Opts, NewFieldGraph(c, o)
      PROVE LiveInv'
  BY <1>2 DEF NewFieldGraph, LiveInv
<1>3. ASSUME NEW remaining \in [Charts -> Seq(Requests)], Unmount(remaining), UNCHANGED series
      PROVE LiveInv'
  <2>1. /\ \A c \in Charts \ dismissed' :
             canvas'[c] = canvas[c] /\ (c \in attached' <=> c \in attached)
        /\ dismissed \subseteq dismissed' /\ attached' \in SUBSET Charts
    BY <1>3, UnmountEffect
  <2> QED
    BY <1>3, <2>1 DEF LiveInv
<1>4. ASSUME NEW c \in Charts, NEW r \in Renderers, ChangeType(c, r)
      PROVE LiveInv'
  BY <1>4 DEF ChangeType, LiveInv
<1>5. ASSUME NEW c \in Charts, NEW i \in Intervals, ChangeInterval(c, i)
      PROVE LiveInv'
  <2>1. attached' = attached \ {c} /\ UNCHANGED <<series, dismissed>>
    BY <1>5 DEF ChangeInterval, DeleteGraphs
  <2>2. \A d \in Charts \ {c} : canvas'[d] = canvas[d]
    BY <1>5 DEF ChangeInterval, DeleteGraphs, TypeOK
  <2> QED
    BY <2>1, <2>2 DEF LiveInv, TypeOK
<1>6. ASSUME NEW t \in Charts, NEW d \in Charts, Drop(t, d)
      PROVE LiveInv'
  <2>1. /\ \A c \in Charts \ {t} : series'[c] = series[c] /\ canvas'[c] = canvas[c]
        /\ t \in attached => canvas'[t] = series'[t]
        /\ UNCHANGED <<attached, dismissed>>
    BY <1>6 DEF Drop, TypeOK
  <2> QED
    BY <2>1 DEF LiveInv, TypeOK
<1>7. ASSUME NEW c \in Charts, NEW i \in DOMAIN requests[c], AnswerOk(c, i)
      PROVE LiveInv'
  <2>1. /\ c \in attached' => canvas'[c] = series'[c]
        /\ \A t \in attached' \ {c} :
             /\ t \in attached
             /\ canvas'[t] = series'[t] \/ (canvas'[t] = canvas[t] /\ series'[t] = series[t])
    BY <1>7, AnswerDraws
  <2>2. dismissed' = dismissed
    BY <1>7 DEF AnswerOk
  <2> QED
    BY <2>1, <2>2 DEF LiveInv
<1>8. ASSUME NEW c \in Charts, Dismiss(c)
      PROVE LiveInv'
  <2>1. requests \in [Charts -> Seq(Requests)]
    BY DEF TypeOK
  <2> QED
    BY <1>3, <1>8, <2>1 DEF Dismiss
<1>9. ASSUME NEW c \in Charts, NEW i \in DOMAIN requests[c], AnswerNotNumeric(c, i)
      PROVE LiveInv'
  <2> DEFINE remaining == [requests EXCEPT ![c] = RemoveAt(@, i)]
  <2>1. requests[c] \in Seq(Requests) /\ requests \in [Charts -> Seq(Requests)]
    BY DEF TypeOK
  <2>2. RemoveAt(requests[c], i) \in Seq(Requests)
    BY <2>1, RemoveAtType
  <2>3. remaining \in [Charts -> Seq(Requests)]
    BY <2>1, <2>2
  <2>4. Unmount(remaining) /\ UNCHANGED series
    BY <1>9 DEF AnswerNotNumeric
  <2> HIDE DEF remaining
  <2> QED
    BY <1>3, <2>3, <2>4
<1>10. ASSUME NEW c \in Charts, NEW i \in DOMAIN requests[c], AnswerFails(c, i)
       PROVE LiveInv'
  BY <1>10 DEF AnswerFails, LiveInv
<1>11. CASE UNCHANGED vars
  BY <1>11 DEF vars, LiveInv
<1> QED
  BY <1>1, <1>2, <1>4, <1>5, <1>6, <1>7, <1>8, <1>9, <1>10, <1>11 DEF Next

\* The charts of a stack are drawn with its target, in whatever order the
\* answers come, however the stack was built and whatever was deleted from it.
THEOREM StackIsDrawnHolds == Spec => []StackIsDrawn
<1> DEFINE AllInv == TypeOK /\ ShownInv /\ ReachInv /\ GraphsInv /\ StacksInv /\ LiveInv
<1>1. Init => AllInv
  <2>1. Init => LiveInv
    BY DEF Init, LiveInv
  <2> QED
    BY <2>1, TypeInit, ShownInit, ReachInit, GraphsInit, StacksInit
<1>2. AllInv /\ [Next]_vars => AllInv'
  <2> SUFFICES ASSUME AllInv, [Next]_vars PROVE AllInv'
    OBVIOUS
  <2>1. TypeOK'
    BY TypeStep
  <2>2. ShownInv'
    BY <2>1, ShownStep
  <2>3. ReachInv'
    BY ReachStep
  <2>4. GraphsInv'
    BY <2>1, GraphsStep
  <2>5. StacksInv'
    BY StacksStep
  <2>6. LiveInv'
    BY LiveStep
  <2> QED
    BY <2>1, <2>2, <2>3, <2>4, <2>5, <2>6
<1>3. AllInv => StackIsDrawn
  <2> SUFFICES ASSUME AllInv, NEW t \in Visible \ dismissed, canvas[t] # {},
                      NEW c \in (stacks[t] \cap rendered) \ lost, stacks[c] = {}
               PROVE  c \in canvas[t]
    BY DEF StackIsDrawn
  <2>1. t \in Charts /\ c \in Charts
    BY DEF TypeOK, Visible
  <2>2. t \in attached
    BY <2>1 DEF ShownInv
  <2>3. canvas[t] = series[t]
    BY <2>2 DEF LiveInv
  <2>4. c \in series[t]
    BY <2>1, <2>3 DEF StacksInv
  <2> QED
    BY <2>3, <2>4
<1> QED
  BY <1>1, <1>2, <1>3, PTL DEF Spec
=============================================================================
