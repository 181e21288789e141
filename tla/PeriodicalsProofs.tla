------------------------- MODULE PeriodicalsProofs --------------------------
(***************************************************************************)
(* What holds of the pollers of a page, for any of them, of any style.     *)
(***************************************************************************)
EXTENDS Periodicals, SequenceLemmas, TLAPS

LEMMA AnswersType ==
    ASSUME TypeOK, NEW p \in Pollers
    PROVE  Truth(p) \in Requests /\ Failed \in Requests /\ Sent \in Requests
<1>1. Answer(version) \in Requests
  BY DEF TypeOK, Requests
<1> QED
  BY <1>1 DEF Truth, Requests

\* What each step does to the requests of a poller.
LEMMA FireEffect ==
    ASSUME TypeOK, NEW p \in Pollers, Fire(p)
    PROVE  /\ ~HeldBack(p)
           /\ \A q \in Pollers \ {p} : requests'[q] = requests[q] /\ timers'[q] = timers[q]
           /\ Ended(p) => requests'[p] = requests[p] /\ timers'[p] = timers[p] - 1
           /\ ~Ended(p) => /\ requests'[p] = Append(requests[p], Sent)
                           /\ timers'[p] = IF p \in Sequential THEN timers[p] - 1 ELSE timers[p]
           /\ timers[p] > 0
           /\ requests' \in [Pollers -> Seq(Requests)]
           /\ timers' \in [Pollers -> Nat]
<1>1. Sent \in Requests
  BY AnswersType
<1>2. requests \in [Pollers -> Seq(Requests)] /\ timers \in [Pollers -> Nat]
  BY DEF TypeOK
<1>3. Append(requests[p], Sent) \in Seq(Requests)
  BY <1>1, <1>2
<1> QED
  BY <1>2, <1>3 DEF Fire

LEMMA RespondEffect ==
    ASSUME TypeOK, NEW p \in Pollers, NEW answer \in Requests, Respond(p, answer)
    PROVE  /\ \A q \in Pollers \ {p} : requests'[q] = requests[q]
           /\ Len(requests'[p]) = Len(requests[p])
           /\ ToSet(requests'[p]) \subseteq ToSet(requests[p]) \cup {answer}
           /\ requests' \in [Pollers -> Seq(Requests)]
<1>1. PICK i \in DOMAIN requests[p] :
        requests' = [requests EXCEPT ![p] = [requests[p] EXCEPT ![i] = answer]]
  BY DEF Respond
<1>2. requests[p] \in Seq(Requests) /\ requests \in [Pollers -> Seq(Requests)]
  BY DEF TypeOK
<1>3. /\ [requests[p] EXCEPT ![i] = answer] \in Seq(Requests)
      /\ ToSet([requests[p] EXCEPT ![i] = answer]) \subseteq ToSet(requests[p]) \cup {answer}
      /\ Len([requests[p] EXCEPT ![i] = answer]) = Len(requests[p])
  BY <1>2, ReplaceType
<1>4. requests'[p] = [requests[p] EXCEPT ![i] = answer]
  BY <1>1, <1>2
<1>5. requests' \in [Pollers -> Seq(Requests)]
  BY <1>1, <1>2, <1>3
<1>6. \A q \in Pollers \ {p} : requests'[q] = requests[q]
  BY <1>1, <1>2
<1> QED
  BY <1>3, <1>4, <1>5, <1>6

LEMMA ReceiveEffect ==
    ASSUME TypeOK, NEW p \in Pollers, Receive(p)
    PROVE  /\ \A q \in Pollers \ {p} : /\ requests'[q] = requests[q]
                                       /\ timers'[q] = timers[q] /\ shown'[q] = shown[q]
           /\ Len(requests'[p]) = Len(requests[p]) - 1
           /\ timers'[p] = IF p \in Sequential THEN timers[p] + 1 ELSE timers[p]
           /\ ToSet(requests'[p]) \subseteq ToSet(requests[p])
           /\ \/ shown'[p] = shown[p]
              \/ \E a \in ToSet(requests[p]) : a.status = "ok" /\ shown'[p] = a.version
           /\ requests' \in [Pollers -> Seq(Requests)]
           /\ timers' \in [Pollers -> Nat]
           /\ shown' \in [Pollers -> 0 .. MaxVersion]
           /\ deleted' \in BOOLEAN /\ (deleted => deleted')
           /\ UNCHANGED <<manager, server>>
<1>1. PICK i \in DOMAIN requests[p] :
        /\ requests' = [requests EXCEPT ![p] = RemoveAt(requests[p], i)]
        /\ timers' = TimersAfter(p, requests[p][i])
        /\ shown' = ShownAfter(p, requests[p][i])
        /\ deleted' = (deleted \/ requests[p][i] = Gone)
        /\ UNCHANGED <<manager, server>>
  BY DEF Receive
<1>2. requests[p] \in Seq(Requests) /\ requests \in [Pollers -> Seq(Requests)]
  BY DEF TypeOK
<1>3. /\ RemoveAt(requests[p], i) \in Seq(Requests)
      /\ ToSet(RemoveAt(requests[p], i)) \subseteq ToSet(requests[p])
      /\ Len(RemoveAt(requests[p], i)) = Len(requests[p]) - 1
  BY <1>2, RemoveAtType
<1>4. requests'[p] = RemoveAt(requests[p], i)
  BY <1>1, <1>2
<1>5. requests' \in [Pollers -> Seq(Requests)]
  BY <1>1, <1>2, <1>3
<1>6. \A q \in Pollers \ {p} : requests'[q] = requests[q]
  BY <1>1, <1>2
<1>7. /\ timers' \in [Pollers -> Nat]
      /\ timers'[p] = IF p \in Sequential THEN timers[p] + 1 ELSE timers[p]
      /\ \A q \in Pollers \ {p} : timers'[q] = timers[q]
  BY <1>1 DEF TypeOK, TimersAfter
<1>8. requests[p][i] \in ToSet(requests[p]) /\ requests[p][i] \in Requests
  BY <1>2 DEF ToSet
<1>9. requests[p][i].status = "ok" => requests[p][i].version \in 0 .. MaxVersion
  BY <1>8 DEF Requests, Sent, Failed, Gone, Answer
<1>10. /\ shown' \in [Pollers -> 0 .. MaxVersion]
       /\ \A q \in Pollers \ {p} : shown'[q] = shown[q]
       /\ \/ shown'[p] = shown[p]
          \/ requests[p][i].status = "ok" /\ shown'[p] = requests[p][i].version
  BY <1>1, <1>9 DEF ShownAfter, TypeOK
<1>11. deleted' \in BOOLEAN /\ (deleted => deleted')
  BY <1>1
<1> QED
  BY <1>1, <1>3, <1>4, <1>5, <1>6, <1>7, <1>8, <1>10, <1>11

-----------------------------------------------------------------------------
LEMMA TypeStep ==
    ASSUME TypeOK, [Next]_vars
    PROVE  TypeOK'
<1> USE DEF manager, server, Rest
<1>1. CASE Blur \/ Focus
  <2>1. {focussed', foreground', visited'} \subseteq BOOLEAN
    BY <1>1 DEF Blur, Focus, Focussed, TypeOK
  <2> QED
    BY <1>1, <2>1 DEF Blur, Focus, TypeOK
<1>2. CASE SetUpdateUnfocussedMode
  <2>1. {focussed', updateUnfocussed'} \subseteq BOOLEAN
    BY <1>2 DEF SetUpdateUnfocussedMode, TypeOK
  <2> QED
    BY <1>2, <2>1 DEF SetUpdateUnfocussedMode, TypeOK
<1>3. CASE Change
  BY <1>3, PeriodicalsAssumption DEF Change, TypeOK
<1>4. CASE Delete
  BY <1>4 DEF Delete, TypeOK
<1>5. ASSUME NEW p \in Pollers, Fire(p) PROVE TypeOK'
  BY <1>5, FireEffect DEF Fire, TypeOK
<1>6. ASSUME NEW p \in Pollers, Succeed(p) \/ Fail(p) PROVE TypeOK'
  <2>1. PICK answer \in Requests : Respond(p, answer)
    BY <1>6, AnswersType DEF Succeed, Fail
  <2> QED
    BY <2>1, RespondEffect DEF Respond, TypeOK
<1>7. ASSUME NEW p \in Pollers, Receive(p) PROVE TypeOK'
  <2>1. marked' \in [Pollers -> BOOLEAN]
    <3>1. PICK i \in DOMAIN requests[p] :
            marked' = [marked EXCEPT ![p] = (p \in Marking /\ requests[p][i].status # "ok")]
      BY <1>7 DEF Receive
    <3>2. (p \in Marking /\ requests[p][i].status # "ok") \in BOOLEAN
      OBVIOUS
    <3> HIDE DEF manager, server, Rest
    <3> QED
      BY <3>1, <3>2, Zenon DEF TypeOK
  <2> QED
    BY <1>7, <2>1, ReceiveEffect DEF TypeOK
<1>8. CASE UNCHANGED vars
  BY <1>8 DEF vars, TypeOK
<1> QED
  BY <1>1, <1>2, <1>3, <1>4, <1>5, <1>6, <1>7, <1>8 DEF Next

LEMMA TypeInit ==
    ASSUME Init
    PROVE  TypeOK
<1>1. {foreground, visited, focussed, updateUnfocussed, deleted, exists} \subseteq BOOLEAN
  BY DEF Init
<1>2. 0 \in 0 .. MaxVersion
  BY PeriodicalsAssumption DEF PeriodicalsAssumption
<1> QED
  BY <1>1, <1>2 DEF Init, TypeOK

\* The type invariant.
THEOREM TypeCorrect == Spec => []TypeOK
  BY TypeInit, TypeStep, PTL DEF Spec

-----------------------------------------------------------------------------
(* Every poller has its one timer, or waits for its one answer. *)

LEMMA PulseStep ==
    ASSUME TypeOK, OnePulse, [Next]_vars
    PROVE  OnePulse'
<1> USE DEF manager, server, Rest
<1>1. CASE UNCHANGED <<timers, requests>> /\ (deleted => deleted')
  BY <1>1 DEF OnePulse, Ended, TypeOK
<1>2. ASSUME NEW p \in Pollers, Fire(p) PROVE OnePulse'
  <2>1. deleted' = deleted /\ Len(requests[p]) \in Nat
    BY <1>2 DEF Fire, TypeOK
  <2>2. ~Ended(p) => Len(requests'[p]) = Len(requests[p]) + 1
    BY <1>2, FireEffect DEF TypeOK
  <2>3. Ended(p) => p \notin Sequential
    BY PeriodicalsAssumption DEF PeriodicalsAssumption, Ended
  <2>4. timers[p] \in Nat
    BY DEF TypeOK
  <2> QED
    BY <1>2, <2>1, <2>2, <2>3, <2>4, FireEffect, SMTT(40) DEF OnePulse, Ended
<1>3. ASSUME NEW p \in Pollers, Succeed(p) \/ Fail(p) PROVE OnePulse'
  <2>1. PICK answer \in Requests : Respond(p, answer)
    BY <1>3, AnswersType DEF Succeed, Fail
  <2>2. UNCHANGED <<timers, deleted>>
    BY <2>1 DEF Respond
  <2>3. \A q \in Pollers : Len(requests'[q]) = Len(requests[q])
    BY <2>1, RespondEffect
  <2> QED
    BY <2>2, <2>3 DEF OnePulse, Ended
<1>4. ASSUME NEW p \in Pollers, Receive(p) PROVE OnePulse'
  <2> SUFFICES ASSUME NEW q \in Pollers
               PROVE  IF q \in Sequential THEN timers'[q] + Len(requests'[q]) = 1
                      ELSE timers'[q] = 1 \/ (Ended(q)' /\ timers'[q] = 0)
    BY DEF OnePulse
  <2>1. Ended(q) => Ended(q)'
    BY <1>4, ReceiveEffect DEF Ended
  <2>2. timers[q] \in Nat /\ Len(requests[q]) \in Nat
    BY DEF TypeOK
  <2>3. CASE q # p
    BY <1>4, <2>1, <2>3, ReceiveEffect DEF OnePulse
  <2>4. CASE q = p
    <3>1. Len(requests'[q]) = Len(requests[q]) - 1
      BY <1>4, <2>4, ReceiveEffect
    <3>2. timers'[q] = IF q \in Sequential THEN timers[q] + 1 ELSE timers[q]
      BY <1>4, <2>4, ReceiveEffect
    <3> QED
      BY <2>1, <2>2, <3>1, <3>2 DEF OnePulse
  <2> QED
    BY <2>3, <2>4
<1>5. CASE Blur \/ Focus \/ SetUpdateUnfocussedMode \/ Change
  BY <1>1, <1>5 DEF Blur, Focus, SetUpdateUnfocussedMode, Change
<1>6. CASE Delete
  <2>1. deleted => deleted'
    BY <1>6 DEF Delete
  <2> QED
    BY <1>1, <1>6, <2>1 DEF Delete
<1>7. CASE UNCHANGED vars
  BY <1>1, <1>7 DEF vars
<1> QED
  BY <1>2, <1>3, <1>4, <1>5, <1>6, <1>7 DEF Next

\* No failure, overlap or change of focus loses or doubles a timer.
THEOREM OnePulseHolds == Spec => []OnePulse
<1>1. Init => OnePulse
  <2>1. Len(<<>>) = 0
    OBVIOUS
  <2> QED
    BY <2>1 DEF Init, OnePulse
<1> QED
  BY <1>1, PulseStep, TypeCorrect, PTL DEF Spec

-----------------------------------------------------------------------------
(* The manager knows at least when the window is in the background, once it
   has been in the foreground. *)

FocusTracked == focussed => foreground \/ updateUnfocussed \/ ~visited

LEMMA FocusStep ==
    ASSUME TypeOK, FocusTracked, [Next]_vars
    PROVE  FocusTracked'
<1> USE DEF manager, server, Rest
<1>1. CASE Blur \/ Focus \/ SetUpdateUnfocussedMode
  <2>1. CASE Blur
    BY <2>1 DEF Blur, Focussed, FocusTracked
  <2>2. CASE Focus
    BY <2>2 DEF Focus, Focussed, FocusTracked
  <2>3. CASE SetUpdateUnfocussedMode
    BY <2>3 DEF SetUpdateUnfocussedMode, FocusTracked
  <2> QED
    BY <1>1, <2>1, <2>2, <2>3
<1>2. CASE UNCHANGED manager
  BY <1>2 DEF FocusTracked
<1>3. ASSUME NEW p \in Pollers, Fire(p) \/ Succeed(p) \/ Fail(p) \/ Receive(p)
      PROVE  UNCHANGED manager
  BY <1>3 DEF Fire, Succeed, Fail, Respond, Receive
<1> QED
  BY <1>1, <1>2, <1>3 DEF Next, Change, Delete, vars

\* Only a step that fires a timer sends a request.
LEMMA QuietStep ==
    ASSUME TypeOK, FocusTracked, [Next]_vars, NEW q \in Pollers \ Restless,
           Len(requests'[q]) > Len(requests[q])
    PROVE  foreground \/ updateUnfocussed \/ ~visited
<1> USE DEF manager, server, Rest
<1>1. Len(requests[q]) \in Nat /\ requests'[q] # requests[q]
  BY DEF TypeOK
<1>2. ASSUME NEW p \in Pollers, Fire(p)
      PROVE  foreground \/ updateUnfocussed \/ ~visited
  BY <1>1, <1>2, FireEffect DEF HeldBack, FocusTracked
<1>3. ASSUME NEW p \in Pollers, Succeed(p) \/ Fail(p) PROVE FALSE
  <2>1. PICK answer \in Requests : Respond(p, answer)
    BY <1>3, AnswersType DEF Succeed, Fail
  <2> QED
    BY <1>1, <2>1, RespondEffect
<1>4. ASSUME NEW p \in Pollers, Receive(p) PROVE FALSE
  BY <1>1, <1>4, ReceiveEffect
<1> QED
  BY <1>1, <1>2, <1>3, <1>4
  DEF Next, Blur, Focus, SetUpdateUnfocussedMode, Change, Delete, vars

\* In the background nothing is fetched, unless it is meant to be.
THEOREM QuietInBackgroundHolds == Spec => QuietInBackground
<1>1. Init => FocusTracked
  BY DEF Init, FocusTracked
<1>2. TypeOK /\ FocusTracked /\ [Next]_vars =>
        [\A p \in Pollers \ Restless :
           Len(requests'[p]) > Len(requests[p]) => foreground \/ updateUnfocussed \/ ~visited]_vars
  BY QuietStep
<1> QED
  BY <1>1, <1>2, FocusStep, TypeCorrect, PTL DEF Spec, QuietInBackground

-----------------------------------------------------------------------------
(* What is on its way to a sequential poller is not older than what it shows. *)

Orderly ==
    \A p \in Pollers :
        /\ shown[p] <= version
        /\ \A a \in ToSet(requests[p]) :
             a.status = "ok" => a.version <= version /\ (p \in Sequential => shown[p] <= a.version)

LEMMA OrderStep ==
    ASSUME TypeOK, OnePulse, Orderly, [Next]_vars
    PROVE  Orderly' /\ \A p \in Sequential : shown'[p] >= shown[p]
<1> USE DEF manager, server, Rest
<1>1. version \in Nat /\ \A p \in Pollers : shown[p] \in Nat
  BY DEF TypeOK
<1>2. Sequential \subseteq Pollers
  BY PeriodicalsAssumption DEF PeriodicalsAssumption
<1>3. \A p \in Pollers : \A a \in ToSet(requests[p]) : a.status = "ok" => a.version \in Nat
  <2> SUFFICES ASSUME NEW p \in Pollers, NEW a \in ToSet(requests[p]), a.status = "ok"
               PROVE  a.version \in Nat
    OBVIOUS
  <2>1. a \in Requests
    BY ToSetType DEF TypeOK
  <2> QED
    BY <2>1 DEF Requests, Sent, Failed, Gone, Answer
<1>4. CASE UNCHANGED <<requests, shown>> /\ version' \in {version, version + 1}
  BY <1>1, <1>2, <1>3, <1>4 DEF Orderly
<1>5. ASSUME NEW p \in Pollers, Fire(p)
      PROVE  Orderly' /\ \A q \in Sequential : shown'[q] >= shown[q]
  <2>1. UNCHANGED <<shown, version>>
    BY <1>5 DEF Fire
  <2>2. ToSet(requests'[p]) \subseteq ToSet(requests[p]) \cup {Sent}
    <3>1. requests[p] \in Seq(Requests) /\ Sent \in Requests
      BY AnswersType DEF TypeOK
    <3>2. ToSet(Append(requests[p], Sent)) = ToSet(requests[p]) \cup {Sent}
      BY <3>1, ToSetAppend
    <3> QED
      BY <1>5, <3>2, FireEffect
  <2>3. Sent.status # "ok"
    BY DEF Sent
  <2>4. \A q \in Pollers \ {p} : requests'[q] = requests[q]
    BY <1>5, FireEffect
  <2> QED
    BY <1>1, <1>2, <2>1, <2>2, <2>3, <2>4 DEF Orderly
<1>6. ASSUME NEW p \in Pollers, Succeed(p) \/ Fail(p)
      PROVE  Orderly' /\ \A q \in Sequential : shown'[q] >= shown[q]
  <2>1. PICK answer \in Requests :
          /\ Respond(p, answer)
          /\ answer.status = "ok" => answer.version = version
    <3>1. Truth(p).status = "ok" => Truth(p).version = version
      BY DEF Truth, Answer, Gone, Failed
    <3>2. Failed.status # "ok"
      BY DEF Failed
    <3> QED
      BY <1>6, <3>1, <3>2, AnswersType DEF Succeed, Fail
  <2>2. UNCHANGED <<shown, version>>
    BY <2>1 DEF Respond
  <2> QED
    BY <1>1, <1>2, <2>1, <2>2, RespondEffect, SMTT(40) DEF Orderly
<1>7. ASSUME NEW p \in Pollers, Receive(p)
      PROVE  Orderly' /\ \A q \in Sequential : shown'[q] >= shown[q]
  <2>1. version' = version
    BY <1>7, ReceiveEffect
  <2>2. shown'[p] <= version /\ (p \in Sequential => shown'[p] >= shown[p])
    BY <1>1, <1>3, <1>7, ReceiveEffect, SMTT(40) DEF Orderly
  <2>3. p \in Sequential => ToSet(requests'[p]) = {}
    <3> SUFFICES ASSUME p \in Sequential PROVE ToSet(requests'[p]) = {}
      OBVIOUS
    <3>1. requests'[p] \in Seq(Requests)
      BY <1>7, ReceiveEffect
    <3>2. timers[p] + Len(requests[p]) = 1
      BY DEF OnePulse
    <3>3. Len(requests'[p]) = Len(requests[p]) - 1
      BY <1>7, ReceiveEffect
    <3>4. timers[p] \in Nat /\ Len(requests[p]) \in Nat /\ Len(requests'[p]) \in Nat
      BY <3>1 DEF TypeOK
    <3>5. Len(requests'[p]) = 0
      <4>1. \A t, m, n \in Nat : t + m = 1 /\ n = m - 1 => n = 0
        OBVIOUS
      <4> QED
        BY <3>2, <3>3, <3>4, <4>1
    <3> QED
      BY <3>1, <3>5 DEF ToSet
  <2>4. \A q \in Pollers \ {p} : requests'[q] = requests[q] /\ shown'[q] = shown[q]
    BY <1>7, ReceiveEffect
  <2>5. ToSet(requests'[p]) \subseteq ToSet(requests[p])
    BY <1>7, ReceiveEffect
  <2>6. \A q \in Sequential : shown'[q] >= shown[q]
    BY <1>1, <1>2, <2>2, <2>4
  <2>7. ASSUME NEW q \in Pollers, NEW a \in ToSet(requests'[q]), a.status = "ok"
        PROVE  a.version <= version /\ (q \in Sequential => shown'[q] <= a.version)
    BY <2>3, <2>4, <2>5, <2>7 DEF Orderly
  <2>8. \A q \in Pollers : shown'[q] <= version
    BY <2>2, <2>4 DEF Orderly
  <2> QED
    BY <2>1, <2>6, <2>7, <2>8 DEF Orderly
<1>8. Change \/ Delete => UNCHANGED <<requests, shown>> /\ version' \in {version, version + 1}
  BY DEF Change, Delete
<1> QED
  BY <1>4, <1>5, <1>6, <1>7, <1>8
  DEF Next, Blur, Focus, SetUpdateUnfocussedMode, vars

\* What a sequential poller shows never goes back.
THEOREM NeverGoesBackHolds == Spec => NeverGoesBack
<1>1. Init => Orderly
  <2>1. ToSet(<<>>) = {}
    BY DEF ToSet
  <2> QED
    BY <2>1 DEF Init, Orderly
<1>2. TypeOK /\ OnePulse /\ Orderly /\ [Next]_vars =>
        Orderly' /\ [\A p \in Sequential : shown'[p] >= shown[p]]_vars
  BY OrderStep
<1> QED
  BY <1>1, <1>2, OnePulseHolds, TypeCorrect, PTL DEF Spec, NeverGoesBack
=============================================================================
