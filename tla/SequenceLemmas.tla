--------------------------- MODULE SequenceLemmas ---------------------------
(***************************************************************************)
(* What the elements of a sequence are after each operation on queues;     *)
(* what slices, concatenations and flattened sequences hold; and the       *)
(* principles of induction and recursion over numbers and sizes, with sets *)
(* and functions in place of predicates and operators.                     *)
(***************************************************************************)
EXTENDS Integers, SequencesExt, WellFoundedInduction, TLAPS

\* The elements of a sequence of S are in S.
LEMMA ToSetType ==
    ASSUME NEW S, NEW s \in Seq(S)
    PROVE  ToSet(s) \subseteq S
BY DEF ToSet

\* Appending adds the one element.
LEMMA ToSetAppend ==
    ASSUME NEW S, NEW s \in Seq(S), NEW e \in S
    PROVE  ToSet(Append(s, e)) = ToSet(s) \cup {e}
<1>1. Append(s, e) \in Seq(S) /\ Len(Append(s, e)) = Len(s) + 1
  OBVIOUS
<1>2. DOMAIN Append(s, e) = DOMAIN s \cup {Len(s) + 1}
  BY <1>1
<1>3. \A i \in DOMAIN s : Append(s, e)[i] = s[i]
  OBVIOUS
<1>4. Append(s, e)[Len(s) + 1] = e
  OBVIOUS
<1> QED
  BY <1>2, <1>3, <1>4 DEF ToSet

\* Concatenation unites.
LEMMA ToSetConcat ==
    ASSUME NEW S, NEW s \in Seq(S), NEW t \in Seq(S)
    PROVE  ToSet(s \o t) = ToSet(s) \cup ToSet(t)
<1>1. s \o t \in Seq(S) /\ Len(s \o t) = Len(s) + Len(t)
  OBVIOUS
<1>2. \A i \in DOMAIN s : i \in DOMAIN (s \o t) /\ (s \o t)[i] = s[i]
  BY <1>1
<1>3. \A i \in DOMAIN t : Len(s) + i \in DOMAIN (s \o t) /\ (s \o t)[Len(s) + i] = t[i]
  BY <1>1
<1>4. \A i \in DOMAIN (s \o t) : i \in DOMAIN s \/ (i - Len(s) \in DOMAIN t /\ i = Len(s) + (i - Len(s)))
  BY <1>1
<1>5. ToSet(s \o t) \subseteq ToSet(s) \cup ToSet(t)
  BY <1>2, <1>3, <1>4 DEF ToSet
<1>6. ToSet(s) \cup ToSet(t) \subseteq ToSet(s \o t)
  BY <1>2, <1>3 DEF ToSet
<1> QED
  BY <1>5, <1>6

\* Taking the head off leaves the rest.
LEMMA ToSetTail ==
    ASSUME NEW S, NEW s \in Seq(S), s # <<>>
    PROVE  ToSet(s) = {Head(s)} \cup ToSet(Tail(s))
<1>1. Tail(s) \in Seq(S) /\ Len(Tail(s)) = Len(s) - 1 /\ Len(s) > 0
  OBVIOUS
<1>2. \A i \in DOMAIN Tail(s) : i + 1 \in DOMAIN s /\ Tail(s)[i] = s[i + 1]
  BY <1>1
<1>3. \A i \in DOMAIN s : i = 1 \/ (i - 1 \in DOMAIN Tail(s) /\ s[i] = Tail(s)[i - 1])
  BY <1>1, <1>2
<1>4. Head(s) = s[1] /\ 1 \in DOMAIN s
  BY <1>1
<1>5. ToSet(s) \subseteq {Head(s)} \cup ToSet(Tail(s))
  BY <1>3, <1>4, ZenonT(60) DEF ToSet
<1>6. {Head(s)} \cup ToSet(Tail(s)) \subseteq ToSet(s)
  BY <1>2, <1>4 DEF ToSet
<1> QED
  BY <1>5, <1>6

\* Removing an element leaves a sequence of some of the others.
LEMMA RemoveAtType ==
    ASSUME NEW S, NEW s \in Seq(S), NEW i \in DOMAIN s
    PROVE  /\ RemoveAt(s, i) \in Seq(S)
           /\ ToSet(RemoveAt(s, i)) \subseteq ToSet(s)
           /\ Len(RemoveAt(s, i)) = Len(s) - 1
<1>1. i \in 1 .. Len(s) /\ Len(s) \in Nat
  OBVIOUS
<1> DEFINE front == SubSeq(s, 1, i - 1)
           back == SubSeq(s, i + 1, Len(s))
<1>2. front \in Seq(S) /\ Len(front) = i - 1 /\ \A j \in 1 .. i - 1 : front[j] = s[j]
  BY <1>1
<1>3. /\ back \in Seq(S) /\ Len(back) = Len(s) - i
      /\ \A j \in 1 .. Len(s) - i : back[j] = s[i + j]
  BY <1>1
<1>4. ToSet(front) \subseteq ToSet(s)
  BY <1>1, <1>2 DEF ToSet
<1>5. ToSet(back) \subseteq ToSet(s)
  BY <1>1, <1>3, SMTT(40) DEF ToSet
<1>6. RemoveAt(s, i) = front \o back
  BY DEF RemoveAt
<1> HIDE DEF front, back
<1>7. Len(front \o back) = Len(s) - 1
  BY <1>1, <1>2, <1>3
<1> QED
  BY <1>2, <1>3, <1>4, <1>5, <1>6, <1>7, ToSetConcat

\* Replacing an element of a sequence.
LEMMA ReplaceType ==
    ASSUME NEW S, NEW s \in Seq(S), NEW i \in DOMAIN s, NEW e \in S
    PROVE  /\ [s EXCEPT ![i] = e] \in Seq(S)
           /\ ToSet([s EXCEPT ![i] = e]) \subseteq ToSet(s) \cup {e}
           /\ Len([s EXCEPT ![i] = e]) = Len(s)
<1>1. [s EXCEPT ![i] = e] \in Seq(S)
  OBVIOUS
<1>2. DOMAIN [s EXCEPT ![i] = e] = DOMAIN s
  OBVIOUS
<1>3. \A j \in DOMAIN s : [s EXCEPT ![i] = e][j] \in {s[j], e}
  OBVIOUS
<1>4. Len([s EXCEPT ![i] = e]) = Len(s)
  OBVIOUS
<1> QED
  BY <1>1, <1>2, <1>3, <1>4 DEF ToSet

-----------------------------------------------------------------------------
(* Induction *)

\* A nonempty set of numbers has a least one.
LEMMA LeastNat ==
  ASSUME NEW T, T \subseteq Nat, T # {}
  PROVE  \E n \in T : \A m \in T : n <= m
<1>1. IsWellFoundedOn(OpToRel(<, Nat), Nat)
  BY NatLessThanWellFounded
<1>2. PICK n \in T : \A m \in T : ~ (<<m, n>> \in OpToRel(<, Nat))
  BY <1>1, WFMin
<1>3. \A m \in T : ~(m < n)
  BY <1>2 DEF OpToRel
<1> QED BY <1>3

\* Induction over numbers, for a set in place of a predicate.
LEMMA NatSetInduction ==
  ASSUME NEW T, 0 \in T, \A n \in Nat : n \in T => n + 1 \in T
  PROVE  Nat \subseteq T
<1> SUFFICES ASSUME Nat \ T # {} PROVE FALSE
  OBVIOUS
<1>1. PICK n \in Nat \ T : \A m \in Nat \ T : n <= m
  BY LeastNat
<1>2. n # 0 /\ n - 1 \in Nat /\ n - 1 \in T
  BY <1>1
<1> QED BY <1>1, <1>2

\* Whatever has a size can be gone through from the smaller to the larger.
LEMMA SmallerFirst ==
  ASSUME NEW D, NEW size \in [D -> Nat], NEW T,
         \A x \in D : (\A y \in D : size[y] < size[x] => y \in T) => x \in T
  PROVE  D \subseteq T
<1> SUFFICES ASSUME D \ T # {} PROVE FALSE
  OBVIOUS
<1> DEFINE S == {size[x] : x \in D \ T}
<1>1. PICK n \in S : \A m \in S : n <= m
  <2>1. S \subseteq Nat /\ S # {}
    OBVIOUS
  <2> HIDE DEF S
  <2> QED BY <2>1, LeastNat
<1>2. PICK x \in D \ T : n = size[x]
  BY <1>1
<1>3. ASSUME NEW y \in D, size[y] < size[x] PROVE y \in T
  <2> SUFFICES ASSUME y \notin T PROVE FALSE
    OBVIOUS
  <2>1. size[y] \in S /\ size[x] \in Nat /\ size[y] \in Nat
    OBVIOUS
  <2>2. size[x] <= size[y]
    BY <1>1, <1>2, <2>1
  <2> QED BY <1>3, <2>1, <2>2
<1> QED BY <1>3

-----------------------------------------------------------------------------
(* Recursive functions.  TLA+ takes a function that its definition
   describes, if there is one: that there is one has to be shown. *)

\* f is what Step makes of f itself; Step looks at smaller arguments only.
Solves(f, D, Step) == \A x \in D : f[x] = Step[x][f]
Descends(D, R, size, Step) ==
  \A x \in D : \A f, g \in [D -> R] :
    (\A y \in D : size[y] < size[x] => f[y] = g[y]) => Step[x][f] = Step[x][g]

\* A step that looks at smaller arguments only has a solution.
LEMMA Recursion ==
  ASSUME NEW D, NEW R, R # {}, NEW size \in [D -> Nat], NEW Step \in [D -> [[D -> R] -> R]],
         Descends(D, R, size, Step)
  PROVE  \E f \in [D -> R] : Solves(f, D, Step)
<1> USE DEF Descends
<1> DEFINE Upto(n, f) == f \in [D -> R] /\ \A x \in D : size[x] < n => f[x] = Step[x][f]
           T == {n \in Nat : \E f : Upto(n, f)}
<1>1. Nat \subseteq T
  <2>1. 0 \in T
    <3>1. PICK r \in R : TRUE
      OBVIOUS
    <3>2. Upto(0, [x \in D |-> r])
      OBVIOUS
    <3> QED BY <3>2
  <2>2. ASSUME NEW n \in Nat, n \in T PROVE n + 1 \in T
    <3>1. PICK f : Upto(n, f)
      BY <2>2
    <3> DEFINE h == [x \in D |-> Step[x][f]]
    <3>2. h \in [D -> R]
      BY <3>1
    <3>3. ASSUME NEW x \in D, size[x] < n + 1 PROVE h[x] = Step[x][h]
      <4>1. \A y \in D : size[y] < size[x] => f[y] = h[y]
        BY <3>1, <3>3
      <4> HIDE DEF h
      <4>2. Step[x][f] = Step[x][h]
        BY <4>1, <3>1, <3>2
      <4> QED BY <4>2 DEF h
    <3> HIDE DEF h
    <3>4. Upto(n + 1, h)
      BY <3>2, <3>3
    <3> QED BY <3>4
  <2> HIDE DEF T
  <2> QED BY <2>1, <2>2, NatSetInduction
<1>2. ASSUME NEW m \in Nat, NEW n \in Nat, NEW f, NEW g, Upto(m, f), Upto(n, g)
      PROVE  \A x \in D : size[x] < m /\ size[x] < n => f[x] = g[x]
  <2> DEFINE A == {x \in D : size[x] < m /\ size[x] < n => f[x] = g[x]}
  <2>1. ASSUME NEW x \in D, \A y \in D : size[y] < size[x] => y \in A PROVE x \in A
    <3> SUFFICES ASSUME size[x] < m, size[x] < n PROVE f[x] = g[x]
      OBVIOUS
    <3>1. \A y \in D : size[y] < size[x] => f[y] = g[y]
      BY <2>1
    <3>2. Step[x][f] = Step[x][g]
      BY <3>1, <1>2
    <3> QED BY <3>2, <1>2
  <2>2. D \subseteq A
    <3> HIDE DEF A
    <3> QED BY <2>1, SmallerFirst
  <2> QED BY <2>2
<1> DEFINE Some(n) == CHOOSE f : Upto(n, f)
           h == [x \in D |-> Some(size[x] + 1)[x]]
<1>3. \A n \in Nat : Upto(n, Some(n))
  <2> SUFFICES ASSUME NEW n \in Nat PROVE Upto(n, Some(n))
    OBVIOUS
  <2>1. \E f : Upto(n, f)
    BY <1>1
  <2> HIDE DEF Upto
  <2> QED BY <2>1
<1>a. ASSUME NEW x \in D PROVE Upto(size[x] + 1, Some(size[x] + 1))
  <2> HIDE DEF Upto, Some
  <2> QED BY <1>3
<1>4. h \in [D -> R]
  <2> SUFFICES ASSUME NEW x \in D PROVE Some(size[x] + 1)[x] \in R
    OBVIOUS
  <2> HIDE DEF Some
  <2> QED BY <1>3
<1>5. ASSUME NEW x \in D PROVE h[x] = Step[x][h]
  <2> DEFINE f == Some(size[x] + 1)
  <2>1. Upto(size[x] + 1, f)
    BY <1>a
  <2>2. ASSUME NEW y \in D, size[y] < size[x] PROVE f[y] = h[y]
    <3>1. Upto(size[y] + 1, Some(size[y] + 1))
      BY <1>a
    <3>2. f[y] = Some(size[y] + 1)[y]
      <4> HIDE DEF Upto, Some, f
      <4>1. size[x] + 1 \in Nat /\ size[y] + 1 \in Nat /\ size[y] < size[x] + 1 /\ size[y] < size[y] + 1
        BY <2>2
      <4> QED BY <1>2, <2>1, <3>1, <4>1
    <3> QED BY <3>2
  <2>3. h[x] = f[x]
    OBVIOUS
  <2> HIDE DEF f, h, Some
  <2>4. Step[x][f] = Step[x][h]
    BY <2>2, <2>1, <1>4
  <2> QED BY <2>1, <2>3, <2>4
<1> QED BY <1>4, <1>5 DEF Solves

\* A function may be defined from its predecessor's value.
Accumulates(f, base, Step) == \A i \in Nat : f[i] = IF i = 0 THEN base ELSE Step[i][f[i - 1]]

\* So has an accumulation over the numbers.
LEMMA Folding ==
  ASSUME NEW R, NEW base \in R, NEW Step \in [Nat -> [R -> R]]
  PROVE  \E f \in [Nat -> R] : Accumulates(f, base, Step)
<1> DEFINE size == [i \in Nat |-> i]
           From == [i \in Nat |-> [f \in [Nat -> R] |-> IF i = 0 THEN base ELSE Step[i][f[i - 1]]]]
<1>1. size \in [Nat -> Nat] /\ From \in [Nat -> [[Nat -> R] -> R]]
  OBVIOUS
<1>2. Descends(Nat, R, size, From)
  BY DEF Descends
<1>3. PICK f \in [Nat -> R] : Solves(f, Nat, From)
  <2> HIDE DEF size, From
  <2>1. R # {}
    OBVIOUS
  <2> QED BY <1>1, <1>2, <2>1, Recursion, Zenon
<1> QED BY <1>3 DEF Solves, Accumulates

\* A function may be defined from its value at one smaller argument.
Unwinds(f, D, Go, Next, Make, Stop) ==
  \A x \in D : f[x] = IF x \in Go THEN Make[x][f[Next[x]]] ELSE Stop[x]

\* So has a recursion that goes from one argument to one smaller.
LEMMA Unwinding ==
  ASSUME NEW D, NEW R, NEW size \in [D -> Nat], NEW Go \in SUBSET D, NEW Next \in [D -> D],
         NEW Make \in [D -> [R -> R]], NEW Stop \in [D -> R], R # {},
         \A x \in Go : size[Next[x]] < size[x]
  PROVE  \E f \in [D -> R] : Unwinds(f, D, Go, Next, Make, Stop)
<1> DEFINE Step == [x \in D |-> [f \in [D -> R] |->
                      IF x \in Go THEN Make[x][f[Next[x]]] ELSE Stop[x]]]
<1>1. Step \in [D -> [[D -> R] -> R]]
  OBVIOUS
<1>2. Descends(D, R, size, Step)
  BY DEF Descends
<1>3. PICK f \in [D -> R] : Solves(f, D, Step)
  <2> HIDE DEF Step
  <2> QED BY <1>1, <1>2, Recursion
<1> QED BY <1>3 DEF Solves, Unwinds

\* The same for functions of a position, which moves on, up to limit.
LEMMA MovingOn ==
  ASSUME NEW R, R # {}, NEW limit \in Nat, NEW Go \in SUBSET Nat, NEW Next \in [Nat -> Nat],
         NEW Make \in [Nat -> [R -> R]], NEW Stop \in [Nat -> R],
         \A i \in Go : i < limit /\ i < Next[i]
  PROVE  \E f \in [Nat -> R] : Unwinds(f, Nat, Go, Next, Make, Stop)
<1> DEFINE size == [i \in Nat |-> IF i < limit THEN limit - i ELSE 0]
<1>1. size \in [Nat -> Nat]
  OBVIOUS
<1>2. \A i \in Go : size[Next[i]] < size[i]
  OBVIOUS
<1> HIDE DEF size
<1> QED BY <1>1, <1>2, Unwinding, Zenon

-----------------------------------------------------------------------------
(* Induction along a position that moves on *)

\* Induction over numbers by a size of them.
LEMMA SmallerNatFirst ==
  ASSUME NEW size \in [Nat -> Nat], NEW T,
         \A x \in Nat : (\A y \in Nat : size[y] < size[x] => y \in T) => x \in T
  PROVE  Nat \subseteq T
BY SmallerFirst, Zenon

\* What holds where nothing follows, and wherever it holds at what follows,
\* holds everywhere.
LEMMA LaterFirst ==
  ASSUME NEW limit \in Nat, NEW T, NEW Go \in SUBSET Nat, NEW Next \in [Nat -> Nat],
         \A i \in Go : i < limit /\ i < Next[i] /\ (Next[i] \in T => i \in T),
         \A i \in Nat : i \notin Go => i \in T
  PROVE  Nat \subseteq T
<1> DEFINE size == [i \in Nat |-> IF i < limit THEN limit - i ELSE 0]
<1>1. size \in [Nat -> Nat]
  OBVIOUS
<1>2. \A i \in Go : size[Next[i]] < size[i]
  OBVIOUS
<1> HIDE DEF size
<1>3. \A i \in Nat : (\A j \in Nat : size[j] < size[i] => j \in T) => i \in T
  BY <1>2
<1> QED BY <1>1, <1>3, SmallerNatFirst

-----------------------------------------------------------------------------
(* Sequences in a row *)

\* What a sequence with one more element in front holds.
LEMMA OneMore ==
  ASSUME NEW S, NEW e \in S, NEW t \in Seq(S)
  PROVE  /\ <<e>> \o t \in Seq(S) /\ Len(<<e>> \o t) = Len(t) + 1 /\ (<<e>> \o t)[1] = e
         /\ DOMAIN (<<e>> \o t) = 1 .. Len(t) + 1
         /\ \A i \in 2 .. Len(t) + 1 : (<<e>> \o t)[i] = t[i - 1] /\ i - 1 \in 1 .. Len(t)
OBVIOUS

\* Sequences of the same elements are the same.
LEMMA SameElements ==
  ASSUME NEW S, NEW a \in Seq(S), NEW b \in Seq(S), Len(a) = Len(b),
         \A i \in 1 .. Len(a) : a[i] = b[i]
  PROVE  a = b
OBVIOUS

\* What a concatenation holds.
LEMMA ConcatIs ==
  ASSUME NEW S, NEW a \in Seq(S), NEW b \in Seq(S)
  PROVE  /\ a \o b \in Seq(S) /\ Len(a \o b) = Len(a) + Len(b)
         /\ \A i \in 1 .. Len(a) : (a \o b)[i] = a[i]
         /\ \A i \in Len(a) + 1 .. Len(a) + Len(b) : (a \o b)[i] = b[i - Len(a)]
         /\ Len(a) \in Nat /\ Len(b) \in Nat
         /\ a \o <<>> = a /\ <<>> \o a = a
OBVIOUS

\* Concatenation is associative.
LEMMA ConcatAssociates ==
  ASSUME NEW S, NEW a \in Seq(S), NEW b \in Seq(S), NEW c \in Seq(S)
  PROVE  (a \o b) \o c = a \o (b \o c)
<1> DEFINE l == (a \o b) \o c
           r == a \o (b \o c)
           A == Len(a)
           B == Len(b)
           C == Len(c)
<1>0. \A p, q \in Seq(S) :
        /\ p \o q \in Seq(S) /\ Len(p \o q) = Len(p) + Len(q)
        /\ \A i \in 1 .. Len(p) : (p \o q)[i] = p[i]
        /\ \A i \in Len(p) + 1 .. Len(p) + Len(q) : (p \o q)[i] = q[i - Len(p)]
  BY ConcatIs
<1>1. A \in Nat /\ B \in Nat /\ C \in Nat
  OBVIOUS
<1>2. /\ a \o b \in Seq(S) /\ Len(a \o b) = A + B
      /\ \A i \in 1 .. A : (a \o b)[i] = a[i]
      /\ \A i \in A + 1 .. A + B : (a \o b)[i] = b[i - A]
  BY ConcatIs
<1>3. /\ b \o c \in Seq(S) /\ Len(b \o c) = B + C
      /\ \A i \in 1 .. B : (b \o c)[i] = b[i]
      /\ \A i \in B + 1 .. B + C : (b \o c)[i] = c[i - B]
  BY ConcatIs
<1>4. /\ l \in Seq(S) /\ Len(l) = (A + B) + C
      /\ \A i \in 1 .. A + B : l[i] = (a \o b)[i]
      /\ \A i \in (A + B) + 1 .. (A + B) + C : l[i] = c[i - (A + B)]
  <2> DEFINE ab == a \o b
  <2>1. ab \in Seq(S) /\ Len(ab) = A + B
    BY <1>2
  <2> HIDE DEF ab
  <2>2. /\ ab \o c \in Seq(S) /\ Len(ab \o c) = Len(ab) + C
        /\ \A i \in 1 .. Len(ab) : (ab \o c)[i] = ab[i]
        /\ \A i \in Len(ab) + 1 .. Len(ab) + C : (ab \o c)[i] = c[i - Len(ab)]
    BY <2>1, <1>0, Zenon DEF C
  <2> QED BY <2>1, <2>2 DEF ab
<1>5. /\ r \in Seq(S) /\ Len(r) = A + (B + C)
      /\ \A i \in 1 .. A : r[i] = a[i]
      /\ \A i \in A + 1 .. A + (B + C) : r[i] = (b \o c)[i - A]
  <2> DEFINE bc == b \o c
  <2>1. bc \in Seq(S) /\ Len(bc) = B + C
    BY <1>3
  <2> HIDE DEF bc
  <2>2. /\ a \o bc \in Seq(S) /\ Len(a \o bc) = A + Len(bc)
        /\ \A i \in 1 .. A : (a \o bc)[i] = a[i]
        /\ \A i \in A + 1 .. A + Len(bc) : (a \o bc)[i] = bc[i - A]
    BY <2>1, <1>0, Zenon DEF A
  <2> QED BY <2>1, <2>2 DEF bc
<1> HIDE DEF l, r, A, B, C
<1>6. ASSUME NEW i \in 1 .. Len(l) PROVE l[i] = r[i]
  <2>1. i \in 1 .. A \/ i \in A + 1 .. A + B \/ i \in A + B + 1 .. A + B + C
    BY <1>1, <1>4, SMTT(40)
  <2>2. CASE i \in 1 .. A
    <3>1. i \in 1 .. A + B
      BY <2>2, <1>1
    <3> QED BY <2>2, <3>1, <1>2, <1>4, <1>5
  <2>3. CASE i \in A + 1 .. A + B
    <3>1. i - A \in 1 .. B /\ i \in 1 .. A + B /\ i \in A + 1 .. A + (B + C)
      BY <2>3, <1>1
    <3> QED BY <2>3, <3>1, <1>2, <1>3, <1>4, <1>5, ZenonT(60)
  <2>4. CASE i \in A + B + 1 .. A + B + C
    <3>1. /\ i - A \in B + 1 .. B + C /\ i \in A + 1 .. A + (B + C) /\ (i - A) - B = i - (A + B)
          /\ i \in (A + B) + 1 .. (A + B) + C
      BY <2>4, <1>1
    <3> QED BY <3>1, <1>3, <1>4, <1>5, ZenonT(60)
  <2> QED BY <2>1, <2>2, <2>3, <2>4
<1>7. Len(l) = Len(r)
  BY <1>1, <1>4, <1>5
<1>8. l = r
  BY <1>4, <1>5, <1>6, <1>7, SameElements
<1> QED BY <1>8 DEF l, r

\* The elements from the kth to the one before the mth.
Slice(t, k, m) == SubSeq(t, k, m - 1)

\* What a slice holds.
LEMMA SliceIs ==
  ASSUME NEW S, NEW t \in Seq(S), NEW k \in Nat, NEW m \in Nat, 1 <= k, k <= m, m <= Len(t) + 1
  PROVE  /\ Slice(t, k, m) \in Seq(S) /\ Len(Slice(t, k, m)) = m - k
         /\ \A i \in 1 .. m - k : Slice(t, k, m)[i] = t[k + i - 1] /\ k + i - 1 \in k .. m - 1
         /\ k = m => Slice(t, k, m) = <<>>
BY SMTT(40) DEF Slice

\* A slice of one.
LEMMA SliceOne ==
  ASSUME NEW S, NEW t \in Seq(S), NEW k \in 1 .. Len(t)
  PROVE  <<t[k]>> = Slice(t, k, k + 1)
<1>1. k \in Nat /\ k + 1 \in Nat /\ 1 <= k /\ k <= k + 1 /\ k + 1 <= Len(t) + 1 /\ (k + 1) - k = 1
  OBVIOUS
<1>2. /\ Slice(t, k, k + 1) \in Seq(S) /\ Len(Slice(t, k, k + 1)) = 1
      /\ Slice(t, k, k + 1)[1] = t[k + 1 - 1] /\ k + 1 - 1 = k
  BY <1>1 DEF Slice
<1>3. t[k] \in S
  OBVIOUS
<1> HIDE DEF Slice
<1> QED BY <1>2, <1>3

\* Slices that meet are one.
LEMMA SliceJoin ==
  ASSUME NEW S, NEW t \in Seq(S), NEW k \in Nat, NEW m \in Nat, NEW l \in Nat,
         1 <= k, k <= m, m <= l, l <= Len(t) + 1
  PROVE  Slice(t, k, m) \o Slice(t, m, l) = Slice(t, k, l)
<1> DEFINE a == Slice(t, k, m)
           b == Slice(t, m, l)
           c == Slice(t, k, l)
<1>1. Len(t) \in Nat /\ m <= Len(t) + 1 /\ 1 <= m /\ k <= l
  OBVIOUS
<1>2. a \in Seq(S) /\ Len(a) = m - k /\ \A i \in 1 .. m - k : a[i] = t[k + i - 1]
  BY <1>1 DEF Slice
<1>3. b \in Seq(S) /\ Len(b) = l - m /\ \A i \in 1 .. l - m : b[i] = t[m + i - 1]
  BY <1>1 DEF Slice
<1>4. c \in Seq(S) /\ Len(c) = l - k /\ \A i \in 1 .. l - k : c[i] = t[k + i - 1]
  BY <1>1 DEF Slice
<1> HIDE DEF a, b, c
<1>5. /\ a \o b \in Seq(S) /\ Len(a \o b) = Len(a) + Len(b)
      /\ \A i \in 1 .. Len(a) : (a \o b)[i] = a[i]
      /\ \A i \in Len(a) + 1 .. Len(a) + Len(b) : (a \o b)[i] = b[i - Len(a)]
  BY <1>2, <1>3, ConcatIs, ZenonT(60)
<1>6. ASSUME NEW i \in 1 .. Len(a \o b) PROVE (a \o b)[i] = c[i]
  <2>1. CASE i \in 1 .. m - k
    BY <2>1, <1>2, <1>4, <1>5
  <2>2. CASE i \notin 1 .. m - k
    <3>1. i - (m - k) \in 1 .. l - m /\ i \in 1 .. l - k /\ m + (i - (m - k)) - 1 = k + i - 1
          /\ i \in Len(a) + 1 .. Len(a) + Len(b)
      BY <2>2, <1>2, <1>3, <1>5
    <3> QED BY <3>1, <1>2, <1>3, <1>4, <1>5, ZenonT(60)
  <2> QED BY <2>1, <2>2
<1>7. Len(a \o b) = Len(c)
  BY <1>2, <1>3, <1>4, <1>5, SMTT(40)
<1>8. a \o b = c
  BY <1>4, <1>5, <1>6, <1>7, SameElements
<1> QED BY <1>8 DEF a, b, c

-----------------------------------------------------------------------------
(* FlattenSeq *)

\* FlattenSeq accumulates one sequence after the other.
Gathers(g, seqs) ==
    /\ g[0] = <<>>
    /\ \A i \in 1 .. Len(seqs) : g[i] = g[i - 1] \o seqs[i]

\* Flattening gathers the sequences one after the other.
LEMMA FlattenGathers ==
  ASSUME NEW S, NEW seqs \in Seq(Seq(S))
  PROVE  \E g \in [Nat -> Seq(S)] : Gathers(g, seqs) /\ FlattenSeq(seqs) = g[Len(seqs)]
<1> DEFINE n == Len(seqs)
           R == Seq(S)
           Step == [i \in Nat |-> [x \in R |-> IF i \in 1 .. n THEN x \o seqs[i] ELSE x]]
           Is(f) == f = [i \in 1 .. n |-> IF i = 1 THEN seqs[i] ELSE f[i - 1] \o seqs[i]]
<1>1. n \in Nat /\ \A i \in 1 .. n : seqs[i] \in R
  OBVIOUS
<1>2. Step \in [Nat -> [R -> R]] /\ <<>> \in R
  <2>1. \A i \in 1 .. n : \A x \in R : x \o seqs[i] \in R
    BY <1>1
  <2>2. <<>> \in R
    OBVIOUS
  <2> HIDE DEF n, R
  <2> QED BY <2>1, <2>2
<1>3. PICK g \in [Nat -> R] : Accumulates(g, <<>>, Step)
  <2> HIDE DEF Step, R
  <2> QED BY <1>2, Folding
<1>4. g[0] = <<>>
  BY <1>3 DEF Accumulates
<1>5. ASSUME NEW i \in 1 .. n PROVE g[i] = g[i - 1] \o seqs[i]
  <2>1. i \in Nat /\ i # 0 /\ i - 1 \in Nat
    OBVIOUS
  <2>2. g[i] = Step[i][g[i - 1]] /\ g[i - 1] \in R
    <3> HIDE DEF Step, R
    <3> QED BY <2>1, <1>3 DEF Accumulates
  <2> HIDE DEF R, n
  <2> QED BY <2>1, <2>2
<1>6. CASE n = 0
  <2>1. FlattenSeq(seqs) = <<>>
    BY <1>6 DEF FlattenSeq
  <2> QED BY <2>1, <1>3, <1>4, <1>5, <1>6 DEF Gathers
<1>7. CASE n # 0
  <2>1. FlattenSeq(seqs) = (CHOOSE f : Is(f))[n]
    BY <1>7 DEF FlattenSeq
  <2>2. \E f : Is(f)
    <3> DEFINE f == [i \in 1 .. n |-> g[i]]
    <3>1. ASSUME NEW i \in 1 .. n PROVE f[i] = IF i = 1 THEN seqs[i] ELSE f[i - 1] \o seqs[i]
      <4>1. CASE i = 1
        <5>1. g[1] = <<>> \o seqs[1] /\ seqs[1] \in R /\ 1 \in 1 .. n
          <6>1. 1 \in 1 .. n /\ 1 - 1 = 0
            BY <4>1
          <6>2. g[1] = g[1 - 1] \o seqs[1] /\ seqs[1] \in R
            <7> HIDE DEF n, R
            <7> QED BY <6>1, <1>1, <1>5
          <6> QED BY <6>1, <6>2, <1>4
        <5> QED BY <5>1, <4>1
      <4>2. CASE i # 1
        <5>1. i - 1 \in 1 .. n /\ g[i] = g[i - 1] \o seqs[i]
          <6> HIDE DEF R
          <6>1. i - 1 \in 1 .. n
            BY <4>2, <1>1
          <6> QED BY <6>1, <1>5
        <5>2. f[i - 1] = g[i - 1]
          BY <5>1
        <5>3. f[i] = g[i]
          OBVIOUS
        <5> HIDE DEF f, n, R
        <5> QED BY <4>2, <5>1, <5>2, <5>3
      <4> QED BY <4>1, <4>2
    <3>2. f = [i \in 1 .. n |-> f[i]]
      OBVIOUS
    <3> HIDE DEF f
    <3>3. Is(f)
      BY <3>1, <3>2
    <3> QED BY <3>3
  <2>3. ASSUME NEW f, Is(f) PROVE f[n] = g[n]
    <3> DEFINE T == {i \in Nat : i + 1 \in 1 .. n => f[i + 1] = g[i + 1]}
    <3>1. 0 \in T
      <4>1. 1 \in 1 .. n => f[1] = seqs[1] /\ g[1] = <<>> \o seqs[1] /\ seqs[1] \in R
        <5> SUFFICES ASSUME 1 \in 1 .. n
                     PROVE  f[1] = seqs[1] /\ g[1] = <<>> \o seqs[1] /\ seqs[1] \in R
          OBVIOUS
        <5>1. f[1] = seqs[1]
          BY <2>3
        <5>2. g[1] = g[1 - 1] \o seqs[1] /\ seqs[1] \in R
          <6> HIDE DEF n, R, Is
          <6> QED BY <1>1, <1>5
        <5>3. 1 - 1 = 0
          OBVIOUS
        <5> HIDE DEF R
        <5> QED BY <5>1, <5>2, <5>3, <1>4
      <4>2. 1 \in 1 .. n => g[1] = seqs[1]
        BY <4>1
      <4> QED BY <4>1, <4>2, SMTT(40)
    <3>2. ASSUME NEW i \in Nat, i \in T PROVE i + 1 \in T
      <4> SUFFICES ASSUME (i + 1) + 1 \in 1 .. n PROVE f[(i + 1) + 1] = g[(i + 1) + 1]
        OBVIOUS
      <4>1. i + 1 \in 1 .. n /\ (i + 1) + 1 # 1 /\ ((i + 1) + 1) - 1 = i + 1
        BY <1>1
      <4>2. f[i + 1] = g[i + 1]
        BY <3>2, <4>1
      <4>3. f[(i + 1) + 1] = f[i + 1] \o seqs[(i + 1) + 1]
        BY <2>3, <4>1
      <4>4. g[(i + 1) + 1] = g[i + 1] \o seqs[(i + 1) + 1]
        BY <1>5, <4>1
      <4> QED BY <4>2, <4>3, <4>4
    <3>3. Nat \subseteq T
      <4> HIDE DEF T
      <4> QED BY <3>1, <3>2, NatSetInduction
    <3>4. n - 1 \in Nat /\ (n - 1) + 1 = n /\ n \in 1 .. n
      BY <1>1, <1>7
    <3> QED BY <3>3, <3>4
  <2>4. FlattenSeq(seqs) = g[n]
    <3> HIDE DEF Is
    <3> QED BY <2>1, <2>2, <2>3
  <2> QED BY <2>4, <1>3, <1>4, <1>5 DEF Gathers
<1> QED BY <1>6, <1>7

\* What is flattened is a sequence of the same elements.
LEMMA FlattenType ==
  ASSUME NEW S, NEW seqs \in Seq(Seq(S))
  PROVE  /\ FlattenSeq(seqs) \in Seq(S)
         /\ seqs = <<>> => FlattenSeq(seqs) = <<>>
<1>1. PICK g \in [Nat -> Seq(S)] : Gathers(g, seqs) /\ FlattenSeq(seqs) = g[Len(seqs)]
  BY FlattenGathers
<1>2. Len(seqs) \in Nat /\ (seqs = <<>> => Len(seqs) = 0)
  OBVIOUS
<1> QED BY <1>1, <1>2 DEF Gathers

\* The first sequence comes first.
LEMMA FlattenFirst ==
  ASSUME NEW S, NEW x \in Seq(S), NEW seqs \in Seq(Seq(S))
  PROVE  FlattenSeq(<<x>> \o seqs) = x \o FlattenSeq(seqs)
<1> DEFINE all == <<x>> \o seqs
           n == Len(seqs)
<1>1. n \in Nat /\ \A i \in 1 .. n : seqs[i] \in Seq(S)
  OBVIOUS
<1>2. all \in Seq(Seq(S)) /\ Len(all) = n + 1 /\ all[1] = x
      /\ \A i \in 2 .. n + 1 : all[i] = seqs[i - 1]
  BY OneMore
<1> HIDE DEF all, n
<1>0. \A p, q, r \in Seq(S) : (p \o q) \o r = p \o (q \o r)
  BY ConcatAssociates, SMTT(40)
<1>3. PICK g \in [Nat -> Seq(S)] : Gathers(g, seqs) /\ FlattenSeq(seqs) = g[n]
  BY FlattenGathers DEF n
<1>4. PICK h \in [Nat -> Seq(S)] : Gathers(h, all) /\ FlattenSeq(all) = h[n + 1]
  BY <1>2, FlattenGathers, ZenonT(60)
<1> DEFINE T == {i \in Nat : i <= n => h[i + 1] = x \o g[i]}
<1>5. 0 \in T
  <2>1. h[0] = <<>> /\ h[1] = h[0] \o all[1] /\ g[0] = <<>>
    <3>1. 1 \in 1 .. n + 1 /\ 1 - 1 = 0
      BY <1>1
    <3>2. h[1] = h[1 - 1] \o all[1]
      BY <3>1, <1>2, <1>4 DEF Gathers
    <3> QED BY <3>1, <3>2, <1>3, <1>4 DEF Gathers
  <2>2. <<>> \o x = x /\ x \o <<>> = x
    OBVIOUS
  <2>3. h[1] = x \o g[0]
    BY <2>1, <2>2, <1>2
  <2>4. 0 + 1 = 1
    OBVIOUS
  <2> QED BY <2>3, <2>4
<1>6. ASSUME NEW i \in Nat, i \in T PROVE i + 1 \in T
  <2>1. PICK j : j = i + 1
    OBVIOUS
  <2>2. j \in Nat /\ j - 1 = i /\ (j <= n => h[j] = x \o g[i])
    <3>1. i <= n => h[i + 1] = x \o g[i]
      BY <1>6
    <3>2. j \in Nat /\ j - 1 = i /\ (j <= n => i <= n)
      <4> HIDE DEF T
      <4> QED BY <2>1, <1>1, <1>6
    <3> HIDE DEF T
    <3> QED BY <2>1, <3>1, <3>2
  <2>3. ASSUME j <= n PROVE h[j + 1] = x \o g[j]
    <3>1. /\ j \in 1 .. n /\ j + 1 \in 2 .. n + 1 /\ j + 1 \in 1 .. n + 1 /\ (j + 1) - 1 = j
          /\ j - 1 = i
      BY <2>1, <2>3, <1>1
    <3>2. h[j + 1] = h[(j + 1) - 1] \o all[j + 1]
      BY <3>1, <1>2, <1>4 DEF Gathers
    <3>3. g[j] = g[j - 1] \o seqs[j]
      BY <3>1, <1>3 DEF Gathers, n
    <3>4. all[j + 1] = seqs[(j + 1) - 1]
      BY <3>1, <1>2
    <3>5. g[i] \in Seq(S) /\ seqs[j] \in Seq(S)
      BY <1>1, <1>3, <3>1
    <3>6. (x \o g[i]) \o seqs[j] = x \o (g[i] \o seqs[j])
      <4> DEFINE gi == g[i]
                 sj == seqs[j]
      <4>1. gi \in Seq(S) /\ sj \in Seq(S)
        BY <3>5
      <4> HIDE DEF gi, sj
      <4>2. (x \o gi) \o sj = x \o (gi \o sj)
        BY <4>1, <1>0, Zenon
      <4> QED BY <4>2 DEF gi, sj
    <3> QED BY <2>2, <2>3, <3>1, <3>2, <3>3, <3>4, <3>6
  <2>4. i + 1 \in Nat /\ (i + 1 <= n => h[(i + 1) + 1] = x \o g[i + 1])
    BY <2>1, <2>2, <2>3
  <2> QED BY <2>4
<1>7. Nat \subseteq T
  <2> HIDE DEF T
  <2> QED BY <1>5, <1>6, NatSetInduction
<1>8. h[n + 1] = x \o g[n]
  <2>1. n \in T
    <3> HIDE DEF T
    <3> QED BY <1>1, <1>7
  <2>2. n <= n
    BY <1>1
  <2> QED BY <2>1, <2>2
<1> QED BY <1>3, <1>4, <1>8 DEF all

\* The first of a slice.
LEMMA SliceFirst ==
  ASSUME NEW S, NEW t \in Seq(S), NEW k \in Nat, NEW m \in Nat, 1 <= k, k < m, m <= Len(t) + 1
  PROVE  Slice(t, k, m) \in Seq(S) /\ Slice(t, k, m) # <<>> /\ Slice(t, k, m)[1] = t[k]
<1>1. /\ Slice(t, k, m) \in Seq(S) /\ Len(Slice(t, k, m)) = m - k
      /\ \A i \in 1 .. m - k : Slice(t, k, m)[i] = t[k + i - 1] /\ k + i - 1 \in k .. m - 1
  <2>1. k <= m
    OBVIOUS
  <2> QED BY <2>1, SliceIs
<1>2. 1 \in 1 .. m - k /\ k + 1 - 1 = k /\ m - k # 0
  OBVIOUS
<1> QED BY <1>1, <1>2

\* Concatenation, for where nothing but its laws is needed.
Cat(a, b) == a \o b

\* Concatenation of three.
LEMMA CatAssociates ==
  ASSUME NEW S, NEW a \in Seq(S), NEW b \in Seq(S), NEW c \in Seq(S)
  PROVE  Cat(Cat(a, b), c) = Cat(a, Cat(b, c))
BY ConcatAssociates, SMTT(40) DEF Cat

\* The laws of concatenation.
LEMMA CatLaws ==
  ASSUME NEW S
  PROVE  /\ \A a, b \in Seq(S) : Cat(a, b) \in Seq(S)
         /\ \A a, b, c \in Seq(S) : Cat(Cat(a, b), c) = Cat(a, Cat(b, c))
         /\ \A a \in Seq(S) : Cat(<<>>, a) = a /\ Cat(a, <<>>) = a
<1>1. \A a, b \in Seq(S) : Cat(a, b) \in Seq(S)
  BY DEF Cat
<1>2. \A a, b, c \in Seq(S) : Cat(Cat(a, b), c) = Cat(a, Cat(b, c))
  BY CatAssociates
<1>3. \A a \in Seq(S) : Cat(<<>>, a) = a /\ Cat(a, <<>>) = a
  BY DEF Cat
<1> QED BY <1>1, <1>2, <1>3

\* What is concatenated may be parted elsewhere.
LEMMA Wrapped ==
  ASSUME NEW S, NEW a, NEW x, NEW b, NEW c,
         a \in Seq(S), x \in Seq(S), b \in Seq(S), c \in Seq(S)
  PROVE  Cat(Cat(a, x), Cat(b, c)) = Cat(Cat(a, Cat(x, b)), c)
<1>1. Cat(a, x) \in Seq(S)
  BY DEF Cat
<1>2. Cat(Cat(a, x), Cat(b, c)) = Cat(Cat(Cat(a, x), b), c)
  BY <1>1, CatAssociates
<1>3. Cat(Cat(a, x), b) = Cat(a, Cat(x, b))
  BY CatAssociates
<1> QED BY <1>2, <1>3, Zenon

MinIs(a, b) == Min({a, b}) = IF a <= b THEN a ELSE b
LEMMA MinOfTwo == \A a, b \in Nat : MinIs(a, b)
<1> SUFFICES ASSUME NEW a \in Nat, NEW b \in Nat PROVE MinIs(a, b)
  OBVIOUS
<1>1. Min({a, b}) = CHOOSE x \in {a, b} : \A y \in {a, b} : x <= y
  BY DEF Min
<1> QED BY <1>1 DEF MinIs

\* A nonempty set of indices has a greatest one.
LEMMA GreatestOf ==
  ASSUME NEW n \in Nat, NEW D, D \subseteq 1 .. n, D # {}
  PROVE  \E z \in D : \A i \in D : i <= z
<1> DEFINE T == {n - i : i \in D}
<1>1. T \subseteq Nat /\ T # {}
  <2>1. \A i \in D : n - i \in Nat
    OBVIOUS
  <2> QED BY <2>1
<1>2. PICK k \in T : \A m \in T : k <= m
  <2> HIDE DEF T
  <2> QED BY <1>1, LeastNat
<1>3. PICK z \in D : k = n - z
  OBVIOUS
<1>4. ASSUME NEW i \in D PROVE i <= z
  <2>1. n - i \in T
    OBVIOUS
  <2>2. n - z <= n - i
    BY <1>2, <1>3, <2>1
  <2>3. i \in Nat /\ z \in Nat
    OBVIOUS
  <2> HIDE DEF T
  <2> QED BY <2>2, <2>3
<1> QED BY <1>4

\* The last of a concatenation.
LEMMA LastIs ==
  ASSUME NEW S, NEW a, NEW b, a \in Seq(S), b \in Seq(S)
  PROVE  /\ b # <<>> => a \o b # <<>> /\ Last(a \o b) = Last(b)
         /\ a \o <<>> = a
<1>1. ASSUME b # <<>> PROVE a \o b # <<>> /\ Last(a \o b) = Last(b)
  <2>1. PICK y, n, m : y = a \o b /\ n = Len(a) /\ m = Len(b)
    OBVIOUS
  <2>2. y \in Seq(S) /\ Len(y) = n + m /\ n \in Nat /\ m \in Nat /\ \A i \in n + 1 .. n + m : y[i] = b[i - n]
    BY <2>1, ConcatIs
  <2>3. m # 0
    BY <1>1, <2>1
  <2>4. n + m \in n + 1 .. n + m /\ (n + m) - n = m /\ n + m # 0
    BY <2>2, <2>3
  <2>5. y[n + m] = b[m]
    BY <2>2, <2>4
  <2>6. y # <<>>
    BY <2>2, <2>4
  <2> QED BY <2>1, <2>2, <2>5, <2>6 DEF Last
<1> QED BY <1>1

\* The last of an appended sequence.
LEMMA LastAppended ==
  ASSUME NEW S, NEW a, a \in Seq(S), NEW c \in S
  PROVE  Last(a \o <<c>>) = c /\ Last(<<c>>) = c
BY DEF Last
=============================================================================
