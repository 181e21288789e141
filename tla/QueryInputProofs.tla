-------------------------- MODULE QueryInputProofs --------------------------
(***************************************************************************)
(* What holds of the lexer, the parser, the visitors and the completions   *)
(* for every query, and of the search bar whatever is typed and taken.     *)
(* All but the last are recursive; each recursive function is shown to be  *)
(* the one its definition describes before anything is proved about it.    *)
(* The tree of a query is followed through the rules as a Piece of its     *)
(* tokens: what the visitors return of it is in order, all there unless an *)
(* error is reported, and ends with the term or field that is completed.   *)
(***************************************************************************)
EXTENDS QueryInput, SequenceLemmas

TokenSet == [type : AllTypes, begin : Nat, end : Nat]

-----------------------------------------------------------------------------
(* Characters and tests of them *)

\* Looking ahead moves by one over an escape, and not otherwise.
LEMMA PeekMoves ==
  ASSUME NEW s, NEW p \in Nat, NEW la
  PROVE  /\ Peek(s, p, la) \in {p, p + 1}
         /\ Char(s, p + la) # Escape => Peek(s, p, la) = p
BY DEF Peek

\* It does not move beyond the end of the text.
LEMMA PeekInside ==
  ASSUME NEW s \in Seq(Characters), NEW p \in Nat, p <= Len(s), NEW la \in Nat
  PROVE  Peek(s, p, la) <= Len(s)
<1>1. Char(s, p + la) = Escape => p + la < Len(s)
  BY DEF Char, None, Escape
<1> QED BY <1>1 DEF Peek

\* Without escapes it never moves.
LEMMA Stays ==
  ASSUME NEW s \in Seq(Characters), Escape \notin ToSet(s), NEW p \in Nat, NEW la \in Nat
  PROVE  Peek(s, p, la) = p
<1>1. Char(s, p + la) # Escape
  BY DEF Char, ToSet, None, Escape
<1> QED
  BY <1>1, PeekMoves

\* Nothing goes on with the end.
LEMMA EndStops ==
  ASSUME NEW type
  PROVE  ~GoesOn(type, None)
BY DEF GoesOn, None, Whitespace, isTerm, isTermStart

\* A token goes on over characters of the text only.
LEMMA GoesOnInside ==
  ASSUME NEW s \in Seq(Characters), NEW type, NEW p \in Nat, GoesOn(type, Char(s, p))
  PROVE  p < Len(s)
BY EndStops DEF Char

\* The position after the next character is a later one.
LEMMA PeekNat ==
  ASSUME NEW s, NEW p \in Nat
  PROVE  Peek(s, p, 0) \in Nat /\ Peek(s, p, 0) + 1 \in Nat /\ p < Peek(s, p, 0) + 1
BY PeekMoves

\* The recursive function of Scan is the one that its definition describes.
LEMMA ScanUnfolds ==
  ASSUME NEW s \in Seq(Characters), NEW type, NEW p \in Nat
  PROVE  Scan(s, type, p) = IF GoesOn(type, Char(s, p)) THEN Scan(s, type, Peek(s, p, 0) + 1)
                                                        ELSE Peek(s, p, 0)
<1> DEFINE Go == {i \in Nat : GoesOn(type, Char(s, i))}
           Then == [i \in Nat |-> Peek(s, i, 0) + 1]
           Make == [i \in Nat |-> [x \in Nat |-> x]]
           Stop == [i \in Nat |-> Peek(s, i, 0)]
           Ends(f) == f = [i \in Nat |-> IF GoesOn(type, Char(s, i)) THEN f[Peek(s, i, 0) + 1]
                                         ELSE Peek(s, i, 0)]
           end == CHOOSE f : Ends(f)
<1>1. \A q : Scan(s, type, q) = end[q]
  BY DEF Scan
<1>2. \A i \in Nat : Peek(s, i, 0) \in Nat /\ Peek(s, i, 0) + 1 \in Nat /\ i < Peek(s, i, 0) + 1
  BY PeekNat
<1>3. \E f : Ends(f)
  <2>1. /\ Go \in SUBSET Nat /\ Then \in [Nat -> Nat] /\ Make \in [Nat -> [Nat -> Nat]]
        /\ Stop \in [Nat -> Nat]
    BY <1>2
  <2>2. \A i \in Go : i < Len(s) /\ i < Then[i]
    BY <1>2, GoesOnInside
  <2>3. Len(s) \in Nat /\ Nat # {}
    OBVIOUS
  <2>4. PICK f \in [Nat -> Nat] : Unwinds(f, Nat, Go, Then, Make, Stop)
    <3> HIDE DEF Go, Then, Make, Stop
    <3> QED BY <2>1, <2>2, <2>3, MovingOn, Zenon
  <2>5. ASSUME NEW i \in Nat
        PROVE  f[i] = IF GoesOn(type, Char(s, i)) THEN f[Peek(s, i, 0) + 1] ELSE Peek(s, i, 0)
    <3>1. f[i] = IF i \in Go THEN Make[i][f[Then[i]]] ELSE Stop[i]
      BY <2>4 DEF Unwinds
    <3>2. f[Then[i]] \in Nat
      BY <1>2, <2>4
    <3> QED BY <3>1, <3>2
  <2> QED BY <2>4, <2>5
<1>4. Ends(end)
  <2> HIDE DEF Ends
  <2> QED BY <1>3
<1>5. end[p] = IF GoesOn(type, Char(s, p)) THEN end[Peek(s, p, 0) + 1] ELSE Peek(s, p, 0)
  <2> HIDE DEF end
  <2> QED BY <1>4
<1> HIDE DEF end
<1> QED BY <1>1, <1>5

\* Where a token ends: not before it began, and within the query if it has no
\* escapes.
LEMMA ScanEnds ==
  ASSUME NEW s \in Seq(Characters), NEW type, NEW p \in Nat
  PROVE  /\ Scan(s, type, p) \in Nat
         /\ p <= Scan(s, type, p)
         /\ GoesOn(type, Char(s, p)) => p < Scan(s, type, p)
         /\ Escape \notin ToSet(s) /\ p <= Len(s) => Scan(s, type, p) <= Len(s)
<1> DEFINE Go == {i \in Nat : GoesOn(type, Char(s, i))}
           Then == [i \in Nat |-> Peek(s, i, 0) + 1]
           Good(i) == /\ Scan(s, type, i) \in Nat
                      /\ i <= Scan(s, type, i)
                      /\ GoesOn(type, Char(s, i)) => i < Scan(s, type, i)
                      /\ Escape \notin ToSet(s) /\ i <= Len(s) => Scan(s, type, i) <= Len(s)
           T == {i \in Nat : Good(i)}
<1>1. ASSUME NEW i \in Go
      PROVE  i < Len(s) /\ i < Then[i] /\ (Then[i] \in T => i \in T)
  <2>1. i < Len(s) /\ i < Then[i] /\ Then[i] \in Nat /\ i \in Nat
    BY PeekNat, GoesOnInside
  <2>2. Escape \notin ToSet(s) => Then[i] <= Len(s)
    BY <2>1, Stays
  <2>3. Scan(s, type, i) = Scan(s, type, Then[i])
    BY ScanUnfolds
  <2> HIDE DEF Then
  <2>4. ASSUME Good(Then[i]) PROVE Good(i)
    BY <2>1, <2>2, <2>3, <2>4
  <2> HIDE DEF Good, Go
  <2> QED BY <2>1, <2>4
<1>2. ASSUME NEW i \in Nat, i \notin Go PROVE i \in T
  BY <1>2, ScanUnfolds, PeekMoves, Stays
<1>3. Nat \subseteq T
  <2>1. Go \in SUBSET Nat /\ Then \in [Nat -> Nat] /\ Len(s) \in Nat
    BY PeekNat
  <2> HIDE DEF Go, Then, T
  <2> QED BY <1>1, <1>2, <2>1, LaterFirst
<1> QED BY <1>3

-----------------------------------------------------------------------------
(* Words *)

WordTypes == Operator \cup Modifier
Spelled(s, p, word) == \A i \in 0 .. Len(word.text) - 1 : Char(s, p + i) = word.text[i + 1]
Letters == {"O", "R", "|", "A", "N", "D", "&", "T", "!", "+", "-"}
WordRecords == [type : WordTypes, text : Seq(Letters), alone : BOOLEAN]

\* The words of the lexer, which are eight.
LEMMA WordsType == \A i \in 1 .. 8 : Words[i] \in WordRecords
<1>1. Words[1] = Keyword("OR", <<"O", "R">>) /\ Words[2] = Keyword("OR", <<"|", "|">>)
  BY DEF Words
<1>2. Words[3] = Keyword("AND", <<"A", "N", "D">>) /\ Words[4] = Keyword("AND", <<"&", "&">>)
  BY DEF Words
<1>3. Words[5] = Keyword("NOT", <<"N", "O", "T">>) /\ Words[6] = Prefix("NOT", <<"!">>)
  BY DEF Words
<1>4. Words[7] = Prefix("MUST", <<"+">>) /\ Words[8] = Prefix("MUST_NOT", <<"-">>)
  BY DEF Words
<1>5. /\ \A type \in WordTypes : \A word \in Seq(Letters) :
           Keyword(type, word) \in WordRecords /\ Prefix(type, word) \in WordRecords
  BY DEF Keyword, Prefix, WordRecords
<1>6. /\ <<"O", "R">> \in Seq(Letters) /\ <<"|", "|">> \in Seq(Letters)
      /\ <<"A", "N", "D">> \in Seq(Letters) /\ <<"&", "&">> \in Seq(Letters)
      /\ <<"N", "O", "T">> \in Seq(Letters) /\ <<"!">> \in Seq(Letters)
      /\ <<"+">> \in Seq(Letters) /\ <<"-">> \in Seq(Letters)
  BY DEF Letters
<1>7. {"OR", "AND", "NOT", "MUST", "MUST_NOT"} \subseteq WordTypes
  BY DEF WordTypes, Operator, Modifier
<1>8. \A i \in 1 .. 8 : i = 1 \/ i = 2 \/ i = 3 \/ i = 4 \/ i = 5 \/ i = 6 \/ i = 7 \/ i = 8
  OBVIOUS
<1>9. Words[1] \in WordRecords /\ Words[2] \in WordRecords
  BY <1>1, <1>5, <1>6, <1>7
<1>10. Words[3] \in WordRecords /\ Words[4] \in WordRecords
  BY <1>2, <1>5, <1>6, <1>7
<1>11. Words[5] \in WordRecords /\ Words[6] \in WordRecords
  BY <1>3, <1>5, <1>6, <1>7
<1>12. Words[7] \in WordRecords /\ Words[8] \in WordRecords
  BY <1>4, <1>5, <1>6, <1>7
<1> QED
  BY <1>8, <1>9, <1>10, <1>11, <1>12

\* A test for a word stays where it is, or moves on over escapes.
LEMMA RecogniseType ==
  ASSUME NEW s \in Seq(Characters), NEW p \in Nat, NEW word \in WordRecords
  PROVE  LET r == Recognise(s, p, word)
         IN  /\ r.type = word.type /\ r.hit \in BOOLEAN
             /\ r.pos \in {p, p + 1, p + 2}
             /\ r.hit => Spelled(s, p, word)
             /\ p <= Len(s) => r.pos <= Len(s)
             /\ Escape \notin ToSet(s) => r.pos = p
<1> DEFINE n == Len(word.text)
           differs == {i \in 0 .. n - 1 : Char(s, p + i) # word.text[i + 1]}
           peeked == Peek(s, p, n)
           r == Recognise(s, p, word)
<1>1. n \in Nat /\ word.alone \in BOOLEAN
  BY DEF WordRecords
<1>2. CASE differs # {}
  <2>1. r = Tried(word, FALSE, Peek(s, p, Min(differs)))
    BY <1>2 DEF Recognise
  <2>2. Min(differs) \in differs
    <3>1. differs \subseteq Nat /\ differs # {}
      BY <1>2
    <3> HIDE DEF differs
    <3>2. \E m \in differs : \A k \in differs : m <= k
      BY <3>1, LeastNat
    <3> QED BY <3>2 DEF Min
  <2>3. Min(differs) \in Nat
    BY <2>2
  <2> HIDE DEF differs
  <2>4. /\ Peek(s, p, Min(differs)) \in {p, p + 1}
        /\ p <= Len(s) => Peek(s, p, Min(differs)) <= Len(s)
        /\ Escape \notin ToSet(s) => Peek(s, p, Min(differs)) = p
    BY <2>3, PeekMoves, PeekInside, Stays
  <2> QED BY <2>1, <2>4 DEF Tried
<1>3. CASE differs = {} /\ Char(s, p + n) \in Whitespace
  <2>1. r = Tried(word, word.alone, p)
    BY <1>3 DEF Recognise
  <2>2. Spelled(s, p, word)
    BY <1>3 DEF Spelled
  <2> QED BY <2>1, <2>2, <1>1 DEF Tried
<1>4. CASE differs = {} /\ Char(s, p + n) \notin Whitespace
  <2>1. r = Tried(word, (Char(s, peeked + n) = None) = word.alone, Peek(s, peeked, n))
    BY <1>4 DEF Recognise
  <2>2. Spelled(s, p, word)
    BY <1>4 DEF Spelled
  <2>3. /\ peeked \in {p, p + 1} /\ (Escape \notin ToSet(s) => peeked = p)
        /\ p <= Len(s) => peeked <= Len(s)
    BY <1>1, PeekMoves, PeekInside, Stays
  <2>4. peeked \in Nat
    BY <2>3
  <2> HIDE DEF peeked, n
  <2>5. /\ Peek(s, peeked, n) \in {peeked, peeked + 1}
        /\ peeked <= Len(s) => Peek(s, peeked, n) <= Len(s)
        /\ Escape \notin ToSet(s) => Peek(s, peeked, n) = peeked
    BY <1>1, <2>4, PeekMoves, PeekInside, Stays
  <2> QED BY <2>1, <2>2, <2>3, <2>5 DEF Tried
<1> QED BY <1>2, <1>3, <1>4

\* The words are tried one after the other.
Untried(p) == [type |-> "NONE", hit |-> FALSE, pos |-> p]
Attempts(s, p, f) ==
  f = [i \in Nat |-> IF i = 0 THEN Untried(p) ELSE OrElse(f[i - 1], s, Words[i])]

\* The recursive function of FirstWord is the one that its definition describes.
LEMMA AttemptsExist ==
  ASSUME NEW s, NEW p \in Nat
  PROVE  \E f : Attempts(s, p, f)
<1> DEFINE Types == {Words[i].type : i \in Nat} \cup {"NONE"}
           Hits == {Words[i].alone : i \in Nat} \cup BOOLEAN
           R == [type : Types, hit : Hits, pos : Nat]
           Step == [i \in Nat |-> [r \in R |-> OrElse(r, s, Words[i])]]
<1>1. Untried(p) \in R
  BY DEF Untried
<1>2. ASSUME NEW i \in Nat, NEW r \in R PROVE OrElse(r, s, Words[i]) \in R
  <2> DEFINE word == Words[i]
             n == Len(word.text)
             differs == {k \in 0 .. n - 1 : Char(s, r.pos + k) # word.text[k + 1]}
             peeked == Peek(s, r.pos, n)
  <2>1. word.type \in Types /\ word.alone \in Hits /\ FALSE \in Hits /\ TRUE \in Hits
    OBVIOUS
  <2>2. r.pos \in Nat
    OBVIOUS
  <2>3. ASSUME NEW q \in Nat, NEW la PROVE Peek(s, q, la) \in Nat
    BY PeekMoves
  <2>4. \A hit \in Hits : \A q \in Nat : Tried(word, hit, q) \in R
    <3> HIDE DEF Hits, Types, word
    <3> QED BY <2>1 DEF Tried
  <2>5. Recognise(s, r.pos, word) \in {Tried(word, FALSE, Peek(s, r.pos, Min(differs))),
          Tried(word, word.alone, r.pos),
          Tried(word, (Char(s, peeked + n) = None) = word.alone, Peek(s, peeked, n))}
    BY DEF Recognise
  <2>6. ((Char(s, peeked + n) = None) = word.alone) \in Hits
    OBVIOUS
  <2>7. /\ Peek(s, r.pos, Min(differs)) \in Nat /\ peeked \in Nat /\ Peek(s, peeked, n) \in Nat
    BY <2>2, <2>3
  <2> HIDE DEF R, Hits, word, differs, peeked, n
  <2>8. Recognise(s, r.pos, word) \in R
    BY <2>1, <2>2, <2>4, <2>5, <2>6, <2>7
  <2> QED BY <2>8 DEF OrElse, word
<1>3. Step \in [Nat -> [R -> R]]
  <2> HIDE DEF R
  <2> QED BY <1>2
<1>4. PICK f \in [Nat -> R] : Accumulates(f, Untried(p), Step)
  <2> HIDE DEF R, Step
  <2> QED BY <1>1, <1>3, Folding, Zenon
<1>5. ASSUME NEW i \in Nat
      PROVE  f[i] = IF i = 0 THEN Untried(p) ELSE OrElse(f[i - 1], s, Words[i])
  <2> HIDE DEF R
  <2>1. CASE i = 0
    BY <1>4, <2>1 DEF Accumulates
  <2>2. CASE i # 0
    <3>1. i - 1 \in Nat /\ f[i - 1] \in R
      BY <2>2, <1>4
    <3>2. f[i] = Step[i][f[i - 1]]
      BY <2>2, <1>4 DEF Accumulates
    <3> QED BY <3>1, <3>2, <2>2
  <2> QED BY <2>1, <2>2
<1>6. f = [i \in Nat |-> f[i]]
  BY <1>4
<1> HIDE DEF R, Step
<1> QED BY <1>5, <1>6 DEF Attempts

\* What the attempts amount to, when the first of them began at p.
Attempted(s, p, r) ==
    /\ r.pos \in Nat /\ p <= r.pos /\ (p <= Len(s) => r.pos <= Len(s))
    /\ r.hit \in BOOLEAN
    /\ r.hit => r.type \in WordTypes
    /\ Escape \notin ToSet(s) =>
         /\ r.pos = p
         /\ r.hit => \E i \in 1 .. 8 : r.type = Words[i].type /\ Spelled(s, p, Words[i])

\* The word that the lexer tries is one of the eight, or none.
LEMMA FirstWordAttempted ==
  ASSUME NEW s \in Seq(Characters), NEW p \in Nat
  PROVE  Attempted(s, p, FirstWord(s, p))
<1> DEFINE after == CHOOSE f : Attempts(s, p, f)
           T == {i \in Nat : i <= 8 => Attempted(s, p, after[i])}
<1>1. FirstWord(s, p) = after[Len(Words)]
  BY DEF FirstWord, Attempts, Untried
<1>2. Attempts(s, p, after)
  BY AttemptsExist
<1>3. Len(Words) = 8
  BY DEF Words
<1> HIDE DEF after
<1>4. 0 \in T
  BY <1>2 DEF Attempts, Untried, Attempted
<1>5. ASSUME NEW i \in Nat, i \in T PROVE i + 1 \in T
  <2> SUFFICES ASSUME i + 1 <= 8 PROVE Attempted(s, p, after[i + 1])
    OBVIOUS
  <2> DEFINE r == after[i]
             w == Words[i + 1]
  <2>1. Attempted(s, p, r)
    BY <1>5
  <2>2. i + 1 \in 1 .. 8 /\ i + 1 \in Nat /\ i + 1 # 0 /\ (i + 1) - 1 = i
    OBVIOUS
  <2>3. after[i + 1] = OrElse(r, s, w)
    BY <1>2, <2>2 DEF Attempts
  <2>4. w \in WordRecords /\ w.type \in WordTypes
    BY <2>2, WordsType DEF WordRecords
  <2> DEFINE new == Recognise(s, r.pos, w)
  <2> HIDE DEF r, w
  <2>5. CASE r.hit
    BY <2>1, <2>3, <2>5 DEF OrElse
  <2>6. CASE ~r.hit
    <3>1. /\ r.pos \in Nat /\ p <= r.pos /\ (p <= Len(s) => r.pos <= Len(s)) /\ (Escape \notin ToSet(s) => r.pos = p)
      BY <2>1 DEF Attempted
    <3>2. /\ new.type = w.type /\ new.hit \in BOOLEAN
          /\ new.pos \in {r.pos, r.pos + 1, r.pos + 2}
          /\ new.hit => Spelled(s, r.pos, w)
          /\ r.pos <= Len(s) => new.pos <= Len(s)
          /\ Escape \notin ToSet(s) => new.pos = r.pos
      BY <2>4, <3>1, RecogniseType
    <3>3. after[i + 1] = new
      BY <2>3, <2>6 DEF OrElse
    <3> HIDE DEF new
    <3>4. new.pos \in Nat /\ p <= new.pos /\ (p <= Len(s) => new.pos <= Len(s))
      BY <3>1, <3>2
    <3>5. ASSUME Escape \notin ToSet(s), new.hit
          PROVE  \E k \in 1 .. 8 : new.type = Words[k].type /\ Spelled(s, p, Words[k])
      BY <3>1, <3>2, <3>5, <2>2 DEF w
    <3>6. Escape \notin ToSet(s) => new.pos = p
      BY <3>1, <3>2
    <3> QED BY <2>4, <3>2, <3>3, <3>4, <3>5, <3>6 DEF Attempted
  <2> QED BY <2>5, <2>6
<1>6. 8 \in T
  <2> HIDE DEF T
  <2>1. Nat \subseteq T
    BY <1>4, <1>5, NatSetInduction
  <2> QED BY <2>1
<1> QED BY <1>1, <1>3, <1>6

\* The rule for a word moves on; without escapes over the whole of the word.
LEMMA WordEndMovesOn ==
  ASSUME NEW s, NEW type \in WordTypes, NEW p \in Nat
  PROVE  WordEnd(s, type, p) \in Nat /\ p < WordEnd(s, type, p)
<1>1. Peek(s, p, 0) \in Nat /\ p <= Peek(s, p, 0)
  BY PeekMoves
<1> DEFINE q == Peek(s, p, 0)
<1> HIDE DEF q
<1>2. WordEnd(s, type, p) \in {p + 2, q + 1, q + 2, q + 3, p + 1}
  BY DEF WordEnd, q
<1> QED BY <1>1, <1>2 DEF q

\* A word that is spelled at a position lies inside the text.
LEMMA SpelledInside ==
  ASSUME NEW s \in Seq(Characters), NEW p \in Nat, NEW word \in WordRecords, Spelled(s, p, word),
         Len(word.text) >= 1
  PROVE  p + Len(word.text) <= Len(s) /\ Char(s, p) = word.text[1]
<1> DEFINE n == Len(word.text)
<1>1. n \in Nat /\ word.text \in Seq(Letters)
  BY DEF WordRecords
<1>2. n - 1 \in 0 .. n - 1 /\ (n - 1) + 1 = n /\ 0 \in 0 .. n - 1 /\ n \in 1 .. n
  BY <1>1
<1>3. Char(s, p + (n - 1)) = word.text[n] /\ Char(s, p + 0) = word.text[0 + 1]
  BY <1>2 DEF Spelled
<1>4. word.text[n] \in Letters
  BY <1>1, <1>2
<1>5. None \notin Letters
  BY DEF None, Letters
<1>6. p + (n - 1) < Len(s)
  <2> HIDE DEF n
  <2> QED BY <1>3, <1>4, <1>5 DEF Char
<1>7. p + 0 = p
  OBVIOUS
<1> QED BY <1>1, <1>3, <1>6, <1>7

\* So does all that its token covers.
LEMMA WordEndInside ==
  ASSUME NEW s \in Seq(Characters), Escape \notin ToSet(s), NEW p \in Nat,
         NEW i \in 1 .. 8, Spelled(s, p, Words[i])
  PROVE  WordEnd(s, Words[i].type, p) <= Len(s)
<1> DEFINE w == Words[i]
           n == Len(w.text)
<1>1. w \in WordRecords
  BY WordsType
<1>2. n >= 1 => p + n <= Len(s) /\ Char(s, p) = w.text[1]
  <2> HIDE DEF w
  <2> QED BY <1>1, SpelledInside DEF w
<1>5. Peek(s, p, 0) = p
  BY Stays
<1>6. i = 1 \/ i = 2 \/ i = 3 \/ i = 4 \/ i = 5 \/ i = 6 \/ i = 7 \/ i = 8
  OBVIOUS
<1>8. CASE i = 1
  <2>1. w.type = "OR" /\ n = 2
    BY <1>8 DEF Words, Keyword
  <2> QED BY <2>1, <1>2 DEF WordEnd
<1>9. CASE i = 2
  <2>1. w.type = "OR" /\ n = 2
    BY <1>9 DEF Words, Keyword
  <2> QED BY <2>1, <1>2 DEF WordEnd
<1>10. CASE i = 3
  <2>1. w.type = "AND" /\ n = 3
    BY <1>10 DEF Words, Keyword
  <2>2. WordEnd(s, "AND", p) \in {p + 2, p + 3}
    BY <1>5 DEF WordEnd
  <2> QED BY <2>1, <2>2, <1>2
<1>11. CASE i = 4
  <2>1. w.type = "AND" /\ n = 2 /\ w.text[1] = "&"
    BY <1>11 DEF Words, Keyword
  <2> QED BY <2>1, <1>2, <1>5 DEF WordEnd
<1>12. CASE i = 5
  <2>1. w.type = "NOT" /\ n = 3
    BY <1>12 DEF Words, Keyword
  <2>2. WordEnd(s, "NOT", p) \in {p + 1, p + 3}
    BY <1>5 DEF WordEnd
  <2> QED BY <2>1, <2>2, <1>2
<1>13. CASE i = 6
  <2>1. w.type = "NOT" /\ n = 1 /\ w.text[1] = "!"
    BY <1>13 DEF Words, Prefix
  <2> QED BY <2>1, <1>2, <1>5 DEF WordEnd
<1>14. CASE i = 7
  <2>1. w.type = "MUST" /\ n = 1
    BY <1>14 DEF Words, Prefix
  <2> QED BY <2>1, <1>2 DEF WordEnd
<1>15. CASE i = 8
  <2>1. w.type = "MUST_NOT" /\ n = 1
    BY <1>15 DEF Words, Prefix
  <2> QED BY <2>1, <1>2 DEF WordEnd
<1> QED BY <1>6, <1>8, <1>9, <1>10, <1>11, <1>12, <1>13, <1>14, <1>15

-----------------------------------------------------------------------------
(* Tokens *)

\* A token, or the end that the parser sees behind the last one.
TokenOrEnd == [type : AllTypes \cup {"EOF"}, begin : Nat, end : Nat]

\* A token found at p.
Found(s, p, t) ==
    /\ t \in TokenSet
    /\ p <= t.begin /\ t.begin < t.end /\ t.begin <= Len(s)
    /\ Escape \notin ToSet(s) =>
         /\ t.begin = p
         /\ t.end <= Len(s) \/ (t.type = "PHRASE" /\ t.end = Len(s) + 1)

\* What makes a token one that the lexer may find.
LEMMA FoundToken ==
  ASSUME NEW s, NEW p \in Nat, NEW type \in AllTypes, NEW begin \in Nat, NEW end \in Nat,
         p <= begin, begin < end, begin <= Len(s),
         Escape \notin ToSet(s) =>
           begin = p /\ (end <= Len(s) \/ (type = "PHRASE" /\ end = Len(s) + 1))
  PROVE  Found(s, p, Token(type, begin, end))
BY DEF Found, Token, TokenSet

\* There is a character at the positions of the text only.
LEMMA CharInside ==
  ASSUME NEW s \in Seq(Characters), NEW p \in Nat
  PROVE  Char(s, p) # None <=> p < Len(s)
BY CharactersAssumption DEF Char

\* Which symbols are distinct.
LEMMA Symbols ==
  /\ Quote # ":" /\ Quote \notin RangeStart /\ Quote # Escape /\ ~isTermStart(Quote)
  /\ ":" \notin RangeStart /\ ":" # Escape /\ ~isTermStart(":")
  /\ Escape \notin RangeStart /\ ~isTermStart(Escape)
BY DEF Quote, Escape, RangeStart, isTermStart, Special

\* The rule that is taken for a token, and where it begins and ends.
LEMMA NextToken ==
  ASSUME NEW s \in Seq(Characters), NEW p \in Nat
  PROVE  /\ p < Len(s) => Found(s, p, next(s, p))
         /\ p >= Len(s) => next(s, p) = Token("EOF", Len(s), Len(s))
<1> DEFINE la == Char(s, p)
           word == FirstWord(s, Peek(s, p, 0))
           q == word.pos
           plain == Escape \notin ToSet(s)
<1>1. next(s, p) = TokenAt(s, p, la, word)
  BY DEF next
<1>2. ASSUME p >= Len(s) PROVE next(s, p) = Token("EOF", Len(s), Len(s))
  <2>1. la = None
    BY <1>2, CharInside
  <2>2. None \notin Whitespace
    BY DEF None, Whitespace
  <2> QED BY <1>1, <2>1, <2>2 DEF TokenAt
<1> SUFFICES ASSUME p < Len(s) PROVE Found(s, p, TokenAt(s, p, la, word))
  BY <1>1, <1>2
<1>3. /\ Peek(s, p, 0) \in {p, p + 1}
      /\ la = Escape => Peek(s, p, 0) = p + 1
      /\ plain => Peek(s, p, 0) = p
      /\ Peek(s, p, 0) <= Len(s)
  <2>1. plain => Peek(s, p, 0) = p
    BY Stays
  <2>2. p + 0 = p
    OBVIOUS
  <2>3. Peek(s, p, 0) <= Len(s)
    BY PeekInside
  <2> QED BY <2>1, <2>2, <2>3 DEF Peek
<1>4. Attempted(s, Peek(s, p, 0), word)
  BY <1>3, FirstWordAttempted
<1>5. /\ q \in Nat /\ p <= q /\ q + 1 \in Nat /\ q <= Len(s)
      /\ la = Escape => p < q
      /\ plain => q = p
  BY <1>3, <1>4 DEF Attempted
<1>6. la # None /\ Len(s) \in Nat
  BY CharInside
<1>7. plain => la # Escape
  BY DEF Char, ToSet
<1>8. ASSUME NEW type, NEW r \in Nat
      PROVE  /\ Scan(s, type, r) \in Nat /\ r <= Scan(s, type, r)
             /\ GoesOn(type, Char(s, r)) => r < Scan(s, type, r)
             /\ plain /\ r <= Len(s) => Scan(s, type, r) <= Len(s)
  BY ScanEnds
<1>a. AllTypes = {"WS", "ERROR", "TERM", "PHRASE", "OR", "AND", "NOT", "MUST", "MUST_NOT", "COLON"}
  BY DEF AllTypes, Hidden, Expr, Operator, Modifier
<1>b. /\ q + 1 \in Nat /\ (plain => q = p /\ q + 1 <= Len(s))
  BY <1>5, <1>6
<1>9. CASE la \in Whitespace
  <2>1. TokenAt(s, p, la, word) = Token("WS", p, Scan(s, "WS", p))
    BY <1>9, <1>6 DEF TokenAt
  <2>2. GoesOn("WS", Char(s, p))
    BY <1>9 DEF GoesOn
  <2> DEFINE end == Scan(s, "WS", p)
  <2>3. end \in Nat /\ p < end /\ (plain => end <= Len(s))
    BY <1>8, <2>2, <1>6
  <2> HIDE DEF end
  <2>4. Found(s, p, Token("WS", p, end))
    BY <2>3, <1>a, FoundToken
  <2> QED BY <2>1, <2>4 DEF end
<1>10. CASE la \notin Whitespace /\ word.hit
  <2>1. TokenAt(s, p, la, word) = Token(word.type, q, WordEnd(s, word.type, q))
    BY <1>10, <1>6 DEF TokenAt, VisibleAt
  <2>2. word.type \in WordTypes /\ word.type \in AllTypes
    BY <1>10, <1>4 DEF Attempted, AllTypes, WordTypes
  <2>3. WordEnd(s, word.type, q) \in Nat /\ q < WordEnd(s, word.type, q)
    BY <2>2, <1>5, WordEndMovesOn
  <2>4. plain => WordEnd(s, word.type, q) <= Len(s)
    <3> SUFFICES ASSUME plain PROVE WordEnd(s, word.type, p) <= Len(s)
      BY <1>5
    <3>1. PICK i \in 1 .. 8 : word.type = Words[i].type /\ Spelled(s, p, Words[i])
      BY <1>3, <1>4, <1>10 DEF Attempted
    <3> HIDE DEF word
    <3> QED BY <3>1, WordEndInside
  <2> HIDE DEF q, word
  <2> QED BY <2>1, <2>2, <2>3, <2>4, <1>5, FoundToken
<1>11. CASE la \notin Whitespace /\ ~word.hit /\ la = Quote
  <2>1. TokenAt(s, p, la, word) = Token("PHRASE", q, Scan(s, "PHRASE", q + 1) + 1)
    BY <1>11, <1>6, Symbols DEF TokenAt, VisibleAt, SymbolAt, phrase
  <2> DEFINE end == Scan(s, "PHRASE", q + 1)
  <2>2. end \in Nat /\ q + 1 <= end /\ (plain => end <= Len(s))
    BY <1>8, <1>b
  <2> HIDE DEF end, q, word
  <2>3. end + 1 \in Nat /\ q < end + 1 /\ (plain => end + 1 <= Len(s) \/ end + 1 = Len(s) + 1)
    BY <2>2, <1>5, <1>6
  <2>4. Found(s, p, Token("PHRASE", q, end + 1))
    BY <2>3, <1>5, <1>a, FoundToken
  <2> QED BY <2>1, <2>4 DEF end
<1>12. CASE la \notin Whitespace /\ ~word.hit /\ la = ":"
  <2>1. TokenAt(s, p, la, word) = Token("COLON", q, q + 1)
    BY <1>12, <1>6, Symbols DEF TokenAt, VisibleAt, SymbolAt
  <2> HIDE DEF q, word
  <2>2. Found(s, p, Token("COLON", q, q + 1))
    BY <1>5, <1>b, <1>a, FoundToken
  <2> QED BY <2>1, <2>2
<1>13. CASE la \notin Whitespace /\ ~word.hit /\ la \in RangeStart
  <2>1. TokenAt(s, p, la, word) = range(s, q)
    BY <1>13, <1>6, Symbols DEF TokenAt, VisibleAt, SymbolAt
  <2> DEFINE end == Scan(s, Char(s, q), q + 1)
  <2>2. end \in Nat /\ q + 1 <= end /\ (plain => end <= Len(s))
    BY <1>8, <1>b
  <2>3. range(s, q) = IF Char(s, end) = None THEN Token("ERROR", q, end)
                      ELSE Token("TERM", q, end + 1)
    BY DEF range
  <2> HIDE DEF end, q, word
  <2>4. CASE Char(s, end) = None
    <3>1. Found(s, p, Token("ERROR", q, end))
      BY <2>2, <1>5, <1>a, FoundToken
    <3> QED BY <3>1, <2>1, <2>3, <2>4
  <2>5. CASE Char(s, end) # None
    <3>1. end + 1 \in Nat /\ q < end + 1 /\ (plain => end + 1 <= Len(s))
      BY <2>2, <2>5, <1>5, <1>6, CharInside
    <3>2. Found(s, p, Token("TERM", q, end + 1))
      BY <3>1, <1>5, <1>a, FoundToken
    <3> QED BY <3>2, <2>1, <2>3, <2>5
  <2> QED BY <2>4, <2>5
<1>14. CASE la \notin Whitespace /\ ~word.hit /\ la = Escape
  <2>1. TokenAt(s, p, la, word) = Token("ERROR", q - 1, q)
    BY <1>14, <1>6, Symbols DEF TokenAt, VisibleAt, SymbolAt
  <2>2. ~plain /\ q - 1 \in Nat /\ p <= q - 1
    BY <1>14, <1>5, <1>7
  <2> HIDE DEF q, word
  <2>3. Found(s, p, Token("ERROR", q - 1, q))
    BY <2>2, <1>5, <1>a, FoundToken
  <2> QED BY <2>1, <2>3
<1>15. CASE la \notin Whitespace \cup RangeStart /\ ~word.hit /\ la \notin {Escape, Quote, ":"}
            /\ isTermStart(la)
  <2>1. TokenAt(s, p, la, word) = Token("TERM", q, Scan(s, "TERM", q + 1))
    BY <1>15, <1>6, Symbols DEF TokenAt, VisibleAt, SymbolAt, term
  <2> DEFINE end == Scan(s, "TERM", q + 1)
  <2>2. end \in Nat /\ q + 1 <= end /\ (plain => end <= Len(s))
    BY <1>8, <1>b
  <2> HIDE DEF end, q, word
  <2>3. Found(s, p, Token("TERM", q, end))
    BY <2>2, <1>5, <1>a, FoundToken
  <2> QED BY <2>1, <2>3 DEF end
<1>16. CASE la \notin Whitespace \cup RangeStart /\ ~word.hit /\ la \notin {Escape, Quote, ":"}
            /\ ~isTermStart(la)
  <2>1. TokenAt(s, p, la, word) = Token("ERROR", q, q + 1)
    BY <1>16, <1>6, Symbols DEF TokenAt, VisibleAt, SymbolAt
  <2> HIDE DEF q, word
  <2>2. Found(s, p, Token("ERROR", q, q + 1))
    BY <1>5, <1>b, <1>a, FoundToken
  <2> QED BY <2>1, <2>2
<1>17. word.hit \in BOOLEAN
  BY <1>4 DEF Attempted
<1> HIDE DEF la, word
<1> QED BY <1>9, <1>10, <1>11, <1>12, <1>13, <1>14, <1>15, <1>16, <1>17

\* The definition of the tokens from each position.
TokensFrom(s, f) ==
    f = [p \in Nat |-> IF next(s, p).type = "EOF" THEN <<>>
                       ELSE <<next(s, p)>> \o f[next(s, p).end]]

\* There is a token where there is a character.
LEMMA NextType ==
  ASSUME NEW s \in Seq(Characters), NEW p \in Nat
  PROVE  /\ next(s, p).type = "EOF" <=> p >= Len(s)
         /\ next(s, p).type # "EOF" =>
              /\ p < Len(s) /\ Found(s, p, next(s, p))
              /\ next(s, p) \in TokenSet /\ next(s, p).end \in Nat /\ p < next(s, p).end
<1>1. Len(s) \in Nat
  OBVIOUS
<1>2. CASE p < Len(s)
  <2>1. Found(s, p, next(s, p))
    BY <1>2, NextToken
  <2>2. /\ next(s, p) \in TokenSet /\ next(s, p).end \in Nat /\ next(s, p).begin \in Nat
        /\ next(s, p).type \in AllTypes
    BY <2>1 DEF Found, TokenSet
  <2>3. p < next(s, p).end
    BY <2>1, <2>2 DEF Found
  <2>4. "EOF" \notin AllTypes
    BY DEF AllTypes, Hidden, Expr, Operator, Modifier
  <2> QED BY <1>1, <1>2, <2>1, <2>2, <2>3, <2>4
<1>3. CASE p >= Len(s)
  <2>1. next(s, p).type = "EOF"
    BY <1>3, NextToken DEF Token
  <2> QED BY <1>1, <1>3, <2>1
<1> QED BY <1>1, <1>2, <1>3

\* The recursive function of Tokens is the one that its definition describes.
LEMMA TokensFromExists ==
  ASSUME NEW s \in Seq(Characters)
  PROVE  \E f : TokensFrom(s, f)
<1> DEFINE R == Seq(TokenSet)
           Go == {p \in Nat : next(s, p).type # "EOF"}
           Then == [p \in Nat |-> IF p \in Go THEN next(s, p).end ELSE 0]
           Make == [p \in Nat |-> [r \in R |-> IF p \in Go THEN <<next(s, p)>> \o r ELSE r]]
           Stop == [p \in Nat |-> <<>>]
<1>1. \A p \in Go : p < Len(s) /\ next(s, p) \in TokenSet /\ next(s, p).end \in Nat
                    /\ p < next(s, p).end
  BY NextType
<1>2. ASSUME NEW p \in Go, NEW r \in R PROVE <<next(s, p)>> \o r \in R
  <2>1. next(s, p) \in TokenSet
    BY <1>1
  <2> HIDE DEF Go
  <2> QED BY <2>1
<1>3. Go \in SUBSET Nat /\ Then \in [Nat -> Nat] /\ \A p \in Go : p < Len(s) /\ p < Then[p]
  BY <1>1
<1>4. <<>> \in R /\ R # {}
  <2>1. <<>> \in R
    OBVIOUS
  <2> HIDE DEF R
  <2> QED BY <2>1
<1>5. Make \in [Nat -> [R -> R]] /\ Stop \in [Nat -> R]
  <2> HIDE DEF Go, R
  <2> QED BY <1>2, <1>4
<1>6. PICK f \in [Nat -> R] : Unwinds(f, Nat, Go, Then, Make, Stop)
  <2>1. Len(s) \in Nat
    OBVIOUS
  <2> HIDE DEF R, Go, Then, Make, Stop
  <2> QED BY <2>1, <1>3, <1>4, <1>5, MovingOn, Zenon
<1>7. ASSUME NEW p \in Nat
      PROVE  f[p] = IF next(s, p).type = "EOF" THEN <<>> ELSE <<next(s, p)>> \o f[next(s, p).end]
  <2>1. f[p] = IF p \in Go THEN Make[p][f[Then[p]]] ELSE Stop[p]
    BY <1>6 DEF Unwinds
  <2>2. CASE p \in Go
    <3>1. Then[p] = next(s, p).end /\ Then[p] \in Nat
      BY <2>2, <1>3
    <3>2. f[Then[p]] \in R
      BY <3>1, <1>6
    <3>3. Make[p][f[Then[p]]] = <<next(s, p)>> \o f[Then[p]]
      <4> HIDE DEF R, Go, Then
      <4> QED BY <3>2, <2>2
    <3> HIDE DEF Make, R, Then
    <3> QED BY <2>1, <2>2, <3>1, <3>3
  <2>3. CASE p \notin Go
    BY <2>1, <2>3
  <2> QED BY <2>2, <2>3
<1>8. f = [p \in Nat |-> f[p]]
  BY <1>6
<1> HIDE DEF R
<1> QED BY <1>7, <1>8 DEF TokensFrom

\* TokensTile, of the tokens from p.
End(tokens, i, p) == IF i = 1 THEN p ELSE tokens[i - 1].end
Tiled(s, p, tokens) ==
    /\ tokens \in Seq(TokenSet)
    /\ \A i \in 1 .. Len(tokens) :
         /\ End(tokens, i, p) <= tokens[i].begin /\ tokens[i].begin < tokens[i].end
         /\ tokens[i].begin <= Len(s)
         /\ Escape \notin ToSet(s) => End(tokens, i, p) = tokens[i].begin
    /\ tokens = <<>> => p >= Len(s)
    /\ Escape \notin ToSet(s) /\ tokens # <<>> =>
         \/ tokens[Len(tokens)].end = Len(s)
         \/ tokens[Len(tokens)].type = "PHRASE" /\ tokens[Len(tokens)].end = Len(s) + 1

\* A token and those that tile what is after it.
LEMMA TiledOneMore ==
  ASSUME NEW s \in Seq(Characters), NEW p \in Nat, p < Len(s), NEW t, Found(s, p, t),
         NEW tokens, Tiled(s, t.end, tokens)
  PROVE  Tiled(s, p, <<t>> \o tokens)
<1> DEFINE all == <<t>> \o tokens
           n == Len(tokens)
           plain == Escape \notin ToSet(s)
<1>1. t \in TokenSet /\ tokens \in Seq(TokenSet) /\ n \in Nat /\ Len(s) \in Nat
  BY DEF Found, Tiled
<1>2. /\ all \in Seq(TokenSet) /\ Len(all) = n + 1 /\ all[1] = t /\ DOMAIN all = 1 .. n + 1
      /\ \A i \in 2 .. n + 1 : all[i] = tokens[i - 1] /\ i - 1 \in 1 .. n
  BY <1>1, OneMore
<1>3. /\ t.end \in Nat /\ p <= t.begin /\ t.begin < t.end /\ t.begin <= Len(s)
      /\ plain => p = t.begin /\ (t.end <= Len(s) \/ (t.type = "PHRASE" /\ t.end = Len(s) + 1))
  <2>1. t.end \in Nat
    BY <1>1 DEF TokenSet
  <2> QED BY <2>1 DEF Found
<1> HIDE DEF all, n
<1>4. ASSUME NEW i \in 1 .. n + 1
      PROVE  /\ End(all, i, p) <= all[i].begin /\ all[i].begin < all[i].end
             /\ all[i].begin <= Len(s)
             /\ plain => End(all, i, p) = all[i].begin
  <2>1. CASE i = 1
    BY <2>1, <1>2, <1>3 DEF End
  <2>2. CASE i # 1
    <3> DEFINE j == i - 1
    <3>1. i \in 2 .. n + 1 /\ j \in 1 .. n /\ all[i] = tokens[j]
      BY <2>2, <1>1, <1>2, SMTT(40)
    <3>2. End(all, i, p) = End(tokens, j, t.end)
      <4>1. CASE i = 2
        BY <4>1, <1>2 DEF End
      <4>2. CASE i # 2
        <5>1. i - 1 \in 2 .. n + 1
          BY <3>1, <4>2, <1>1
        <5>2. all[i - 1] = tokens[j - 1]
          BY <5>1, <1>2
        <5> QED BY <5>2, <2>2, <4>2, <3>1 DEF End
      <4> QED BY <4>1, <4>2
    <3> HIDE DEF j
    <3> QED BY <3>1, <3>2 DEF Tiled, n
  <2> QED BY <2>1, <2>2
<1>5. plain => \/ all[n + 1].end = Len(s)
               \/ all[n + 1].type = "PHRASE" /\ all[n + 1].end = Len(s) + 1
  <2>1. CASE tokens = <<>>
    <3>1. n = 0 /\ t.end >= Len(s)
      BY <2>1 DEF Tiled, n
    <3> QED BY <3>1, <1>1, <1>2, <1>3
  <2>2. CASE tokens # <<>>
    <3>1. n # 0 /\ n + 1 \in 2 .. n + 1 /\ (n + 1) - 1 = n
      BY <2>2, <1>1 DEF n
    <3>2. all[n + 1] = tokens[n]
      BY <3>1, <1>2
    <3> QED BY <3>2, <2>2 DEF Tiled, n
  <2> QED BY <2>1, <2>2
<1>6. all # <<>>
  BY <1>2, <1>1
<1> QED BY <1>2, <1>4, <1>5, <1>6 DEF Tiled, all

\* The tokens of a text tile it.
LEMMA TokensTiled ==
  ASSUME NEW s \in Seq(Characters)
  PROVE  Tiled(s, 0, Tokens(s))
<1> DEFINE from == CHOOSE f : TokensFrom(s, f)
           Go == {p \in Nat : next(s, p).type # "EOF"}
           Then == [p \in Nat |-> IF p \in Go THEN next(s, p).end ELSE 0]
           T == {p \in Nat : Tiled(s, p, from[p])}
<1>1. Tokens(s) = from[0]
  BY DEF Tokens, TokensFrom
<1>2. TokensFrom(s, from)
  BY TokensFromExists
<1> HIDE DEF from
<1>3. ASSUME NEW p \in Nat
      PROVE  from[p] = IF next(s, p).type = "EOF" THEN <<>> ELSE <<next(s, p)>> \o from[next(s, p).end]
  BY <1>2 DEF TokensFrom
<1>4. ASSUME NEW p \in Go PROVE p < Len(s) /\ p < Then[p] /\ (Then[p] \in T => p \in T)
  <2>1. p < Len(s) /\ Found(s, p, next(s, p)) /\ p < next(s, p).end
    BY NextType
  <2>2. Then[p] = next(s, p).end
    OBVIOUS
  <2>3. from[p] = <<next(s, p)>> \o from[next(s, p).end]
    BY <1>3
  <2>4. ASSUME Tiled(s, next(s, p).end, from[next(s, p).end]) PROVE Tiled(s, p, from[p])
    BY <2>1, <2>3, <2>4, TiledOneMore
  <2> QED BY <2>1, <2>2, <2>4
<1>5. ASSUME NEW p \in Nat, p \notin Go PROVE p \in T
  <2>1. from[p] = <<>> /\ p >= Len(s)
    BY <1>3, <1>5, NextType
  <2>2. <<>> \in Seq(TokenSet) /\ 1 .. Len(<<>>) = {}
    OBVIOUS
  <2>3. Tiled(s, p, <<>>)
    BY <2>1, <2>2 DEF Tiled
  <2> QED BY <2>1, <2>3
<1>6. Nat \subseteq T
  <2>1. Go \in SUBSET Nat /\ Then \in [Nat -> Nat] /\ Len(s) \in Nat
    BY NextType
  <2> HIDE DEF Go, Then, T
  <2> QED BY <1>4, <1>5, <2>1, LaterFirst
<1> QED BY <1>1, <1>6

-----------------------------------------------------------------------------
(* States of the parser *)

ErrorSet == [position : Nat, message : Messages]
Fine(st) == st.errors = <<>> /\ ~st.thrown

\* Fine, but for the lone signs of the query.
Quiet(t) == t.type = "ERROR" => LoneSign(query, t.begin)
Ignored(errors) == \A i \in 1 .. Len(errors) : Ignorable(errors[i])
Sane(st) == Ignored(st.errors) /\ ~st.thrown

\* The positions in st are at most n; they are so in r, and r is not sane if st
\* is not.
Within(st, n) ==
    /\ st.eof <= n
    /\ \A i \in 1 .. Len(st.rest) : st.rest[i].begin <= n
    /\ \A i \in 1 .. Len(st.errors) : st.errors[i].position <= n
Keeps(st, r) == (\A n \in Nat : Within(st, n) => Within(r, n)) /\ (Sane(r) => Sane(st))

\* The parts of a state, and states with another rest or other errors.
LEMMA StateParts ==
  ASSUME NEW st \in States
  PROVE  /\ st.rest \in Seq(TokenSet) /\ st.errors \in Seq(ErrorSet) /\ st.eof \in Nat
         /\ st.thrown \in BOOLEAN /\ Len(st.rest) \in Nat /\ DOMAIN st.rest = 1 .. Len(st.rest)
<1>1. States = [rest : Seq(TokenSet), errors : Seq(ErrorSet), eof : Nat, thrown : BOOLEAN]
  BY DEF States, TokenSet, ErrorSet
<1>2. /\ st.rest \in Seq(TokenSet) /\ st.errors \in Seq(ErrorSet) /\ st.eof \in Nat
      /\ st.thrown \in BOOLEAN
  BY <1>1
<1> QED BY <1>2

\* A state of the parser with another rest.
LEMMA WithRest ==
  ASSUME NEW st \in States, NEW rest \in Seq(TokenSet)
  PROVE  LET r == [st EXCEPT !.rest = rest]
         IN  /\ r \in States /\ r.rest = rest /\ r.errors = st.errors /\ r.thrown = st.thrown
             /\ r.eof = st.eof
             /\ (Fine(r) <=> Fine(st)) /\ (Sane(r) <=> Sane(st))
<1>1. States = [rest : Seq(TokenSet), errors : Seq(ErrorSet), eof : Nat, thrown : BOOLEAN]
  BY DEF States, TokenSet, ErrorSet
<1>2. [st EXCEPT !.rest = rest] \in States
  BY <1>1
<1>3. /\ [st EXCEPT !.rest = rest].rest = rest /\ [st EXCEPT !.rest = rest].errors = st.errors
      /\ [st EXCEPT !.rest = rest].thrown = st.thrown
      /\ [st EXCEPT !.rest = rest].eof = st.eof
  BY <1>1
<1> QED BY <1>2, <1>3 DEF Fine, Sane

\* A state of the parser with other errors.
LEMMA WithErrors ==
  ASSUME NEW st \in States, NEW errors \in Seq(ErrorSet)
  PROVE  LET r == [st EXCEPT !.errors = errors]
         IN  /\ r \in States /\ r.rest = st.rest /\ r.errors = errors /\ r.thrown = st.thrown
             /\ r.eof = st.eof
<1>1. States = [rest : Seq(TokenSet), errors : Seq(ErrorSet), eof : Nat, thrown : BOOLEAN]
  BY DEF States, TokenSet, ErrorSet
<1>2. [st EXCEPT !.errors = errors] \in States
  BY <1>1
<1> QED BY <1>1, <1>2

\* What is looked at is the first of the rest, or the end.
LEMMA LookAheadToken ==
  ASSUME NEW st \in States
  PROVE  /\ LookAhead(st) \in TokenOrEnd /\ LookAhead(st).begin \in Nat
         /\ LookAhead(st).type = "EOF" <=> st.rest = <<>>
         /\ st.rest # <<>> => LookAhead(st) = st.rest[1] /\ Len(st.rest) >= 1
<1>1. st.rest \in Seq(TokenSet) /\ st.eof \in Nat
  BY StateParts
<1>2. "EOF" \notin AllTypes
  BY DEF AllTypes, Hidden, Expr, Operator, Modifier
<1>3. CASE st.rest = <<>>
  BY <1>1, <1>3 DEF LookAhead, Token, TokenOrEnd
<1>4. CASE st.rest # <<>>
  <2>1. Head(st.rest) \in TokenSet /\ Head(st.rest) = st.rest[1] /\ Len(st.rest) >= 1
    BY <1>1, <1>4
  <2> QED BY <2>1, <1>2, <1>4 DEF LookAhead, TokenOrEnd, TokenSet
<1> QED BY <1>3, <1>4

\* What is at a state is not at its end.
LEMMA AtSomething ==
  ASSUME NEW st \in States, NEW types \in SUBSET AllTypes, At(st, types)
  PROVE  st.rest # <<>> /\ Len(st.rest) >= 1
<1>1. "EOF" \notin AllTypes
  BY DEF AllTypes, Hidden, Expr, Operator, Modifier
<1> QED BY <1>1, LookAheadToken DEF At

\* The sets of types that the rules look for.
LEMMA TypeSets ==
  /\ Expr \in SUBSET AllTypes /\ Operator \in SUBSET AllTypes /\ Modifier \in SUBSET AllTypes
  /\ {"COLON"} \in SUBSET AllTypes /\ Hidden \in SUBSET AllTypes
  /\ Expr \cup Operator \in SUBSET AllTypes
BY DEF AllTypes

\* Consuming, skipping and reporting lead to states with positions no further
\* than before.
LEMMA ConsumeState ==
  ASSUME NEW st \in States
  PROVE  /\ Consume(st) \in States /\ Keeps(st, Consume(st))
         /\ (Fine(Consume(st)) <=> Fine(st)) /\ (Sane(Consume(st)) <=> Sane(st))
         /\ Len(Consume(st).rest) <= Len(st.rest)
         /\ st.rest # <<>> =>
              /\ Consume(st).rest = Tail(st.rest)
              /\ Len(Consume(st).rest) = Len(st.rest) - 1
<1>1. st.rest \in Seq(TokenSet) /\ Len(st.rest) \in Nat
  BY StateParts
<1>2. CASE st.rest = <<>>
  BY <1>1, <1>2 DEF Consume, Keeps
<1>3. CASE st.rest # <<>>
  <2>1. Tail(st.rest) \in Seq(TokenSet) /\ Len(Tail(st.rest)) = Len(st.rest) - 1
    BY <1>1, <1>3
  <2>2. Consume(st) = [st EXCEPT !.rest = Tail(st.rest)]
    BY <1>3 DEF Consume
  <2> DEFINE tail == Tail(st.rest)
  <2> HIDE DEF tail
  <2>3. tail \in Seq(TokenSet) /\ Len(tail) = Len(st.rest) - 1 /\ Consume(st) = [st EXCEPT !.rest = tail]
    BY <2>1, <2>2 DEF tail
  <2>4. /\ Consume(st) \in States /\ Consume(st).rest = tail
        /\ (Fine(Consume(st)) <=> Fine(st)) /\ (Sane(Consume(st)) <=> Sane(st))
        /\ Consume(st).errors = st.errors /\ Consume(st).eof = st.eof
    BY <2>3, WithRest
  <2>5. \A i \in 1 .. Len(tail) : tail[i] = st.rest[i + 1] /\ i + 1 \in 1 .. Len(st.rest)
    BY <1>1, <1>3 DEF tail
  <2>6. Keeps(st, Consume(st))
    BY <2>4, <2>5 DEF Keeps, Within
  <2> QED BY <1>1, <1>3, <2>3, <2>4, <2>6 DEF tail
<1> QED BY <1>2, <1>3

\* The first of the tokens that are left and are not of these types.
LEMMA LeadingIs ==
  ASSUME NEW st \in States, NEW types
  PROVE  /\ Leading(st, types) \in 0 .. Len(st.rest)
         /\ \A i \in 1 .. Leading(st, types) : st.rest[i].type \in types
         /\ Leading(st, types) < Len(st.rest) =>
              st.rest[Leading(st, types) + 1].type \notin types
<1> DEFINE others == {i \in DOMAIN st.rest : st.rest[i].type \notin types}
<1>1. DOMAIN st.rest = 1 .. Len(st.rest) /\ Len(st.rest) \in Nat
  BY StateParts
<1>2. CASE others = {}
  BY <1>1, <1>2 DEF Leading
<1>3. CASE others # {}
  <2>1. Min(others) \in others /\ \A k \in others : Min(others) <= k
    <3>1. others \subseteq Nat /\ others # {}
      BY <1>1, <1>3
    <3> HIDE DEF others
    <3>2. \E m \in others : \A k \in others : m <= k
      BY <3>1, LeastNat
    <3> QED BY <3>2 DEF Min
  <2> DEFINE m == Min(others)
  <2>2. Leading(st, types) = m - 1
    BY <1>3 DEF Leading
  <2>3. m \in 1 .. Len(st.rest) /\ st.rest[m].type \notin types
    BY <2>1, <1>1
  <2>4. \A i \in 1 .. Len(st.rest) : st.rest[i].type \notin types => m <= i
    BY <2>1, <1>1
  <2> HIDE DEF m
  <2> QED BY <1>1, <2>2, <2>3, <2>4
<1> QED BY <1>2, <1>3

\* Skipping types drops the leading tokens of them.
LEMMA SyncWhileState ==
  ASSUME NEW st \in States, NEW types
  PROVE  LET n == Leading(st, types)
             r == SyncWhile(st, types)
         IN  /\ r \in States /\ r.errors = st.errors /\ Keeps(st, r)
             /\ (Fine(r) <=> Fine(st)) /\ (Sane(r) <=> Sane(st))
             /\ Len(r.rest) = Len(st.rest) - n
             /\ Len(r.rest) <= Len(st.rest)
             /\ \A i \in 1 .. Len(r.rest) : r.rest[i] = st.rest[n + i]
<1> DEFINE n == Leading(st, types)
           new == SubSeq(st.rest, n + 1, Len(st.rest))
<1>1. st.rest \in Seq(TokenSet) /\ Len(st.rest) \in Nat /\ n \in 0 .. Len(st.rest)
  BY StateParts, LeadingIs
<1>2. SyncWhile(st, types) = [st EXCEPT !.rest = new]
  BY DEF SyncWhile
<1> HIDE DEF n
<1>3. /\ new \in Seq(TokenSet) /\ Len(new) = Len(st.rest) - n
      /\ \A i \in 1 .. Len(new) : new[i] = st.rest[n + i]
  BY <1>1
<1>4. Len(new) <= Len(st.rest)
  BY <1>1, <1>3
<1> HIDE DEF new
<1>5. /\ SyncWhile(st, types) \in States /\ SyncWhile(st, types).rest = new
      /\ SyncWhile(st, types).errors = st.errors
      /\ (Fine(SyncWhile(st, types)) <=> Fine(st)) /\ (Sane(SyncWhile(st, types)) <=> Sane(st))
      /\ SyncWhile(st, types).eof = st.eof
  BY <1>2, <1>3, WithRest
<1>6. \A i \in 1 .. Len(new) : n + i \in 1 .. Len(st.rest)
  BY <1>1, <1>3
<1>7. Keeps(st, SyncWhile(st, types))
  BY <1>3, <1>5, <1>6 DEF Keeps, Within
<1> QED BY <1>3, <1>4, <1>5, <1>7 DEF n

\* The definition of what is noted of the first tokens.
Notes(errors, tokens, f) ==
    f = [i \in Nat |-> IF i = 0 THEN errors ELSE Noted(f[i - 1], tokens[i])]

\* The recursive function of AllNoted is the one that its definition describes.
LEMMA NotesExist ==
  ASSUME NEW errors \in Seq(ErrorSet), NEW tokens
  PROVE  \E f : Notes(errors, tokens, f)
<1> DEFINE Places == Nat \cup {tokens[i].begin : i \in Nat}
           E == [position : Places, message : Messages]
           R == Seq(E)
           Step == [i \in Nat |-> [r \in R |-> Noted(r, tokens[i])]]
<1>1. errors \in R
  <2>1. ErrorSet \subseteq E
    BY DEF ErrorSet
  <2> HIDE DEF E
  <2> QED BY <2>1
<1>2. ASSUME NEW i \in Nat, NEW r \in R PROVE Noted(r, tokens[i]) \in R
  <2>1. tokens[i].begin \in Places
    OBVIOUS
  <2>2. [position |-> tokens[i].begin, message |-> "noToken"] \in E
    <3> HIDE DEF Places
    <3> QED BY <2>1 DEF Messages
  <2> HIDE DEF E
  <2>3. Append(r, [position |-> tokens[i].begin, message |-> "noToken"]) \in R
    BY <2>2
  <2> QED BY <2>3 DEF Noted
<1>3. Step \in [Nat -> [R -> R]]
  <2> HIDE DEF R
  <2> QED BY <1>2
<1>4. PICK f \in [Nat -> R] : Accumulates(f, errors, Step)
  <2> HIDE DEF R, Step
  <2> QED BY <1>1, <1>3, Folding, Zenon
<1>5. ASSUME NEW i \in Nat
      PROVE  f[i] = IF i = 0 THEN errors ELSE Noted(f[i - 1], tokens[i])
  <2> HIDE DEF R
  <2>1. CASE i = 0
    BY <1>4, <2>1 DEF Accumulates
  <2>2. CASE i # 0
    <3>1. i - 1 \in Nat /\ f[i - 1] \in R
      BY <2>2, <1>4
    <3>2. f[i] = Step[i][f[i - 1]]
      BY <2>2, <1>4 DEF Accumulates
    <3> QED BY <3>1, <3>2, <2>2
  <2> QED BY <2>1, <2>2
<1>6. f = [i \in Nat |-> f[i]]
  BY <1>4
<1> HIDE DEF R, Step
<1> QED BY <1>5, <1>6 DEF Notes

\* What an appended sequence holds.
LEMMA AppendIs ==
  ASSUME NEW S, NEW e \in S, NEW t \in Seq(S)
  PROVE  /\ Append(t, e) \in Seq(S) /\ Append(t, e) # <<>> /\ Len(t) \in Nat
         /\ Len(Append(t, e)) = Len(t) + 1 /\ Append(t, e)[Len(t) + 1] = e
         /\ \A k \in 1 .. Len(t) : Append(t, e)[k] = t[k]
<1>1. /\ Append(t, e) \in Seq(S) /\ Len(t) \in Nat
      /\ Len(Append(t, e)) = Len(t) + 1 /\ Append(t, e)[Len(t) + 1] = e
  OBVIOUS
<1>2. \A k \in 1 .. Len(t) : Append(t, e)[k] = t[k]
  OBVIOUS
<1>3. Append(t, e) # <<>>
  BY <1>1
<1> QED BY <1>1, <1>2, <1>3

\* The errors are at n or before.
UpTo(errors, n) == \A i \in 1 .. Len(errors) : errors[i].position <= n

\* An error is noted for each token of type ERROR, at the token.
LEMMA AllNotedIs ==
  ASSUME NEW errors \in Seq(ErrorSet), NEW tokens \in Seq(TokenSet)
  PROVE  /\ AllNoted(errors, tokens) \in Seq(ErrorSet)
         /\ AllNoted(errors, tokens) = <<>> <=>
              errors = <<>> /\ \A i \in 1 .. Len(tokens) : tokens[i].type # "ERROR"
         /\ Ignored(AllNoted(errors, tokens)) <=>
              Ignored(errors) /\ \A i \in 1 .. Len(tokens) : Quiet(tokens[i])
         /\ \A m \in Nat :
              UpTo(errors, m) /\ (\A i \in 1 .. Len(tokens) : tokens[i].begin <= m) =>
                UpTo(AllNoted(errors, tokens), m)
<1> DEFINE after == CHOOSE f : Notes(errors, tokens, f)
           n == Len(tokens)
           T == {i \in Nat : i <= n =>
                   /\ after[i] \in Seq(ErrorSet)
                   /\ after[i] = <<>> <=> errors = <<>> /\ \A k \in 1 .. i : tokens[k].type # "ERROR"
                   /\ Ignored(after[i]) <=> Ignored(errors) /\ \A k \in 1 .. i : Quiet(tokens[k])
                   /\ \A m \in Nat :
                        UpTo(errors, m) /\ (\A k \in 1 .. n : tokens[k].begin <= m) =>
                          UpTo(after[i], m)}
<1>1. AllNoted(errors, tokens) = after[n]
  BY DEF AllNoted, Notes
<1>2. Notes(errors, tokens, after)
  BY NotesExist
<1> HIDE DEF after
<1>3. ASSUME NEW i \in Nat
      PROVE  after[i] = IF i = 0 THEN errors ELSE Noted(after[i - 1], tokens[i])
  BY <1>2 DEF Notes
<1>4. 0 \in T
  BY <1>3
<1>5. ASSUME NEW i \in Nat, i \in T PROVE i + 1 \in T
  <2> SUFFICES ASSUME i + 1 <= n
               PROVE  /\ after[i + 1] \in Seq(ErrorSet)
                      /\ after[i + 1] = <<>> <=>
                           errors = <<>> /\ \A k \in 1 .. i + 1 : tokens[k].type # "ERROR"
                      /\ Ignored(after[i + 1]) <=>
                           Ignored(errors) /\ \A k \in 1 .. i + 1 : Quiet(tokens[k])
                      /\ \A m \in Nat :
                           UpTo(errors, m) /\ (\A k \in 1 .. n : tokens[k].begin <= m) =>
                             UpTo(after[i + 1], m)
    OBVIOUS
  <2> DEFINE old == after[i]
             t == tokens[i + 1]
             e == [position |-> t.begin, message |-> "noToken"]
  <2>1. n \in Nat /\ i + 1 \in 1 .. n /\ i + 1 # 0 /\ (i + 1) - 1 = i /\ i + 1 \in Nat
    OBVIOUS
  <2>2. /\ old \in Seq(ErrorSet)
        /\ old = <<>> <=> errors = <<>> /\ \A k \in 1 .. i : tokens[k].type # "ERROR"
        /\ Ignored(old) <=> Ignored(errors) /\ \A k \in 1 .. i : Quiet(tokens[k])
        /\ \A m \in Nat :
             UpTo(errors, m) /\ (\A k \in 1 .. n : tokens[k].begin <= m) => UpTo(old, m)
    BY <1>5, <2>1
  <2>3. after[i + 1] = Noted(old, t)
    BY <1>3, <2>1
  <2>4. e \in ErrorSet
    <3>1. t \in TokenSet
      BY <2>1
    <3>2. t.begin \in Nat
      <4> HIDE DEF t
      <4> QED BY <3>1 DEF TokenSet
    <3> QED BY <3>2 DEF ErrorSet, Messages
  <2>5. \A k : k \in 1 .. i + 1 <=> k \in 1 .. i \/ k = i + 1
    OBVIOUS
  <2> HIDE DEF old, n
  <2>6. CASE t.type = "ERROR"
    <3>1. after[i + 1] = Append(old, e)
      BY <2>3, <2>6 DEF Noted
    <3>2. /\ Append(old, e) \in Seq(ErrorSet) /\ Append(old, e) # <<>>
          /\ Ignored(Append(old, e)) <=> Ignored(old) /\ Ignorable(e)
          /\ \A m \in Nat : UpTo(old, m) /\ e.position <= m => UpTo(Append(old, e), m)
      <4> HIDE DEF e
      <4>1. /\ Append(old, e) \in Seq(ErrorSet) /\ Append(old, e) # <<>> /\ Len(old) \in Nat
            /\ Len(Append(old, e)) = Len(old) + 1 /\ Append(old, e)[Len(old) + 1] = e
            /\ \A k \in 1 .. Len(old) : Append(old, e)[k] = old[k]
        BY <2>2, <2>4, AppendIs
      <4>2. \A k \in 1 .. Len(old) + 1 : k \in 1 .. Len(old) \/ k = Len(old) + 1
        BY <4>1
      <4> DEFINE longer == Append(old, e)
      <4> HIDE DEF longer
      <4>3. ASSUME NEW m \in Nat, UpTo(old, m), e.position <= m PROVE UpTo(longer, m)
        <5> SUFFICES ASSUME NEW k \in 1 .. Len(old) + 1 PROVE longer[k].position <= m
          BY <4>1 DEF UpTo, longer
        <5>1. CASE k \in 1 .. Len(old)
          BY <5>1, <4>1, <4>3 DEF UpTo, longer
        <5>2. CASE k = Len(old) + 1
          BY <5>2, <4>1, <4>3 DEF longer
        <5> QED BY <4>2, <5>1, <5>2
      <4>4. Ignored(longer) <=> Ignored(old) /\ Ignorable(e)
        BY <4>1, <4>2 DEF Ignored, longer
      <4> QED BY <4>1, <4>3, <4>4 DEF longer
    <3>3. e.position = t.begin /\ e.message = "noToken"
      OBVIOUS
    <3>5. Ignorable(e) <=> Quiet(t)
      BY <2>6 DEF Ignorable, Quiet
    <3> HIDE DEF e
    <3>4. ASSUME NEW m \in Nat, UpTo(errors, m), \A k \in 1 .. n : tokens[k].begin <= m
          PROVE  UpTo(Append(old, e), m)
      BY <2>1, <2>2, <3>2, <3>3, <3>4
    <3>6. (\A k \in 1 .. i + 1 : Quiet(tokens[k])) <=>
             (\A k \in 1 .. i : Quiet(tokens[k])) /\ Quiet(t)
      BY <2>5
    <3>7. Ignored(after[i + 1]) <=> Ignored(errors) /\ \A k \in 1 .. i + 1 : Quiet(tokens[k])
      BY <2>2, <3>1, <3>2, <3>5, <3>6
    <3> QED BY <2>5, <2>6, <3>1, <3>2, <3>4, <3>7
  <2>7. CASE t.type # "ERROR"
    <3>1. Quiet(t) /\ after[i + 1] = old
      BY <2>3, <2>7 DEF Noted, Quiet
    <3>2. (\A k \in 1 .. i + 1 : Quiet(tokens[k])) <=> \A k \in 1 .. i : Quiet(tokens[k])
      BY <2>5, <3>1
    <3>3. Ignored(after[i + 1]) <=> Ignored(errors) /\ \A k \in 1 .. i + 1 : Quiet(tokens[k])
      BY <2>2, <3>1, <3>2
    <3> QED BY <2>2, <2>5, <2>7, <3>1, <3>3
  <2> QED BY <2>6, <2>7
<1>6. n \in T
  <2>1. n \in Nat
    OBVIOUS
  <2> HIDE DEF T, n
  <2> QED BY <2>1, <1>4, <1>5, NatSetInduction
<1> QED BY <1>1, <1>6

\* Skipping the hidden tokens drops the leading ones and reports those that are errors.
LEMMA SkipHiddenState ==
  ASSUME NEW st \in States
  PROVE  LET n == Leading(st, Hidden)
             r == SkipHidden(st)
         IN  /\ r \in States
             /\ Len(r.rest) = Len(st.rest) - n /\ Len(r.rest) <= Len(st.rest)
             /\ \A i \in 1 .. Len(r.rest) : r.rest[i] = st.rest[n + i]
             /\ Fine(r) <=> Fine(st) /\ \A i \in 1 .. n : st.rest[i].type # "ERROR"
             /\ Sane(r) <=> Sane(st) /\ \A i \in 1 .. n : Quiet(st.rest[i])
             /\ Keeps(st, r)
<1> DEFINE n == Leading(st, Hidden)
           skipped == HiddenAt(st)
           went == SyncWhile(st, Hidden)
           new == AllNoted(st.errors, skipped)
<1>1. /\ st.rest \in Seq(TokenSet) /\ st.errors \in Seq(ErrorSet) /\ Len(st.rest) \in Nat
      /\ st.thrown \in BOOLEAN
  BY StateParts
<1>2. n \in 0 .. Len(st.rest)
  BY LeadingIs
<1>3. skipped = SubSeq(st.rest, 1, n)
  BY DEF HiddenAt, Skipped
<1>4. /\ skipped \in Seq(TokenSet) /\ Len(skipped) = n
      /\ \A i \in 1 .. n : skipped[i] = st.rest[i]
  <2> HIDE DEF n
  <2> QED BY <1>1, <1>2, <1>3
<1>5. /\ went \in States /\ (Fine(went) <=> Fine(st)) /\ went.errors = st.errors
      /\ Sane(went) <=> Sane(st)
      /\ Len(went.rest) = Len(st.rest) - n /\ Len(went.rest) <= Len(st.rest) /\ Keeps(st, went)
      /\ \A i \in 1 .. Len(went.rest) : went.rest[i] = st.rest[n + i]
  BY SyncWhileState
<1>6. /\ new \in Seq(ErrorSet)
      /\ new = <<>> <=> st.errors = <<>> /\ \A i \in 1 .. n : st.rest[i].type # "ERROR"
      /\ Ignored(new) <=> Ignored(st.errors) /\ \A i \in 1 .. n : Quiet(st.rest[i])
      /\ \A m \in Nat : UpTo(st.errors, m) /\ (\A i \in 1 .. n : st.rest[i].begin <= m) => UpTo(new, m)
  <2>1. /\ new \in Seq(ErrorSet)
        /\ new = <<>> <=> st.errors = <<>> /\ \A i \in 1 .. Len(skipped) : skipped[i].type # "ERROR"
        /\ Ignored(new) <=> Ignored(st.errors) /\ \A i \in 1 .. Len(skipped) : Quiet(skipped[i])
        /\ \A m \in Nat : UpTo(st.errors, m) /\ (\A i \in 1 .. Len(skipped) : skipped[i].begin <= m) =>
             UpTo(new, m)
    <3> HIDE DEF skipped
    <3> QED BY <1>1, <1>4, AllNotedIs
  <2> HIDE DEF new, skipped, n
  <2> QED BY <2>1, <1>4
<1>7. SkipHidden(st) = [went EXCEPT !.errors = new]
  BY <1>5 DEF SkipHidden
<1> HIDE DEF n, skipped, went, new
<1>8. /\ SkipHidden(st) \in States /\ SkipHidden(st).rest = went.rest
      /\ SkipHidden(st).errors = new /\ SkipHidden(st).thrown = went.thrown
      /\ SkipHidden(st).eof = went.eof
  BY <1>5, <1>6, <1>7, WithErrors
<1>9. Fine(SkipHidden(st)) <=> Fine(st) /\ \A i \in 1 .. n : st.rest[i].type # "ERROR"
  BY <1>5, <1>6, <1>8 DEF Fine
<1>11. Sane(SkipHidden(st)) <=> Sane(st) /\ \A i \in 1 .. n : Quiet(st.rest[i])
  BY <1>5, <1>6, <1>8 DEF Sane
<1>10. ASSUME NEW m \in Nat, Within(st, m) PROVE Within(SkipHidden(st), m)
  <2>1. Within(went, m)
    BY <1>5, <1>10 DEF Keeps
  <2>2. UpTo(st.errors, m) /\ \A i \in 1 .. n : st.rest[i].begin <= m
    BY <1>1, <1>2, <1>10 DEF Within, UpTo
  <2>3. UpTo(new, m)
    BY <1>6, <2>2
  <2> QED BY <1>8, <2>1, <2>3 DEF Within, UpTo
<1> QED BY <1>5, <1>8, <1>9, <1>10, <1>11 DEF n, Keeps

\* Reporting adds an error and takes nothing.
LEMMA ReportState ==
  ASSUME NEW st \in States, NEW position \in Nat, NEW message \in Messages
  PROVE  LET r == Report(st, position, message)
         IN  /\ r \in States /\ r.rest = st.rest /\ r.errors # <<>> /\ ~Fine(r)
             /\ Sane(r) => Sane(st) /\ message = "noToken"
             /\ \A n \in Nat : Within(st, n) /\ position <= n => Within(r, n)
<1> DEFINE e == [position |-> position, message |-> message]
           new == Append(st.errors, e)
<1>1. e \in ErrorSet /\ st.errors \in Seq(ErrorSet)
  BY StateParts DEF ErrorSet
<1>2. Report(st, position, message) = [st EXCEPT !.errors = new]
  BY DEF Report
<1>a. e.position = position /\ e.message = message
  OBVIOUS
<1> HIDE DEF e
<1>b. Ignored(new) => Ignored(st.errors) /\ Ignorable(e)
  <2>1. /\ Len(new) = Len(st.errors) + 1 /\ new[Len(st.errors) + 1] = e /\ Len(st.errors) \in Nat
        /\ \A k \in 1 .. Len(st.errors) : new[k] = st.errors[k]
    BY <1>1, AppendIs
  <2> HIDE DEF new
  <2> QED BY <2>1 DEF Ignored
<1>3. /\ new \in Seq(ErrorSet) /\ new # <<>>
      /\ \A n \in Nat : UpTo(st.errors, n) /\ position <= n => UpTo(new, n)
  BY <1>1, <1>a, SMTT(40) DEF UpTo
<1> HIDE DEF new
<1>4. LET r == Report(st, position, message)
      IN  /\ r \in States /\ r.rest = st.rest /\ r.errors = new /\ r.eof = st.eof
          /\ r.thrown = st.thrown
  BY <1>2, <1>3, WithErrors
<1>5. Sane(Report(st, position, message)) => Sane(st) /\ message = "noToken"
  BY <1>4, <1>a, <1>b DEF Sane, Ignorable
<1> QED BY <1>3, <1>4, <1>5 DEF Fine, Within, UpTo

\* Whatever the rule, what it recovers from is reported, and nothing is read
\* again.
LEMMA RecoverState ==
  ASSUME NEW st \in States, NEW rule, NEW message \in Messages
  PROVE  LET r == Recover(st, rule, message)
         IN  /\ r \in States /\ Len(r.rest) <= Len(st.rest) /\ ~Fine(r) /\ Keeps(st, r)
             /\ Sane(r) => message = "noToken"
<1> DEFINE reported == Report(st, LookAhead(st).begin, message)
<1>1. /\ reported \in States /\ reported.rest = st.rest /\ ~Fine(reported)
      /\ Sane(reported) => Sane(st) /\ message = "noToken"
      /\ \A n \in Nat : Within(st, n) /\ LookAhead(st).begin <= n => Within(reported, n)
  BY LookAheadToken, ReportState
<1>a. \A n \in Nat : Within(st, n) => LookAhead(st).begin <= n
  <2>1. CASE st.rest = <<>>
    BY <2>1 DEF LookAhead, Token, Within
  <2>2. CASE st.rest # <<>>
    <3>1. LookAhead(st) = st.rest[1] /\ 1 \in 1 .. Len(st.rest)
      BY <2>2, LookAheadToken, StateParts
    <3> QED BY <3>1 DEF Within
  <2> QED BY <2>1, <2>2
<1>b. Keeps(st, reported)
  BY <1>1, <1>a DEF Keeps
<1>2. Len(st.rest) \in Nat
  BY StateParts
<1> HIDE DEF reported
<1>3. CASE HasFollow(rule)
  <2> DEFINE types == AllTypes \ Follow(rule)
  <2>1. Recover(st, rule, message) = SyncWhile(reported, types)
    BY <1>3 DEF Recover, SyncTo, reported
  <2> HIDE DEF types
  <2>2. Keeps(reported, SyncWhile(reported, types))
    BY <1>1, SyncWhileState
  <2>3. Keeps(st, SyncWhile(reported, types))
    BY <2>2, <1>b DEF Keeps
  <2> QED BY <2>1, <2>3, <1>1, SyncWhileState
<1>4. CASE ~HasFollow(rule) /\ At(st, {"EOF"})
  <2>1. Recover(st, rule, message) = reported
    BY <1>4 DEF Recover, reported
  <2> QED BY <2>1, <1>1, <1>2, <1>b
<1>5. CASE ~HasFollow(rule) /\ ~At(st, {"EOF"})
  <2>1. Recover(st, rule, message) = [reported EXCEPT !.rest = <<>>, !.thrown = TRUE]
    BY <1>5 DEF Recover, Throw, reported
  <2>2. States = [rest : Seq(TokenSet), errors : Seq(ErrorSet), eof : Nat, thrown : BOOLEAN]
    BY DEF States, TokenSet, ErrorSet
  <2>3. <<>> \in Seq(TokenSet) /\ Len(<<>>) = 0
    OBVIOUS
  <2>4. [reported EXCEPT !.rest = <<>>, !.thrown = TRUE] \in States
    BY <1>1, <2>2, <2>3
  <2>5. [reported EXCEPT !.rest = <<>>, !.thrown = TRUE].rest = <<>>
        /\ [reported EXCEPT !.rest = <<>>, !.thrown = TRUE].thrown
        /\ [reported EXCEPT !.rest = <<>>, !.thrown = TRUE].errors = reported.errors
        /\ [reported EXCEPT !.rest = <<>>, !.thrown = TRUE].eof = reported.eof
    BY <1>1, <2>2
  <2>6. 1 .. Len(<<>>) = {}
    BY <2>3
  <2>9. ~Sane([reported EXCEPT !.rest = <<>>, !.thrown = TRUE])
    BY <2>5 DEF Sane
  <2>7. Keeps(reported, [reported EXCEPT !.rest = <<>>, !.thrown = TRUE])
    BY <2>5, <2>6, <2>9 DEF Keeps, Within
  <2>8. Keeps(st, [reported EXCEPT !.rest = <<>>, !.thrown = TRUE])
    BY <2>7, <1>b DEF Keeps
  <2> QED BY <2>1, <2>3, <2>4, <2>5, <2>8, <2>9, <1>2 DEF Fine
<1> QED BY <1>3, <1>4, <1>5

\* Nothing is forgotten: what is not fine stays so.  What is left is a state
\* that is not longer, or, if something was taken, shorter.
Later(st, r) ==
    r \in States /\ Len(r.rest) <= Len(st.rest) /\ (Fine(r) => Fine(st)) /\ Keeps(st, r)
Further(st, r) ==
    r \in States /\ Len(r.rest) < Len(st.rest) /\ (Fine(r) => Fine(st)) /\ Keeps(st, r)

\* What follows what follows.
LEMMA LaterStates ==
  ASSUME NEW a \in States, NEW b, NEW c
  PROVE  /\ Further(a, b) => Later(a, b)
         /\ Later(a, b) /\ Later(b, c) => Later(a, c)
         /\ Later(a, b) /\ Further(b, c) => Further(a, c)
         /\ Further(a, b) /\ Later(b, c) => Further(a, c)
<1>1. \A x \in States : Len(x.rest) \in Nat
  BY StateParts
<1>2. Keeps(a, b) /\ Keeps(b, c) => Keeps(a, c)
  BY DEF Keeps
<1> QED BY <1>1, <1>2 DEF Later, Further

\* Taking a token moves on, unless the rest is empty.
LEMMA TakenState ==
  ASSUME NEW st \in States
  PROVE  /\ Later(st, Taken(st).st)
         /\ st.rest # <<>> => Further(st, Taken(st).st)
<1> DEFINE c == Consume(st)
<1>1. /\ c \in States /\ (Fine(c) <=> Fine(st)) /\ Len(c.rest) <= Len(st.rest) /\ Keeps(st, c)
      /\ st.rest # <<>> => Len(c.rest) = Len(st.rest) - 1
  BY ConsumeState
<1>2. Taken(st).st = SkipHidden(c)
  BY DEF Taken
<1> HIDE DEF c
<1>3. /\ SkipHidden(c) \in States /\ Len(SkipHidden(c).rest) <= Len(c.rest)
      /\ Fine(SkipHidden(c)) => Fine(c)
      /\ Keeps(c, SkipHidden(c))
  BY <1>1, SkipHiddenState
<1>5. Keeps(st, SkipHidden(c))
  BY <1>1, <1>3 DEF Keeps
<1>4. Len(c.rest) \in Nat /\ Len(st.rest) \in Nat /\ Len(SkipHidden(c).rest) \in Nat
  BY <1>1, <1>3, StateParts
<1> QED BY <1>1, <1>2, <1>3, <1>4, <1>5 DEF Later, Further

\* The steps that the rules are made of never move back.
LEMMA SimplerStates ==
  ASSUME NEW st \in States
  PROVE  /\ Later(st, SkipHidden(st)) /\ Later(st, Consume(st))
         /\ \A rule : \A message \in Messages :
              /\ Later(st, Recover(st, rule, message))
              /\ ~Fine(Recover(st, rule, message))
              /\ message # "noToken" => ~Sane(Recover(st, rule, message))
<1>1. Later(st, SkipHidden(st))
  BY SkipHiddenState DEF Later
<1>2. Later(st, Consume(st))
  BY ConsumeState DEF Later
<1>3. ASSUME NEW rule, NEW message \in Messages
      PROVE  /\ Later(st, Recover(st, rule, message)) /\ ~Fine(Recover(st, rule, message))
             /\ message # "noToken" => ~Sane(Recover(st, rule, message))
  BY RecoverState DEF Later
<1> QED BY <1>1, <1>2, <1>3

\* A term moves on.
LEMMA TermOrPhraseState ==
  ASSUME NEW st \in States, At(st, Expr)
  PROVE  Further(st, TermOrPhrase(st).st)
<1> DEFINE first == Taken(st)
           colon == Taken(first.st)
<1>1. Further(st, first.st) /\ first.st \in States
  BY TakenState, AtSomething, TypeSets DEF Further
<1>2. Later(first.st, colon.st) /\ colon.st \in States
  BY <1>1, TakenState DEF Later
<1> HIDE DEF colon
<1>3. CASE ~At(first.st, {"COLON"})
  BY <1>3, <1>1 DEF TermOrPhrase, TermOrField, Result
<1>4. CASE At(first.st, {"COLON"}) /\ At(colon.st, Expr)
  <2>1. TermOrPhrase(st).st = Consume(colon.st)
    BY <1>4 DEF TermOrPhrase, TermOrField, FieldOf, Result, colon
  <2>2. Later(colon.st, Consume(colon.st))
    BY <1>2, SimplerStates
  <2> HIDE DEF first
  <2> QED BY <2>1, <2>2, <1>1, <1>2, LaterStates
<1>5. CASE At(first.st, {"COLON"}) /\ ~At(colon.st, Expr)
  <2>1. TermOrPhrase(st).st = Recover(colon.st, "term", "noTerm")
    BY <1>5 DEF TermOrPhrase, TermOrField, FieldOf, Result, colon
  <2>2. Later(colon.st, Recover(colon.st, "term", "noTerm"))
    BY <1>2, SimplerStates DEF Messages
  <2> HIDE DEF first
  <2> QED BY <2>1, <2>2, <1>1, <1>2, LaterStates
<1> QED BY <1>3, <1>4, <1>5

-----------------------------------------------------------------------------
(* The recursive rules exist *)

\* The functions agree on the states with rests shorter than n.
Agree(f, g, n) == \A x \in States : Len(x.rest) < n => f[x] = g[x]

ExpressionRule(expr, st) ==
    IF At(st, Expr) THEN AfterTerm(expr, TermOrPhrase(st))
    ELSE AfterLeft(expr, Nothing, <<>>, Recover(st, "expr", "noLeftSide"))

ItemsRule(items, st) ==
    CASE At(st, Expr \cup Operator) -> Item(items, Expression[st])
      [] At(st, Modifier)           -> Item(items, Modified(Expression, st))
      [] OTHER                      -> Result(<<>>, st)

\* The rules by name: those of the parser, of the trees and of the visitors.
DumpRule(skip, dump, t) == IF t = skip THEN <<>> ELSE DumpOf(dump, t)

TreesRule(trees, height) ==
    {Nothing} \cup LeafTrees \cup (IF height = 0 THEN {} ELSE Nested(trees[height - 1]))

Rule(name, skip, f, x) ==
    CASE name = "expr"  -> ExpressionRule(f, x)
      [] name = "items" -> ItemsRule(f, x)
      [] name = "trees" -> TreesRule(f, x)
      [] name = "dump"  -> DumpRule(skip, f, x)
      [] OTHER          -> SerializeOf(f, x)

\* The functions agree on the arguments smaller than x.
AgreeBelow(f, g, D, len, x) == \A y \in D : len[y] < len[x] => f[y] = g[y]

\* The rule looks at smaller arguments only.
LooksBelow(name, skip, D, len) ==
    \A st \in D : \A f, g :
      AgreeBelow(f, g, D, len, st) => Rule(name, skip, f, st) = Rule(name, skip, g, st)

\* f is a function on D that the rule describes.
Described(name, skip, D, f) == f = [st \in D |-> Rule(name, skip, f, st)]

\* Such a rule describes a function.
LEMMA RuleExists ==
  ASSUME NEW D, NEW len \in [D -> Nat], NEW name, NEW skip, LooksBelow(name, skip, D, len)
  PROVE  \E f : Described(name, skip, D, f)
<1>a. \A st \in D : \A f, g :
        AgreeBelow(f, g, D, len, st) => Rule(name, skip, f, st) = Rule(name, skip, g, st)
  BY DEF LooksBelow
<1> DEFINE size(st) == len[st]
           Upto(n, f) == \A x \in D : size(x) < n => f[x] = Rule(name, skip, f, x)
           T == {n \in Nat : \E f : Upto(n, f)}
<1>1. \A x \in D : size(x) \in Nat
  OBVIOUS
<1> HIDE DEF size, AgreeBelow
<1>2. Nat \subseteq T
  <2>1. 0 \in T
    BY <1>1
  <2>2. ASSUME NEW n \in Nat, n \in T PROVE n + 1 \in T
    <3>1. PICK f : Upto(n, f)
      BY <2>2
    <3> DEFINE h == [x \in D |-> Rule(name, skip, f, x)]
    <3>2. ASSUME NEW x \in D, size(x) < n + 1 PROVE h[x] = Rule(name, skip, h, x)
      <4>1. \A y \in D : size(y) < size(x) => f[y] = h[y]
        <5> SUFFICES ASSUME NEW y \in D, size(y) < size(x) PROVE f[y] = h[y]
          OBVIOUS
        <5>1. size(y) < n
          BY <1>1, <3>2
        <5> QED BY <5>1, <3>1
      <4> HIDE DEF h
      <4>2. Rule(name, skip, f, x) = Rule(name, skip, h, x)
        BY <1>a, <4>1 DEF size, AgreeBelow
      <4> QED BY <4>2 DEF h
    <3> HIDE DEF h
    <3>3. Upto(n + 1, h)
      BY <3>2
    <3> QED BY <3>3
  <2> HIDE DEF T
  <2> QED BY <2>1, <2>2, NatSetInduction
<1>3. ASSUME NEW m \in Nat, NEW n \in Nat, NEW f, NEW g, Upto(m, f), Upto(n, g)
      PROVE  \A x \in D : size(x) < m /\ size(x) < n => f[x] = g[x]
  <2> DEFINE A == {x \in D : size(x) < m /\ size(x) < n => f[x] = g[x]}
  <2>1. ASSUME NEW x \in D, \A y \in D : len[y] < len[x] => y \in A PROVE x \in A
    <3> SUFFICES ASSUME size(x) < m, size(x) < n PROVE f[x] = g[x]
      OBVIOUS
    <3>1. \A y \in D : size(y) < size(x) => f[y] = g[y]
      <4> SUFFICES ASSUME NEW y \in D, size(y) < size(x) PROVE f[y] = g[y]
        OBVIOUS
      <4>1. size(y) < m /\ size(y) < n
        BY <1>1
      <4>2. y \in A
        <5>1. len[y] < len[x]
          BY DEF size
        <5> HIDE DEF A
        <5> QED BY <2>1, <5>1
      <4> QED BY <4>1, <4>2
    <3>2. Rule(name, skip, f, x) = Rule(name, skip, g, x)
      BY <1>a, <3>1 DEF size, AgreeBelow
    <3> QED BY <3>2, <1>3
  <2>3. D \subseteq A
    <3> HIDE DEF A
    <3> QED BY <2>1, SmallerFirst
  <2> QED BY <2>3
<1> DEFINE Some(n) == CHOOSE f : Upto(n, f)
           h == [x \in D |-> Some(size(x) + 1)[x]]
<1>4. \A n \in Nat : Upto(n, Some(n))
  <2> SUFFICES ASSUME NEW n \in Nat PROVE Upto(n, Some(n))
    OBVIOUS
  <2>1. \E f : Upto(n, f)
    BY <1>2
  <2> HIDE DEF Upto
  <2> QED BY <2>1
<1>5. ASSUME NEW x \in D PROVE size(x) + 1 \in Nat /\ Upto(size(x) + 1, Some(size(x) + 1))
  <2> HIDE DEF Upto, Some
  <2> QED BY <1>1, <1>4
<1>6. ASSUME NEW x \in D PROVE h[x] = Rule(name, skip, h, x)
  <2> DEFINE f == Some(size(x) + 1)
  <2>1. Upto(size(x) + 1, f)
    BY <1>5
  <2>2. ASSUME NEW y \in D, size(y) < size(x) PROVE f[y] = h[y]
    <3>1. Upto(size(y) + 1, Some(size(y) + 1))
      BY <1>5
    <3>2. f[y] = Some(size(y) + 1)[y]
      <4>1. /\ size(x) + 1 \in Nat /\ size(y) + 1 \in Nat /\ size(y) < size(x) + 1
            /\ size(y) < size(y) + 1
        BY <2>2, <1>1
      <4> HIDE DEF Upto, Some, f
      <4> QED BY <1>3, <2>1, <3>1, <4>1
    <3> QED BY <3>2
  <2>3. h[x] = f[x]
    OBVIOUS
  <2>4. size(x) < size(x) + 1
    BY <1>1
  <2> HIDE DEF f, h, Some
  <2>5. Rule(name, skip, f, x) = Rule(name, skip, h, x)
    BY <1>a, <2>2 DEF size, AgreeBelow
  <2> QED BY <2>1, <2>3, <2>4, <2>5
<1>7. h = [x \in D |-> h[x]]
  OBVIOUS
<1> HIDE DEF h
<1>8. Described(name, skip, D, h)
  BY <1>6, <1>7 DEF Described
<1> QED BY <1>8

\* Each rule looks at the rule for expressions in shorter states only.
LEMMA ModifiedAgrees ==
  ASSUME NEW st \in States, NEW f, NEW g, NEW n \in Nat, Agree(f, g, n), Len(st.rest) < n
  PROVE  Modified(f, st) = Modified(g, st)
<1> DEFINE modifier == Taken(SkipHidden(st))
<1>1. SkipHidden(st) \in States /\ Later(st, SkipHidden(st))
  BY SimplerStates DEF Later
<1>2. Later(st, modifier.st)
  <2>1. Later(SkipHidden(st), modifier.st)
    BY <1>1, TakenState
  <2> HIDE DEF modifier
  <2> QED BY <1>1, <2>1, LaterStates
<1> HIDE DEF modifier
<1>3. modifier.st \in States /\ Len(modifier.st.rest) < n
  <2>1. modifier.st \in States /\ Len(modifier.st.rest) <= Len(st.rest)
    BY <1>2 DEF Later
  <2>2. Len(modifier.st.rest) \in Nat /\ Len(st.rest) \in Nat
    BY <2>1, StateParts
  <2> QED BY <2>1, <2>2
<1>4. f[modifier.st] = g[modifier.st]
  BY <1>3 DEF Agree
<1>5. ModifierSide(f, modifier.st) = ModifierSide(g, modifier.st)
  BY <1>4 DEF ModifierSide
<1> QED BY <1>5 DEF Modified, TakenModifier, modifier

\* What follows an operator is parsed from a shorter rest.
LEMMA OperatorSideAgrees ==
  ASSUME NEW st \in States, NEW f, NEW g, NEW n \in Nat, Agree(f, g, n), Len(st.rest) < n
  PROVE  OperatorSide(f, st) = OperatorSide(g, st)
<1>1. f[st] = g[st]
  BY DEF Agree
<1>2. Modified(f, st) = Modified(g, st)
  BY ModifiedAgrees
<1> QED BY <1>1, <1>2 DEF OperatorSide

\* So is what follows a left side.
LEMMA AfterLeftAgrees ==
  ASSUME NEW st \in States, NEW f, NEW g, NEW n \in Nat, Agree(f, g, n), Len(st.rest) <= n,
         NEW left, NEW spaces
  PROVE  AfterLeft(f, left, spaces, st) = AfterLeft(g, left, spaces, st)
<1>1. CASE At(st, Operator)
  <2> DEFINE operator == Taken(st)
  <2>1. Further(st, operator.st)
    BY <1>1, AtSomething, TypeSets, TakenState
  <2> HIDE DEF operator
  <2>2. operator.st \in States /\ Len(operator.st.rest) < n
    <3>1. operator.st \in States /\ Len(operator.st.rest) < Len(st.rest)
      BY <2>1 DEF Further
    <3>2. Len(operator.st.rest) \in Nat /\ Len(st.rest) \in Nat
      BY <3>1, StateParts
    <3> QED BY <3>1, <3>2
  <2>3. OperatorSide(f, operator.st) = OperatorSide(g, operator.st)
    BY <2>2, OperatorSideAgrees
  <2>4. TakenOperator(f, left, spaces, operator) = TakenOperator(g, left, spaces, operator)
    BY <2>3 DEF TakenOperator
  <2> QED BY <1>1, <2>4 DEF AfterLeft, operator
<1>2. CASE ~At(st, Operator)
  BY <1>2 DEF AfterLeft
<1> QED BY <1>1, <1>2

\* A rule that looks at shorter rests only.
LooksFurther(name, skip) ==
    \A x \in States : \A f, g :
      Agree(f, g, Len(x.rest)) => Rule(name, skip, f, x) = Rule(name, skip, g, x)

\* A rule that looks at shorter rests only describes a function.
LEMMA StateRuleExists ==
  ASSUME NEW name, NEW skip, LooksFurther(name, skip)
  PROVE  \E f : f = [x \in States |-> Rule(name, skip, f, x)]
<1>1. PICK D, size : D = States /\ size = [x \in States |-> Len(x.rest)]
  OBVIOUS
<1>2. size \in [D -> Nat]
  BY <1>1, StateParts
<1>3. ASSUME NEW h \in D, NEW f, NEW g, AgreeBelow(f, g, D, size, h)
      PROVE  Rule(name, skip, f, h) = Rule(name, skip, g, h)
  <2>1. \A x \in D : size[x] = Len(x.rest)
    BY <1>1
  <2>2. Agree(f, g, Len(h.rest))
    BY <1>1, <2>1, <1>3 DEF Agree, AgreeBelow
  <2> QED BY <1>1, <2>2 DEF LooksFurther
<1>4. LooksBelow(name, skip, D, size)
  BY <1>3 DEF LooksBelow
<1>5. \E f : Described(name, skip, D, f)
  BY <1>2, <1>4, RuleExists
<1> QED BY <1>1, <1>5 DEF Described

\* Expression and Items are the functions that their definitions describe.
LEMMA ExpressionIs ==
  ASSUME NEW st \in States
  PROVE  Expression[st] = ExpressionRule(Expression, st)
<1> DEFINE Is(f) == f = [x \in States |-> Rule("expr", Nothing, f, x)]
<1>1. ASSUME NEW x \in States, NEW f, NEW g, Agree(f, g, Len(x.rest))
      PROVE  Rule("expr", Nothing, f, x) = Rule("expr", Nothing, g, x)
  <2>1. Len(x.rest) \in Nat
    BY StateParts
  <2>2. CASE At(x, Expr)
    <3> DEFINE left == TermOrPhrase(x)
               y == SkipHidden(left.st)
    <3>1. Further(x, left.st) /\ left.st \in States
      BY <2>2, TermOrPhraseState DEF Further
    <3> HIDE DEF left
    <3>2. y \in States /\ Len(y.rest) <= Len(x.rest)
      <4>1. Later(left.st, y)
        BY <3>1, SimplerStates
      <4>2. Later(x, y)
        <5> HIDE DEF y
        <5> QED BY <3>1, <4>1, LaterStates
      <4> QED BY <4>2 DEF Later
    <3> HIDE DEF y
    <3>3. AfterLeft(f, left.tree, HiddenAt(left.st), y) = AfterLeft(g, left.tree, HiddenAt(left.st), y)
      BY <1>1, <2>1, <3>2, AfterLeftAgrees
    <3>4. AfterTerm(f, left) = AfterTerm(g, left)
      BY <3>3 DEF AfterTerm, y
    <3> QED BY <2>2, <3>4 DEF Rule, ExpressionRule, left
  <2>3. CASE ~At(x, Expr)
    <3> DEFINE y == Recover(x, "expr", "noLeftSide")
    <3>1. y \in States /\ Len(y.rest) <= Len(x.rest)
      BY SimplerStates DEF Later, Messages
    <3> HIDE DEF y
    <3>2. AfterLeft(f, Nothing, <<>>, y) = AfterLeft(g, Nothing, <<>>, y)
      BY <1>1, <2>1, <3>1, AfterLeftAgrees
    <3> QED BY <2>3, <3>2 DEF Rule, ExpressionRule, y
  <2> QED BY <2>2, <2>3
<1>2. \E f : Is(f)
  <2>1. PICK name, skip : name = "expr" /\ skip = Nothing
    OBVIOUS
  <2>2. ASSUME NEW x \in States, NEW f, NEW g, Agree(f, g, Len(x.rest))
        PROVE  Rule(name, skip, f, x) = Rule(name, skip, g, x)
    BY <1>1, <2>1, <2>2
  <2>3. LooksFurther(name, skip)
    BY <2>2 DEF LooksFurther
  <2>4. \E f : f = [x \in States |-> Rule(name, skip, f, x)]
    BY <2>3, StateRuleExists
  <2> QED BY <2>1, <2>4
<1>3. Expression = CHOOSE f : Is(f)
  BY DEF Expression, Rule, ExpressionRule
<1>4. Is(Expression)
  <2> HIDE DEF Is
  <2> QED BY <1>2, <1>3
<1>5. Expression[st] = Rule("expr", Nothing, Expression, st)
  BY <1>4
<1> QED BY <1>5 DEF Rule

-----------------------------------------------------------------------------
(* The rules move on *)

\* A rule for expressions that moves on in the states shorter than n.
MovesOn(expr, n) == \A x \in States : Len(x.rest) < n /\ At(x, Expr) => Later(x, expr[x].st)

\* There are no hidden tokens before a visible one.
LEMMA NothingHidden ==
  ASSUME NEW st \in States, ~At(st, Hidden)
  PROVE  Leading(st, Hidden) = 0
<1>1. Leading(st, Hidden) \in 0 .. Len(st.rest) /\ Len(st.rest) \in Nat
  BY LeadingIs, StateParts
<1>2. CASE st.rest = <<>>
  BY <1>1, <1>2
<1>3. CASE st.rest # <<>>
  <2>1. st.rest[1].type \notin Hidden
    BY <1>3, LookAheadToken DEF At
  <2>2. ~(1 \in 1 .. Leading(st, Hidden))
    BY <2>1, LeadingIs
  <2> QED BY <1>1, <2>2
<1> QED BY <1>2, <1>3

\* No type is in two of the sets.
LEMMA Disjoint ==
  /\ ~ \E t : t \in Modifier /\ t \in Hidden
  /\ ~ \E t : t \in Operator /\ t \in Hidden
  /\ ~ \E t : t \in Expr /\ t \in Hidden
  /\ ~ \E t : t \in Expr /\ t \in Operator
  /\ ~ \E t : t \in Expr /\ t \in Modifier
  /\ ~ \E t : t \in Operator /\ t \in Modifier
  /\ "COLON" \notin Expr \cup Operator \cup Modifier \cup Hidden
  /\ "EOF" \notin Expr \cup Operator \cup Modifier \cup Hidden \cup {"COLON"}
BY DEF Modifier, Hidden, Operator, Expr

\* A modifier and what it is of never move back.
LEMMA ModifiedState ==
  ASSUME NEW st \in States, NEW expr, NEW n \in Nat, MovesOn(expr, n), Len(st.rest) < n
  PROVE  /\ Later(st, Modified(expr, st).st)
         /\ At(st, Modifier) => Further(st, Modified(expr, st).st)
<1> DEFINE start == SkipHidden(st)
           modifier == Taken(start)
           side == ModifierSide(expr, modifier.st)
<1>1. start \in States /\ Later(st, start)
  BY SimplerStates DEF Later
<1>2. At(st, Modifier) => start.rest # <<>>
  <2> SUFFICES ASSUME At(st, Modifier) PROVE start.rest # <<>>
    OBVIOUS
  <2>1. ~At(st, Hidden)
    BY Disjoint DEF At
  <2>2. Len(st.rest) >= 1 /\ Len(st.rest) \in Nat
    BY AtSomething, TypeSets, StateParts
  <2>3. Len(start.rest) = Len(st.rest)
    BY <2>1, <2>2, NothingHidden, SkipHiddenState
  <2> QED BY <2>2, <2>3
<1>3. Later(start, modifier.st) /\ (At(st, Modifier) => Further(start, modifier.st))
  BY <1>1, <1>2, TakenState
<1> HIDE DEF start, modifier
<1>4. Later(st, modifier.st) /\ (At(st, Modifier) => Further(st, modifier.st))
  BY <1>1, <1>3, LaterStates
<1>5. modifier.st \in States /\ Len(modifier.st.rest) < n
  <2>1. modifier.st \in States /\ Len(modifier.st.rest) <= Len(st.rest)
    BY <1>4 DEF Later
  <2>2. Len(modifier.st.rest) \in Nat /\ Len(st.rest) \in Nat
    BY <2>1, StateParts
  <2> QED BY <2>1, <2>2
<1>6. Later(modifier.st, side.st)
  <2>1. CASE At(modifier.st, Expr)
    BY <2>1, <1>5 DEF MovesOn, ModifierSide
  <2>2. CASE ~At(modifier.st, Expr)
    <3>1. side.st = Recover(modifier.st, "modifier", "noRightSide")
      BY <2>2 DEF ModifierSide, Side, Result
    <3> QED BY <3>1, <1>5, SimplerStates DEF Messages
  <2> QED BY <2>1, <2>2
<1>7. Modified(expr, st).st = side.st
  BY DEF Modified, TakenModifier, ModifierOf, Result, modifier, start
<1> HIDE DEF side
<1> QED BY <1>4, <1>5, <1>6, <1>7, LaterStates

\* Nor does the side behind an operator.
LEMMA OperatorSideState ==
  ASSUME NEW st \in States, NEW expr, NEW n \in Nat, MovesOn(expr, n), Len(st.rest) < n
  PROVE  Later(st, OperatorSide(expr, st).st)
<1>1. CASE At(st, Expr)
  BY <1>1, Disjoint DEF OperatorSide, MovesOn, At
<1>2. CASE At(st, Modifier)
  BY <1>2, Disjoint, ModifiedState DEF OperatorSide, At
<1>3. CASE ~At(st, Expr) /\ ~At(st, Modifier)
  <2>1. OperatorSide(expr, st).st = Recover(st, "expr", "noRightSide")
    BY <1>3 DEF OperatorSide, Side, Result
  <2> QED BY <2>1, SimplerStates DEF Messages
<1> QED BY <1>1, <1>2, <1>3

\* Nor does the rest of an expression behind its left side.
LEMMA AfterLeftState ==
  ASSUME NEW st \in States, NEW expr, NEW n \in Nat, MovesOn(expr, n), Len(st.rest) <= n,
         NEW left, NEW spaces
  PROVE  /\ Later(st, AfterLeft(expr, left, spaces, st).st)
         /\ At(st, Operator) => Further(st, AfterLeft(expr, left, spaces, st).st)
<1>1. CASE At(st, Operator)
  <2> DEFINE operator == Taken(st)
  <2>1. Further(st, operator.st)
    BY <1>1, AtSomething, TypeSets, TakenState
  <2> HIDE DEF operator
  <2>2. operator.st \in States /\ Len(operator.st.rest) < n
    <3>1. operator.st \in States /\ Len(operator.st.rest) < Len(st.rest)
      BY <2>1 DEF Further
    <3>2. Len(operator.st.rest) \in Nat /\ Len(st.rest) \in Nat
      BY <3>1, StateParts
    <3> QED BY <3>1, <3>2
  <2>3. Later(operator.st, OperatorSide(expr, operator.st).st)
    BY <2>2, OperatorSideState
  <2>4. AfterLeft(expr, left, spaces, st).st = OperatorSide(expr, operator.st).st
    BY <1>1 DEF AfterLeft, TakenOperator, ExpressionOf, Result, operator
  <2> DEFINE side == OperatorSide(expr, operator.st)
  <2> HIDE DEF side
  <2>5. Later(operator.st, side.st) /\ AfterLeft(expr, left, spaces, st).st = side.st
    BY <2>3, <2>4 DEF side
  <2>6. Further(st, side.st)
    BY <2>1, <2>2, <2>5, LaterStates
  <2> QED BY <2>5, <2>6, LaterStates DEF Further, Later
<1>2. CASE ~At(st, Operator)
  <2>1. AfterLeft(expr, left, spaces, st).st = st
    BY <1>2 DEF AfterLeft, Result
  <2>2. Len(st.rest) \in Nat
    BY StateParts
  <2> QED BY <1>2, <2>1, <2>2 DEF Later, Keeps
<1> QED BY <1>1, <1>2

\* A state on an operator, which its recovery does not move from.
LEMMA StaysOnOperator ==
  ASSUME NEW st \in States, At(st, Operator)
  PROVE  At(Recover(st, "expr", "noLeftSide"), Operator)
<1> DEFINE reported == Report(st, LookAhead(st).begin, "noLeftSide")
           types == AllTypes \ Follow("expr")
           n == Leading(reported, types)
           r == SyncWhile(reported, types)
<1>1. reported \in States /\ reported.rest = st.rest
  BY LookAheadToken, ReportState DEF Messages
<1>2. Recover(st, "expr", "noLeftSide") = r
  BY DEF Recover, SyncTo, HasFollow
<1>3. st.rest # <<>> /\ Len(st.rest) >= 1 /\ Len(st.rest) \in Nat /\ LookAhead(st) = st.rest[1]
  BY AtSomething, TypeSets, LookAheadToken, StateParts
<1>4. reported.rest[1].type \in Operator
  BY <1>1, <1>3 DEF At
<1>5. reported.rest[1].type \notin types
  BY <1>4 DEF Follow
<1> HIDE DEF reported, types
<1>6. n = 0
  <2>1. n \in 0 .. Len(st.rest) /\ \A i \in 1 .. n : reported.rest[i].type \in types
    BY <1>1, LeadingIs
  <2> HIDE DEF n
  <2>2. ~(1 \in 1 .. n)
    BY <2>1, <1>5
  <2> QED BY <2>1, <2>2, <1>3
<1>7. /\ r \in States /\ Len(r.rest) = Len(st.rest) - n
      /\ \A i \in 1 .. Len(r.rest) : r.rest[i] = reported.rest[n + i]
  BY <1>1, SyncWhileState
<1> HIDE DEF r, n
<1>8. r.rest[1] = reported.rest[1] /\ Len(r.rest) >= 1
  BY <1>3, <1>6, <1>7
<1>9. r.rest # <<>>
  BY <1>7, <1>8
<1>10. LookAhead(r) = r.rest[1]
  BY <1>7, <1>9, LookAheadToken
<1> QED BY <1>2, <1>4, <1>8, <1>10 DEF At

\* What an expression leaves.
LEMMA ExpressionState ==
  ASSUME NEW st \in States
  PROVE  /\ Later(st, Expression[st].st)
         /\ At(st, Expr \cup Operator) => Further(st, Expression[st].st)
         /\ ~At(st, Expr) => ~Fine(Expression[st].st) /\ ~Sane(Expression[st].st)
<1> DEFINE P(x) == /\ Later(x, Expression[x].st)
                   /\ At(x, Expr \cup Operator) => Further(x, Expression[x].st)
                   /\ ~At(x, Expr) => ~Fine(Expression[x].st) /\ ~Sane(Expression[x].st)
           T == {x \in States : P(x)}
           len == [x \in States |-> Len(x.rest)]
<1>1. len \in [States -> Nat]
  BY StateParts
<1>2. ASSUME NEW x \in States, \A y \in States : len[y] < len[x] => y \in T
      PROVE  x \in T
  <2>1. MovesOn(Expression, Len(x.rest)) /\ Len(x.rest) \in Nat
    <3>1. ASSUME NEW y \in States, Len(y.rest) < Len(x.rest) PROVE Later(y, Expression[y].st)
      BY <3>1, <1>2
    <3> QED BY <3>1, StateParts DEF MovesOn
  <2>2. Expression[x] = ExpressionRule(Expression, x)
    BY ExpressionIs
  <2>3. CASE At(x, Expr)
    <3> DEFINE left == TermOrPhrase(x)
               y == SkipHidden(left.st)
               r == AfterLeft(Expression, left.tree, HiddenAt(left.st), y)
    <3>1. Further(x, left.st) /\ left.st \in States
      BY <2>3, TermOrPhraseState DEF Further
    <3> HIDE DEF left
    <3>2. Later(left.st, y) /\ y \in States
      BY <3>1, SimplerStates DEF Later
    <3> HIDE DEF y
    <3>3. Further(x, y)
      BY <3>1, <3>2, LaterStates
    <3>4. Len(y.rest) <= Len(x.rest)
      BY <3>3, <2>1, <3>2, StateParts DEF Further
    <3>5. Later(y, r.st)
      BY <2>1, <3>2, <3>4, AfterLeftState
    <3>6. Expression[x] = r
      BY <2>2, <2>3 DEF ExpressionRule, AfterTerm, left, y
    <3> HIDE DEF r
    <3>7. Further(x, r.st)
      BY <3>2, <3>3, <3>5, LaterStates
    <3>8. Later(x, r.st)
      BY <3>7, LaterStates
    <3> QED BY <2>3, <3>6, <3>7, <3>8
  <2>4. CASE ~At(x, Expr)
    <3> DEFINE y == Recover(x, "expr", "noLeftSide")
               r == AfterLeft(Expression, Nothing, <<>>, y)
    <3>1. Later(x, y) /\ ~Fine(y) /\ ~Sane(y) /\ y \in States /\ Len(y.rest) <= Len(x.rest)
      BY SimplerStates DEF Later, Messages
    <3>2. At(x, Expr \cup Operator) => At(y, Operator)
      BY <2>4, StaysOnOperator DEF At
    <3> HIDE DEF y
    <3>3. Later(y, r.st) /\ (At(y, Operator) => Further(y, r.st))
      BY <2>1, <3>1, AfterLeftState
    <3>4. Expression[x] = r
      BY <2>2, <2>4 DEF ExpressionRule, y
    <3> HIDE DEF r
    <3>5. Later(x, r.st) /\ (At(y, Operator) => Further(x, r.st))
      BY <3>1, <3>3, LaterStates
    <3>6. ~Fine(r.st) /\ ~Sane(r.st)
      BY <3>1, <3>3 DEF Later, Keeps
    <3> QED BY <2>4, <3>2, <3>4, <3>5, <3>6
  <2> QED BY <2>3, <2>4
<1>3. States \subseteq T
  <2> HIDE DEF T, len
  <2> QED BY <1>1, <1>2, SmallerFirst
<1> QED BY <1>3

\* An expression moves on.
LEMMA ExpressionMovesOn ==
  ASSUME NEW n
  PROVE  MovesOn(Expression, n)
BY ExpressionState DEF MovesOn

\* Items is the function that its definition describes.
LEMMA ItemsIs ==
  ASSUME NEW st \in States
  PROVE  Items[st] = ItemsRule(Items, st)
<1> DEFINE Is(f) == f = [x \in States |-> Rule("items", Nothing, f, x)]
<1>1. ASSUME NEW x \in States, NEW f, NEW g, Agree(f, g, Len(x.rest))
      PROVE  Rule("items", Nothing, f, x) = Rule("items", Nothing, g, x)
  <2>1. CASE At(x, Expr \cup Operator)
    <3>1. f[Expression[x].st] = g[Expression[x].st]
      BY <1>1, <2>1, ExpressionState DEF Agree, Further
    <3>2. ~At(x, Modifier)
      BY <2>1, Disjoint DEF At
    <3> QED BY <2>1, <3>1, <3>2 DEF Rule, ItemsRule, Item
  <2>2. CASE At(x, Modifier)
    <3>1. Further(x, Modified(Expression, x).st)
      <4>1. Len(x.rest) + 1 \in Nat /\ Len(x.rest) < Len(x.rest) + 1
        BY StateParts
      <4> QED BY <2>2, <4>1, ExpressionMovesOn, ModifiedState
    <3>2. f[Modified(Expression, x).st] = g[Modified(Expression, x).st]
      BY <1>1, <3>1 DEF Agree, Further
    <3>3. ~At(x, Expr \cup Operator)
      BY <2>2, Disjoint DEF At
    <3> QED BY <2>2, <3>2, <3>3 DEF Rule, ItemsRule, Item
  <2>3. CASE ~At(x, Expr \cup Operator) /\ ~At(x, Modifier)
    BY <2>3 DEF Rule, ItemsRule
  <2> QED BY <2>1, <2>2, <2>3
<1>2. \E f : Is(f)
  <2>1. PICK name, skip : name = "items" /\ skip = Nothing
    OBVIOUS
  <2>2. ASSUME NEW x \in States, NEW f, NEW g, Agree(f, g, Len(x.rest))
        PROVE  Rule(name, skip, f, x) = Rule(name, skip, g, x)
    BY <1>1, <2>1, <2>2
  <2>3. LooksFurther(name, skip)
    BY <2>2 DEF LooksFurther
  <2>4. \E f : f = [x \in States |-> Rule(name, skip, f, x)]
    BY <2>3, StateRuleExists
  <2> QED BY <2>1, <2>4
<1>3. Items = CHOOSE f : Is(f)
  BY DEF Items, Rule, ItemsRule
<1>4. Is(Items)
  <2> HIDE DEF Is
  <2> QED BY <1>2, <1>3
<1>5. Items[st] = Rule("items", Nothing, Items, st)
  BY <1>4
<1> QED BY <1>5 DEF Rule

\* The state behind a list is that behind its other items.
LEMMA ItemsSteps ==
  ASSUME NEW st \in States
  PROVE  /\ At(st, Expr \cup Operator) => Items[st].st = Items[Expression[st].st].st
         /\ At(st, Modifier) => Items[st].st = Items[Modified(Expression, st).st].st
         /\ ~At(st, Expr \cup Operator) /\ ~At(st, Modifier) => Items[st].st = st
<1>1. Items[st] = ItemsRule(Items, st)
  BY ItemsIs
<1>2. \A item : Item(Items, item).st = Items[item.st].st
  BY DEF Item, Before, Result
<1>3. ASSUME At(st, Expr \cup Operator) PROVE Items[st].st = Items[Expression[st].st].st
  <2>1. ~At(st, Modifier)
    BY <1>3, Disjoint DEF At
  <2>2. ItemsRule(Items, st) = Item(Items, Expression[st])
    BY <1>3, <2>1 DEF ItemsRule
  <2> QED BY <1>1, <1>2, <2>2
<1>4. ASSUME At(st, Modifier) PROVE Items[st].st = Items[Modified(Expression, st).st].st
  <2>1. ~At(st, Expr \cup Operator)
    BY <1>4, Disjoint DEF At
  <2>2. ItemsRule(Items, st) = Item(Items, Modified(Expression, st))
    BY <1>4, <2>1 DEF ItemsRule
  <2> QED BY <1>1, <1>2, <2>2
<1>5. ASSUME ~At(st, Expr \cup Operator), ~At(st, Modifier) PROVE Items[st].st = st
  <2>1. ItemsRule(Items, st) = Result(<<>>, st)
    BY <1>5 DEF ItemsRule
  <2> QED BY <1>1, <2>1 DEF Result
<1> QED BY <1>3, <1>4, <1>5

\* A list never moves back.
LEMMA ItemsLater ==
  ASSUME NEW st \in States
  PROVE  Later(st, Items[st].st)
<1> DEFINE T == {x \in States : Later(x, Items[x].st)}
           len == [x \in States |-> Len(x.rest)]
<1>1. len \in [States -> Nat]
  BY StateParts
<1>2. ASSUME NEW x \in States, \A y \in States : len[y] < len[x] => y \in T
      PROVE  x \in T
  <2>1. ASSUME NEW y, Further(x, y) PROVE Later(x, Items[y].st)
    <3>1. y \in States /\ Len(y.rest) < Len(x.rest)
      BY <2>1 DEF Further
    <3>2. Later(y, Items[y].st)
      BY <3>1, <1>2
    <3> DEFINE z == Items[y].st
    <3> HIDE DEF z
    <3>3. Later(x, z)
      BY <2>1, <3>1, <3>2, LaterStates DEF z
    <3> QED BY <3>3 DEF z
  <2>2. CASE At(x, Expr \cup Operator)
    <3>1. Further(x, Expression[x].st)
      BY <2>2, ExpressionState
    <3>3. Items[x].st = Items[Expression[x].st].st
      BY <2>2, ItemsSteps
    <3> QED BY <3>1, <3>3, <2>1
  <2>3. CASE At(x, Modifier)
    <3>1. Len(x.rest) + 1 \in Nat /\ Len(x.rest) < Len(x.rest) + 1
      BY StateParts
    <3>2. Further(x, Modified(Expression, x).st)
      BY <2>3, <3>1, ExpressionMovesOn, ModifiedState
    <3>4. Items[x].st = Items[Modified(Expression, x).st].st
      BY <2>3, ItemsSteps
    <3> QED BY <3>2, <3>4, <2>1
  <2>4. CASE ~At(x, Expr \cup Operator) /\ ~At(x, Modifier)
    <3>1. Items[x].st = x
      BY <2>4, ItemsSteps
    <3>2. Len(x.rest) \in Nat
      BY StateParts
    <3> QED BY <3>1, <3>2 DEF Later, Keeps
  <2> QED BY <2>2, <2>3, <2>4
<1>3. States \subseteq T
  <2> HIDE DEF T, len
  <2> QED BY <1>1, <1>2, SmallerFirst
<1> QED BY <1>3

-----------------------------------------------------------------------------
(* Where a state is *)

\* What is left in st are the tokens from the kth.
Sits(tokens, st, k) ==
    /\ st \in States /\ k \in 1 .. Len(tokens) + 1
    /\ Len(st.rest) = Len(tokens) + 1 - k
    /\ \A i \in 1 .. Len(st.rest) : st.rest[i] = tokens[k + i - 1]

\* What the parser looks at when it is at the k-th token.
LEMMA SitsAt ==
  ASSUME NEW tokens \in Seq(TokenSet), NEW st, NEW k, Sits(tokens, st, k)
  PROVE  /\ LookAhead(st).type = TypeAt(tokens, k)
         /\ \A types : At(st, types) <=> TypeAt(tokens, k) \in types
         /\ k \in Nat /\ k >= 1 /\ st \in States /\ k <= Len(tokens) + 1
         /\ TypeAt(tokens, k) = "EOF" <=> k = Len(tokens) + 1
         /\ st.rest = <<>> <=> k = Len(tokens) + 1
<1>1. /\ Len(tokens) \in Nat /\ k \in 1 .. Len(tokens) + 1 /\ st \in States
      /\ Len(st.rest) = Len(tokens) + 1 - k /\ DOMAIN tokens = 1 .. Len(tokens)
  BY DEF Sits
<1>2. st.rest \in Seq(TokenSet)
  BY <1>1, StateParts
<1>3. "EOF" \notin AllTypes
  BY DEF AllTypes, Hidden, Expr, Operator, Modifier
<1>4. CASE k = Len(tokens) + 1
  <2>1. st.rest = <<>> /\ k \notin DOMAIN tokens
    BY <1>1, <1>2, <1>4
  <2>2. LookAhead(st).type = "EOF" /\ TypeAt(tokens, k) = "EOF"
    BY <1>1, <2>1, LookAheadToken DEF TypeAt
  <2> QED BY <1>1, <1>4, <2>1, <2>2 DEF At
<1>5. CASE k # Len(tokens) + 1
  <2>1. k \in DOMAIN tokens /\ Len(st.rest) >= 1 /\ st.rest # <<>> /\ 1 \in 1 .. Len(st.rest)
    BY <1>1, <1>2, <1>5
  <2>2. st.rest[1] = tokens[k + 1 - 1] /\ k + 1 - 1 = k
    BY <1>1, <2>1 DEF Sits
  <2>3. LookAhead(st) = tokens[k]
    BY <1>1, <2>1, <2>2, LookAheadToken
  <2>4. tokens[k].type \in AllTypes
    <3>1. tokens[k] \in TokenSet
      BY <1>1, <2>1
    <3> QED BY <3>1 DEF TokenSet
  <2> QED BY <1>1, <1>3, <1>5, <2>1, <2>3, <2>4 DEF At, TypeAt
<1> QED BY <1>4, <1>5

\* Consuming a token leads to the one behind it.
LEMMA ConsumeSits ==
  ASSUME NEW tokens \in Seq(TokenSet), NEW st, NEW k, Sits(tokens, st, k), k <= Len(tokens)
  PROVE  /\ Sits(tokens, Consume(st), k + 1)
         /\ (Fine(Consume(st)) <=> Fine(st)) /\ (Sane(Consume(st)) <=> Sane(st))
<1>1. /\ Len(tokens) \in Nat /\ k \in 1 .. Len(tokens) + 1 /\ st \in States
      /\ Len(st.rest) = Len(tokens) + 1 - k
      /\ \A i \in 1 .. Len(st.rest) : st.rest[i] = tokens[k + i - 1]
  BY DEF Sits
<1>2. st.rest \in Seq(TokenSet) /\ st.rest # <<>>
  BY <1>1, StateParts
<1> DEFINE c == Consume(st)
<1>3. /\ c \in States /\ (Fine(c) <=> Fine(st)) /\ (Sane(c) <=> Sane(st)) /\ c.rest = Tail(st.rest)
      /\ Len(c.rest) = Len(st.rest) - 1
  BY <1>1, <1>2, ConsumeState
<1>4. \A i \in 1 .. Len(st.rest) - 1 : Tail(st.rest)[i] = st.rest[i + 1]
  BY <1>2
<1> HIDE DEF c
<1>5. ASSUME NEW i \in 1 .. Len(c.rest) PROVE c.rest[i] = tokens[(k + 1) + i - 1]
  <2>1. c.rest[i] = st.rest[i + 1] /\ i + 1 \in 1 .. Len(st.rest)
    BY <1>1, <1>3, <1>4
  <2>2. st.rest[i + 1] = tokens[k + (i + 1) - 1] /\ k + (i + 1) - 1 = (k + 1) + i - 1
    BY <1>1, <2>1
  <2> QED BY <2>1, <2>2
<1>6. k + 1 \in 1 .. Len(tokens) + 1 /\ Len(c.rest) = Len(tokens) + 1 - (k + 1)
  BY <1>1, <1>3
<1> QED BY <1>3, <1>5, <1>6 DEF Sits, c

\* The token is no error, or a lone sign; it is hidden and reports no other.
Calm(tokens, i) == i \in DOMAIN tokens => Quiet(tokens[i])
Blank(tokens, i) == TypeAt(tokens, i) \in Hidden /\ Calm(tokens, i)

\* Skipping leads to the next visible token, and is fine over spaces only, sane
\* over spaces and lone signs.
LEMMA SkipSits ==
  ASSUME NEW tokens \in Seq(TokenSet), NEW st, NEW k, Sits(tokens, st, k)
  PROVE  \E m \in k .. Len(tokens) + 1 :
           /\ Sits(tokens, SkipHidden(st), m)
           /\ TypeAt(tokens, m) \notin Hidden
           /\ Fine(SkipHidden(st)) => Fine(st) /\ \A i \in k .. m - 1 : TypeAt(tokens, i) = "WS"
           /\ Sane(SkipHidden(st)) => Sane(st) /\ \A i \in k .. m - 1 : Blank(tokens, i)
           /\ Sane(st) /\ (\A i \in k .. Len(tokens) : Calm(tokens, i)) => Sane(SkipHidden(st))
           /\ TypeAt(tokens, k) \notin Hidden => m = k
<1> DEFINE n == Leading(st, Hidden)
           r == SkipHidden(st)
           m == k + n
<1> HIDE DEF n, r, m
<1>1. /\ Len(tokens) \in Nat /\ k \in 1 .. Len(tokens) + 1 /\ st \in States
      /\ Len(st.rest) = Len(tokens) + 1 - k /\ DOMAIN tokens = 1 .. Len(tokens)
      /\ \A i \in 1 .. Len(st.rest) : st.rest[i] = tokens[k + i - 1]
  <2>1. Len(tokens) \in Nat /\ DOMAIN tokens = 1 .. Len(tokens)
    OBVIOUS
  <2> QED BY <2>1 DEF Sits
<1>2. /\ n \in 0 .. Len(st.rest)
      /\ \A i \in 1 .. n : st.rest[i].type \in Hidden
      /\ n < Len(st.rest) => st.rest[n + 1].type \notin Hidden
  BY <1>1, LeadingIs DEF n
<1>3. /\ r \in States
      /\ Len(r.rest) = Len(st.rest) - n
      /\ \A i \in 1 .. Len(r.rest) : r.rest[i] = st.rest[n + i]
      /\ Fine(r) <=> Fine(st) /\ \A i \in 1 .. n : st.rest[i].type # "ERROR"
      /\ Sane(r) <=> Sane(st) /\ \A i \in 1 .. n : Quiet(st.rest[i])
  BY <1>1, SkipHiddenState DEF n, r
<1>4. TypeAt(tokens, k) \notin Hidden => n = 0
  <2>1. TypeAt(tokens, k) \notin Hidden => ~At(st, Hidden)
    BY SitsAt
  <2> QED BY <2>1, <1>1, NothingHidden DEF n
<1> USE DEF m
<1>5. m \in k .. Len(tokens) + 1 /\ m \in 1 .. Len(tokens) + 1 /\ Len(r.rest) = Len(tokens) + 1 - m
  BY <1>1, <1>2, <1>3
<1>6. ASSUME NEW i \in 1 .. Len(r.rest) PROVE r.rest[i] = tokens[m + i - 1]
  <2>1. r.rest[i] = st.rest[n + i] /\ n + i \in 1 .. Len(st.rest)
    BY <1>1, <1>2, <1>3, SMTT(40)
  <2>2. st.rest[n + i] = tokens[k + (n + i) - 1] /\ k + (n + i) - 1 = m + i - 1
    BY <1>1, <1>2, <2>1
  <2> QED BY <2>1, <2>2
<1>7. Sits(tokens, r, m)
  BY <1>3, <1>5, <1>6 DEF Sits
<1>8. ASSUME NEW i \in k .. m - 1
      PROVE  /\ i - k + 1 \in 1 .. n /\ i \in DOMAIN tokens /\ tokens[i] = st.rest[i - k + 1]
             /\ TypeAt(tokens, i) = st.rest[i - k + 1].type
             /\ TypeAt(tokens, i) \in Hidden /\ i \in k .. Len(tokens)
  <2>1. i - k + 1 \in 1 .. n /\ i - k + 1 \in 1 .. Len(st.rest) /\ i \in DOMAIN tokens
        /\ k + (i - k + 1) - 1 = i /\ i \in k .. Len(tokens)
    BY <1>1, <1>2
  <2>2. st.rest[i - k + 1] = tokens[i]
    BY <1>1, <2>1
  <2> QED BY <2>1, <2>2, <1>2 DEF TypeAt
<1>9. TypeAt(tokens, m) \notin Hidden
  <2>1. CASE n < Len(st.rest)
    <3>1. n + 1 \in 1 .. Len(st.rest) /\ k + (n + 1) - 1 = m /\ m \in DOMAIN tokens
      BY <1>1, <1>2, <2>1
    <3>2. st.rest[n + 1] = tokens[m]
      BY <1>1, <3>1
    <3> QED BY <3>1, <3>2, <1>2, <2>1 DEF TypeAt
  <2>2. CASE n = Len(st.rest)
    <3>1. m \notin DOMAIN tokens
      BY <1>1, <2>2
    <3> QED BY <3>1 DEF TypeAt, Hidden
  <2>3. n < Len(st.rest) \/ n = Len(st.rest)
    BY <1>1, <1>2
  <2> QED BY <2>1, <2>2, <2>3
<1>10. ASSUME Fine(r), NEW i \in k .. m - 1 PROVE TypeAt(tokens, i) = "WS"
  BY <1>3, <1>8, <1>10 DEF Hidden
<1>13. ASSUME Sane(r), NEW i \in k .. m - 1 PROVE Blank(tokens, i)
  BY <1>3, <1>8, <1>13 DEF Blank, Calm
<1>11. ASSUME Sane(st), \A i \in k .. Len(tokens) : Calm(tokens, i) PROVE Sane(r)
  <2>1. ASSUME NEW j \in 1 .. n PROVE Quiet(st.rest[j])
    <3>1. j + k - 1 \in k .. m - 1 /\ (j + k - 1) - k + 1 = j
      BY <1>1, <1>2
    <3>2. /\ tokens[j + k - 1] = st.rest[j] /\ j + k - 1 \in DOMAIN tokens
          /\ j + k - 1 \in k .. Len(tokens)
      BY <3>1, <1>8
    <3> QED BY <3>2, <1>11 DEF Calm
  <2> QED BY <2>1, <1>3, <1>11
<1>12. TypeAt(tokens, k) \notin Hidden => m = k
  BY <1>1, <1>4
<1> HIDE DEF m
<1> QED BY <1>3, <1>5, <1>7, <1>9, <1>10, <1>11, <1>12, <1>13 DEF r

\* The token that follows is the first that is not hidden.
LEMMA FollowingIs ==
  ASSUME NEW tokens \in Seq(TokenSet), NEW i \in Nat, NEW m \in i + 1 .. Len(tokens) + 1,
         \A j \in i + 1 .. m - 1 : Blank(tokens, j), TypeAt(tokens, m) \notin Hidden
  PROVE  Following(tokens, i) = m
<1> DEFINE S == {j \in i + 1 .. Len(tokens) + 1 : TypeAt(tokens, j) \notin Hidden}
<1>1. m \in S /\ S \subseteq Nat
  OBVIOUS
<1>2. ASSUME NEW j \in S PROVE m <= j
  <2>1. ~(j \in i + 1 .. m - 1)
    BY DEF Blank
  <2> QED BY <2>1
<1>3. Following(tokens, i) = CHOOSE x \in S : \A y \in S : x <= y
  BY DEF Following, Min
<1> HIDE DEF S
<1>4. \A x \in S : (\A y \in S : x <= y) => x = m
  BY <1>1, <1>2
<1> QED BY <1>1, <1>2, <1>3, <1>4

\* A token is taken, and the hidden ones after it.
LEMMA TakenSits ==
  ASSUME NEW tokens \in Seq(TokenSet), NEW st, NEW k, Sits(tokens, st, k), k <= Len(tokens)
  PROVE  \E m \in k + 1 .. Len(tokens) + 1 :
           /\ Sits(tokens, Taken(st).st, m)
           /\ TypeAt(tokens, m) \notin Hidden
           /\ Sane(Taken(st).st) =>
                /\ Sane(st) /\ Following(tokens, k) = m
                /\ \A i \in k + 1 .. m - 1 : Blank(tokens, i)
           /\ Sane(st) /\ (\A i \in k .. Len(tokens) : Calm(tokens, i)) =>
                Sane(Taken(st).st)
<1> DEFINE c == Consume(st)
<1>1. Sits(tokens, c, k + 1) /\ (Sane(c) <=> Sane(st))
  BY ConsumeSits
<1>2. Taken(st).st = SkipHidden(c)
  BY DEF Taken
<1> HIDE DEF c
<1>3. PICK m \in k + 1 .. Len(tokens) + 1 :
        /\ Sits(tokens, SkipHidden(c), m)
        /\ TypeAt(tokens, m) \notin Hidden
        /\ Sane(SkipHidden(c)) => Sane(c) /\ \A i \in k + 1 .. m - 1 : Blank(tokens, i)
        /\ Sane(c) /\ (\A i \in k + 1 .. Len(tokens) : Calm(tokens, i)) =>
             Sane(SkipHidden(c))
  BY <1>1, SkipSits
<1>4. k \in Nat /\ Len(tokens) \in Nat
  BY SitsAt
<1>6. (\A i \in k + 1 .. m - 1 : Blank(tokens, i)) => Following(tokens, k) = m
  BY <1>3, <1>4, FollowingIs
<1>7. (\A i \in k .. Len(tokens) : Calm(tokens, i)) =>
        \A i \in k + 1 .. Len(tokens) : Calm(tokens, i)
  BY <1>4
<1> QED BY <1>1, <1>2, <1>3, <1>6, <1>7

-----------------------------------------------------------------------------
(* The language, from one token to another *)

\* The tokens that are no error, or lone signs, and are followed as they have
\* to be.
Local(tokens, i) ==
    /\ Calm(tokens, i)
    /\ TypeAt(tokens, i) \in Modifier \cup {"COLON"} =>
         TypeAt(tokens, Following(tokens, i)) \in Expr
    /\ TypeAt(tokens, i) \in Operator =>
         TypeAt(tokens, Following(tokens, i)) \in Expr \cup Modifier
Single(tokens, i) ==
    TypeAt(tokens, i) = "COLON" =>
      TypeAt(tokens, Following(tokens, Following(tokens, i))) # "COLON"

\* The tokens from k up to m obey the grammar, as far as those before m tell.
Sound(tokens, k, m) ==
    \A i \in k .. m - 1 : Local(tokens, i) /\ (Single(tokens, i) \/ TypeAt(tokens, m) = "COLON")
Complete(tokens, k) == \A i \in k .. Len(tokens) : Local(tokens, i) /\ Single(tokens, i)

\* Terms, spaces and lone signs may be followed by anything.
LEMMA Harmless ==
  ASSUME NEW tokens, NEW i, TypeAt(tokens, i) \in Expr \/ Blank(tokens, i)
  PROVE  Local(tokens, i) /\ Single(tokens, i)
<1>1. TypeAt(tokens, i) \in Expr => Calm(tokens, i)
  BY DEF Calm, Quiet, TypeAt, Expr
<1> QED BY <1>1 DEF Blank, Local, Single, Expr, Modifier, Operator, Hidden

\* Tokens that are complete from k on are so from every later one.
LEMMA CompleteHas ==
  ASSUME NEW tokens \in Seq(TokenSet), NEW k \in Nat, Complete(tokens, k)
  PROVE  /\ \A i \in k .. Len(tokens) : Calm(tokens, i)
         /\ \A m \in Nat : k <= m => Complete(tokens, m)
<1>1. Len(tokens) \in Nat
  OBVIOUS
<1> QED BY <1>1 DEF Complete, Local

\* A state that an expression from k may end in.
Ends(tokens, k, r, m) ==
    /\ m \in k + 1 .. Len(tokens) + 1 /\ Sits(tokens, r, m)
    /\ TypeAt(tokens, m) \notin Hidden
    /\ Sound(tokens, k, m)
    /\ Complete(tokens, k) => TypeAt(tokens, m) # "COLON"
Reaches(tokens, k, r) == \E m : Ends(tokens, k, r, m) /\ TypeAt(tokens, m) \notin Operator

\* From st at k to r: fine exactly as far as the tokens obey the grammar.
Accepts(tokens, k, st, r) ==
    /\ Sane(r) => Sane(st) /\ Reaches(tokens, k, r)
    /\ Sane(st) /\ Complete(tokens, k) => Sane(r)

\* A term and the spaces behind it end at a token of the language.
LEMMA TermEnds ==
  ASSUME NEW tokens \in Seq(TokenSet), NEW st, NEW k, Sits(tokens, st, k),
         TypeAt(tokens, k) \in Expr, NEW r, r = SkipHidden(TermOrPhrase(st).st)
  PROVE  /\ Sane(r) => Sane(st) /\ \E m : Ends(tokens, k, r, m)
         /\ Sane(st) /\ Complete(tokens, k) => Sane(r)
<1> DEFINE first == Taken(st)
           N == Len(tokens)
           clean == \A i \in k .. N : Calm(tokens, i)
<1>1. /\ k \in Nat /\ N \in Nat /\ k >= 1 /\ k <= N /\ st \in States
      /\ Complete(tokens, k) => clean
  <2>1. k \in Nat /\ N \in Nat /\ k >= 1 /\ k <= N + 1 /\ st \in States
    BY SitsAt
  <2>2. k # N + 1
    BY SitsAt, Disjoint
  <2> QED BY <2>1, <2>2, CompleteHas
<1>2. PICK k1 \in k + 1 .. N + 1 :
        /\ Sits(tokens, first.st, k1)
        /\ TypeAt(tokens, k1) \notin Hidden
        /\ Sane(first.st) =>
             Sane(st) /\ Following(tokens, k) = k1 /\ \A i \in k + 1 .. k1 - 1 : Blank(tokens, i)
        /\ Sane(st) /\ clean => Sane(first.st)
  BY <1>1, TakenSits
<1>3. first.st \in States /\ k1 \in Nat /\ k1 <= N + 1
  BY <1>1, <1>2, SitsAt
<1> HIDE DEF first, clean, N
<1>4. CASE TypeAt(tokens, k1) # "COLON"
  <2>1. TermOrPhrase(st).st = first.st
    <3>1. ~At(first.st, {"COLON"})
      BY <1>2, <1>4, SitsAt
    <3> QED BY <3>1 DEF TermOrPhrase, TermOrField, Result, first
  <2>2. PICK m \in k1 .. N + 1 :
          /\ Sits(tokens, r, m)
          /\ Sane(r) => Sane(first.st)
          /\ Sane(first.st) /\ (\A i \in k1 .. N : Calm(tokens, i)) => Sane(r)
          /\ TypeAt(tokens, k1) \notin Hidden => m = k1
    BY <1>2, <2>1, SkipSits DEF N
  <2>3. m = k1
    BY <1>2, <2>2
  <2>4. clean => \A i \in k1 .. N : Calm(tokens, i)
    BY <1>1, <1>2 DEF clean
  <2>5. ASSUME Sane(r) PROVE Sound(tokens, k, k1)
    <3>1. ASSUME NEW i \in k .. k1 - 1 PROVE TypeAt(tokens, i) \in Expr \/ Blank(tokens, i)
      <4>1. i = k \/ i \in k + 1 .. k1 - 1
        BY <1>1, <1>3
      <4> QED BY <4>1, <1>2, <2>2, <2>5
    <3> QED BY <3>1, Harmless DEF Sound
  <2> QED BY <1>1, <1>2, <1>4, <2>2, <2>3, <2>4, <2>5 DEF Ends, N
<1>5. CASE TypeAt(tokens, k1) = "COLON"
  <2> DEFINE colon == Taken(first.st)
  <2>1. k1 <= N
    BY <1>2, <1>3, <1>5, <1>1, SitsAt DEF N
  <2>2. PICK k2 \in k1 + 1 .. N + 1 :
          /\ Sits(tokens, colon.st, k2)
          /\ TypeAt(tokens, k2) \notin Hidden
          /\ Sane(colon.st) =>
               /\ Sane(first.st) /\ Following(tokens, k1) = k2
               /\ \A i \in k1 + 1 .. k2 - 1 : Blank(tokens, i)
          /\ Sane(first.st) /\ (\A i \in k1 .. N : Calm(tokens, i)) => Sane(colon.st)
    BY <1>2, <2>1, TakenSits DEF N
  <2>3. colon.st \in States /\ k2 \in Nat /\ k2 <= N + 1 /\ k < k1 /\ k1 < k2
    BY <1>1, <1>2, <1>3, <2>2, SitsAt
  <2>4. clean => /\ \A i \in k1 .. N : Calm(tokens, i)
                 /\ \A i \in k2 .. N : Calm(tokens, i)
    BY <1>1, <1>3, <2>3, SMTT(40) DEF clean
  <2>5. Sane(st) /\ clean => Sane(colon.st)
    BY <1>2, <2>2, <2>4
  <2> HIDE DEF colon
  <2>6. At(first.st, {"COLON"})
    BY <1>2, <1>5, SitsAt
  <2>7. Complete(tokens, k) => Local(tokens, k1) /\ Single(tokens, k1)
    BY <1>1, <1>3, <2>1, <2>3 DEF Complete, N
  <2>8. CASE TypeAt(tokens, k2) \in Expr
    <3>1. TermOrPhrase(st).st = Consume(colon.st)
      <4>1. At(colon.st, Expr)
        BY <2>2, <2>8, SitsAt
      <4> QED BY <4>1, <2>6 DEF TermOrPhrase, TermOrField, FieldOf, Result, first, colon
    <3>2. k2 <= N
      <4>1. k2 # N + 1
        BY <2>2, <2>8, SitsAt, Disjoint DEF N
      <4> QED BY <4>1, <2>3, <1>1
    <3>3. PICK m \in k2 + 1 .. N + 1 :
            /\ Sits(tokens, r, m)
            /\ TypeAt(tokens, m) \notin Hidden
            /\ Sane(r) =>
                 /\ Sane(colon.st) /\ Following(tokens, k2) = m
                 /\ \A i \in k2 + 1 .. m - 1 : Blank(tokens, i)
            /\ Sane(colon.st) /\ (\A i \in k2 .. N : Calm(tokens, i)) => Sane(r)
      <4>1. Taken(colon.st).st = r
        BY <3>1 DEF Taken
      <4> QED BY <4>1, <2>2, <3>2, TakenSits DEF N
    <3>4. ASSUME Sane(r)
          PROVE  /\ Sane(st) /\ Sound(tokens, k, m)
                 /\ Complete(tokens, k) => TypeAt(tokens, m) # "COLON"
      <4>1. Sane(colon.st) /\ Sane(first.st) /\ Sane(st)
        BY <3>3, <3>4, <2>2, <1>2
      <4>2. Following(tokens, k1) = k2 /\ Following(tokens, k2) = m
        BY <3>3, <3>4, <2>2, <4>1
      <4>3. Local(tokens, k1)
        <5>1. Calm(tokens, k1)
          BY <1>5 DEF Calm, Quiet, TypeAt
        <5> QED BY <5>1, <1>5, <2>8, <4>2 DEF Local, Operator
      <4>4. Single(tokens, k1) <=> TypeAt(tokens, m) # "COLON"
        BY <1>5, <4>2 DEF Single
      <4>5. ASSUME NEW i \in k .. m - 1 PROVE i = k1 \/ TypeAt(tokens, i) \in Expr \/ Blank(tokens, i)
        <5>1. \/ i = k \/ i \in k + 1 .. k1 - 1 \/ i = k1 \/ i \in k1 + 1 .. k2 - 1
              \/ i = k2 \/ i \in k2 + 1 .. m - 1
          BY <1>1, <1>3, <2>3, SMTT(40)
        <5> QED BY <5>1, <4>1, <3>3, <3>4, <2>2, <2>8, <1>2
      <4>6. Sound(tokens, k, m)
        BY <4>3, <4>4, <4>5, Harmless DEF Sound
      <4> QED BY <4>1, <4>4, <4>6, <2>7
    <3>5. m \in k + 1 .. N + 1
      BY <1>1, <2>3
    <3>6. Sane(st) /\ Complete(tokens, k) => Sane(r)
      BY <1>1, <2>4, <2>5, <3>3
    <3> QED BY <3>3, <3>4, <3>5, <3>6 DEF Ends, N
  <2>9. CASE TypeAt(tokens, k2) \notin Expr
    <3> DEFINE recovered == Recover(colon.st, "term", "noTerm")
    <3>1. TermOrPhrase(st).st = recovered
      <4>1. ~At(colon.st, Expr)
        BY <2>2, <2>9, SitsAt
      <4> QED BY <4>1, <2>6 DEF TermOrPhrase, TermOrField, FieldOf, Result, first, colon
    <3>2. recovered \in States /\ ~Sane(recovered)
      BY <2>3, SimplerStates DEF Later, Messages
    <3> HIDE DEF recovered
    <3>3. ~Sane(r)
      BY <3>1, <3>2, SimplerStates DEF Later, Keeps
    <3>4. ASSUME Sane(st), Complete(tokens, k) PROVE FALSE
      <4>1. Following(tokens, k1) = k2
        BY <1>1, <2>2, <2>5, <3>4
      <4> QED BY <4>1, <2>7, <2>9, <1>5, <3>4 DEF Local
    <3> QED BY <3>3, <3>4
  <2> QED BY <2>8, <2>9
<1> QED BY <1>4, <1>5

\* A token is taken at k, in st: the next visible one is at m, in s.
Passes(tokens, k, st, m, s) ==
    /\ k \in Nat /\ m \in k + 1 .. Len(tokens) + 1 /\ Sits(tokens, s, m)
    /\ TypeAt(tokens, m) \notin Hidden
    /\ Sane(s) =>
         /\ Sane(st) /\ Following(tokens, k) = m
         /\ \A i \in k + 1 .. m - 1 : Blank(tokens, i)
    /\ Sane(st) /\ (\A i \in k .. Len(tokens) : Calm(tokens, i)) => Sane(s)

\* A token and the spaces behind it are passed together.
LEMMA TakenPasses ==
  ASSUME NEW tokens \in Seq(TokenSet), NEW st, NEW k, Sits(tokens, st, k), TypeAt(tokens, k) # "EOF"
  PROVE  /\ \E m : Passes(tokens, k, st, m, Taken(st).st)
         /\ Taken(st).st \in States /\ Len(Taken(st).st.rest) < Len(st.rest)
<1>1. k \in Nat /\ k <= Len(tokens) + 1 /\ k # Len(tokens) + 1 /\ st \in States /\ st.rest # <<>>
  BY SitsAt
<1>2. k <= Len(tokens)
  BY <1>1
<1>3. Further(st, Taken(st).st)
  BY <1>1, TakenState
<1> QED BY <1>1, <1>2, <1>3, TakenSits DEF Passes, Further

\* Tokens that are sound one after the other are sound together.
LEMMA Joins ==
  ASSUME NEW tokens \in Seq(TokenSet), NEW k \in Nat, NEW m1 \in Nat, NEW m \in Nat,
         k <= m1, m1 <= m, Sound(tokens, k, m1), TypeAt(tokens, m1) # "COLON",
         Sound(tokens, m1, m)
  PROVE  Sound(tokens, k, m)
<1> SUFFICES ASSUME NEW i \in k .. m - 1
             PROVE  Local(tokens, i) /\ (Single(tokens, i) \/ TypeAt(tokens, m) = "COLON")
  BY DEF Sound
<1>1. i \in k .. m1 - 1 \/ i \in m1 .. m - 1
  OBVIOUS
<1> QED BY <1>1 DEF Sound

\* What is reached from a token is reached from those before it.
LEMMA ReachesFrom ==
  ASSUME NEW tokens \in Seq(TokenSet), NEW k \in Nat, NEW m1 \in k + 1 .. Len(tokens) + 1, NEW r,
         Sound(tokens, k, m1), TypeAt(tokens, m1) # "COLON", Reaches(tokens, m1, r)
  PROVE  Reaches(tokens, k, r)
<1>1. PICK m : Ends(tokens, m1, r, m) /\ TypeAt(tokens, m) \notin Operator
  BY DEF Reaches
<1>2. Len(tokens) \in Nat
  OBVIOUS
<1>3. m \in m1 + 1 .. Len(tokens) + 1 /\ Sound(tokens, m1, m)
  BY <1>1 DEF Ends
<1>4. m1 \in Nat /\ m \in Nat /\ k <= m1 /\ m1 <= m /\ m \in k + 1 .. Len(tokens) + 1
  BY <1>2, <1>3
<1>5. Sound(tokens, k, m)
  BY <1>3, <1>4, Joins
<1>6. Complete(tokens, k) => Complete(tokens, m1)
  BY <1>4, CompleteHas
<1>7. Ends(tokens, k, r, m)
  BY <1>1, <1>4, <1>5, <1>6 DEF Ends
<1> QED BY <1>1, <1>7 DEF Reaches

\* A token that may be followed by what comes, and is.
LEMMA AcceptsAfter ==
  ASSUME NEW tokens \in Seq(TokenSet), NEW k, NEW st, NEW m, NEW s, Passes(tokens, k, st, m, s),
         TypeAt(tokens, k) # "COLON", TypeAt(tokens, m) # "COLON",
         Following(tokens, k) = m => Local(tokens, k), NEW r, Accepts(tokens, m, s, r)
  PROVE  Accepts(tokens, k, st, r)
<1>1. k \in Nat /\ m \in k + 1 .. Len(tokens) + 1 /\ Len(tokens) \in Nat
  BY DEF Passes
<1>2. ASSUME Sane(r) PROVE Sane(st) /\ Reaches(tokens, k, r)
  <2>1. Sane(s) /\ Reaches(tokens, m, r)
    BY <1>2 DEF Accepts
  <2>2. Sane(st) /\ Following(tokens, k) = m /\ \A i \in k + 1 .. m - 1 : Blank(tokens, i)
    BY <2>1 DEF Passes
  <2>3. Local(tokens, k) /\ Single(tokens, k)
    BY <2>2 DEF Single
  <2>4. Sound(tokens, k, m)
    <3>1. \A i \in k .. m - 1 : i = k \/ i \in k + 1 .. m - 1
      BY <1>1
    <3> QED BY <2>2, <2>3, <3>1, Harmless DEF Sound
  <2> QED BY <1>1, <2>1, <2>2, <2>4, ReachesFrom
<1>3. ASSUME Sane(st), Complete(tokens, k) PROVE Sane(r)
  <2>1. Complete(tokens, m) /\ \A i \in k .. Len(tokens) : Calm(tokens, i)
    <3>1. m \in Nat /\ k <= m
      BY <1>1
    <3> QED BY <1>1, <1>3, <3>1, CompleteHas
  <2>2. Sane(s)
    BY <1>3, <2>1 DEF Passes
  <2> QED BY <2>1, <2>2 DEF Accepts
<1> QED BY <1>2, <1>3 DEF Accepts

\* A token that may not be followed by what comes is reported.
LEMMA RejectsAfter ==
  ASSUME NEW tokens \in Seq(TokenSet), NEW k, NEW st, NEW m, NEW s, Passes(tokens, k, st, m, s),
         Following(tokens, k) = m => ~Local(tokens, k), NEW r, ~Sane(r)
  PROVE  Accepts(tokens, k, st, r)
<1>1. k \in Nat /\ m \in k + 1 .. Len(tokens) + 1 /\ Len(tokens) \in Nat
  BY DEF Passes
<1>2. ASSUME Sane(st), Complete(tokens, k) PROVE FALSE
  <2>1. k \in k .. Len(tokens) /\ \A i \in k .. Len(tokens) : Calm(tokens, i)
    BY <1>1, <1>2, CompleteHas
  <2>2. Following(tokens, k) = m /\ Local(tokens, k)
    BY <1>2, <2>1 DEF Passes, Complete
  <2> QED BY <2>2
<1> QED BY <1>2 DEF Accepts

-----------------------------------------------------------------------------
(* The rules, and the language *)

\* A rule for expressions that accepts, in the states shorter than n.
Expects(tokens, expr, n) ==
    \A x \in States : \A k :
      Sits(tokens, x, k) /\ TypeAt(tokens, k) \in Expr /\ Len(x.rest) < n =>
        Accepts(tokens, k, x, expr[x].st)

\* A modifier accepts what the language has behind it.
LEMMA ModifiedAccepts ==
  ASSUME NEW tokens \in Seq(TokenSet), NEW st, NEW k, Sits(tokens, st, k),
         TypeAt(tokens, k) \in Modifier, NEW expr, NEW n \in Nat, Expects(tokens, expr, n),
         Len(st.rest) <= n
  PROVE  Accepts(tokens, k, st, Modified(expr, st).st)
<1> DEFINE start == SkipHidden(st)
           modifier == Taken(start)
           side == ModifierSide(expr, modifier.st)
<1>1. /\ TypeAt(tokens, k) \notin Hidden /\ TypeAt(tokens, k) # "COLON" /\ TypeAt(tokens, k) # "EOF"
      /\ TypeAt(tokens, k) \notin Operator /\ Calm(tokens, k)
  BY DEF Modifier, Hidden, Operator, Calm, Quiet, TypeAt
<1>2. /\ Sits(tokens, start, k) /\ (Sane(start) => Sane(st))
      /\ Sane(st) /\ (\A i \in k .. Len(tokens) : Calm(tokens, i)) => Sane(start)
  BY <1>1, SkipSits
<1>3. st \in States /\ start \in States /\ Len(start.rest) <= Len(st.rest)
  BY SitsAt, SimplerStates DEF Later
<1> HIDE DEF start
<1>4. PICK m : Passes(tokens, k, start, m, modifier.st)
  BY <1>1, <1>2, TakenPasses
<1>5. modifier.st \in States /\ Len(modifier.st.rest) < Len(start.rest)
  BY <1>1, <1>2, TakenPasses
<1> HIDE DEF modifier
<1>6. Len(modifier.st.rest) < n
  <2>1. Len(modifier.st.rest) \in Nat /\ Len(start.rest) \in Nat /\ Len(st.rest) \in Nat
    BY <1>3, <1>5, StateParts
  <2> QED BY <2>1, <1>3, <1>5, SMTT(40)
<1>7. Passes(tokens, k, st, m, modifier.st)
  BY <1>2, <1>4 DEF Passes
<1>8. Sits(tokens, modifier.st, m)
  BY <1>7 DEF Passes
<1>9. Modified(expr, st).st = side.st
  BY DEF Modified, TakenModifier, ModifierOf, Result, modifier, start
<1>10. CASE TypeAt(tokens, m) \in Expr
  <2>1. side = expr[modifier.st]
    <3>1. At(modifier.st, Expr)
      BY <1>8, <1>10, SitsAt
    <3> QED BY <3>1 DEF ModifierSide
  <2>2. Accepts(tokens, m, modifier.st, side.st)
    BY <2>1, <1>5, <1>6, <1>8, <1>10 DEF Expects
  <2> HIDE DEF side
  <2>3. TypeAt(tokens, m) # "COLON"
    BY <1>10 DEF Expr
  <2>4. Following(tokens, k) = m => Local(tokens, k)
    BY <1>1, <1>10 DEF Local
  <2> QED BY <1>1, <1>7, <1>9, <2>2, <2>3, <2>4, AcceptsAfter
<1>11. CASE TypeAt(tokens, m) \notin Expr
  <2>1. side.st = Recover(modifier.st, "modifier", "noRightSide")
    <3>1. ~At(modifier.st, Expr)
      BY <1>8, <1>11, SitsAt
    <3> QED BY <3>1 DEF ModifierSide, Side, Result
  <2>2. ~Sane(side.st)
    BY <2>1, <1>5, SimplerStates DEF Messages
  <2> HIDE DEF side
  <2>3. Following(tokens, k) = m => ~Local(tokens, k)
    BY <1>1, <1>11 DEF Local
  <2> QED BY <1>7, <1>9, <2>2, <2>3, RejectsAfter
<1> QED BY <1>10, <1>11

\* So does an operator.
LEMMA OperatorAccepts ==
  ASSUME NEW tokens \in Seq(TokenSet), NEW st, NEW k, Sits(tokens, st, k),
         TypeAt(tokens, k) \in Operator, NEW expr, NEW n \in Nat, Expects(tokens, expr, n),
         Len(st.rest) <= n
  PROVE  Accepts(tokens, k, st, OperatorSide(expr, Taken(st).st).st)
<1> DEFINE operator == Taken(st)
           side == OperatorSide(expr, operator.st)
<1>1. /\ TypeAt(tokens, k) \notin Hidden /\ TypeAt(tokens, k) # "COLON" /\ TypeAt(tokens, k) # "EOF"
      /\ TypeAt(tokens, k) \notin Modifier /\ Calm(tokens, k)
  BY DEF Modifier, Hidden, Operator, Calm, Quiet, TypeAt
<1>2. PICK m : Passes(tokens, k, st, m, operator.st)
  BY <1>1, TakenPasses
<1>3. operator.st \in States /\ Len(operator.st.rest) < Len(st.rest) /\ st \in States
  BY <1>1, TakenPasses, SitsAt
<1> HIDE DEF operator
<1>4. Len(operator.st.rest) < n
  <2>1. Len(operator.st.rest) \in Nat /\ Len(st.rest) \in Nat
    BY <1>3, StateParts
  <2> QED BY <2>1, <1>3
<1>5. Sits(tokens, operator.st, m)
  BY <1>2 DEF Passes
<1>6. TypeAt(tokens, m) \in Expr => At(operator.st, Expr)
  BY <1>5, SitsAt
<1>7. TypeAt(tokens, m) \in Modifier <=> At(operator.st, Modifier)
  BY <1>5, SitsAt
<1>8. TypeAt(tokens, m) \in Expr <=> At(operator.st, Expr)
  BY <1>5, SitsAt
<1>9. CASE TypeAt(tokens, m) \in Expr \cup Modifier
  <2>1. Accepts(tokens, m, operator.st, side.st)
    <3>1. CASE TypeAt(tokens, m) \in Expr
      <4>1. side = expr[operator.st]
        BY <3>1, <1>7, <1>8, Disjoint DEF OperatorSide
      <4> QED BY <3>1, <4>1, <1>3, <1>4, <1>5 DEF Expects
    <3>2. CASE TypeAt(tokens, m) \in Modifier
      <4>1. side = Modified(expr, operator.st)
        BY <3>2, <1>7, <1>8, Disjoint DEF OperatorSide
      <4>2. Len(operator.st.rest) <= n
        BY <1>3, <1>4, StateParts
      <4> QED BY <3>2, <4>1, <4>2, <1>5, ModifiedAccepts
    <3> QED BY <1>9, <3>1, <3>2
  <2> HIDE DEF side
  <2>2. TypeAt(tokens, m) # "COLON"
    BY <1>9, Disjoint
  <2>3. Following(tokens, k) = m => Local(tokens, k)
    BY <1>1, <1>9 DEF Local
  <2> QED BY <1>1, <1>2, <2>1, <2>2, <2>3, AcceptsAfter DEF side, operator
<1>10. CASE TypeAt(tokens, m) \notin Expr \cup Modifier
  <2>1. side.st = Recover(operator.st, "expr", "noRightSide")
    BY <1>10, <1>7, <1>8 DEF OperatorSide, Side, Result
  <2>2. ~Sane(side.st)
    BY <2>1, <1>3, SimplerStates DEF Messages
  <2> HIDE DEF side
  <2>3. Following(tokens, k) = m => ~Local(tokens, k)
    BY <1>1, <1>10 DEF Local
  <2> QED BY <1>2, <2>2, <2>3, RejectsAfter DEF side, operator
<1> QED BY <1>9, <1>10

\* So does an expression.
LEMMA ExpressionAccepts ==
  ASSUME NEW tokens \in Seq(TokenSet), NEW st, NEW k, Sits(tokens, st, k),
         TypeAt(tokens, k) \in Expr
  PROVE  Accepts(tokens, k, st, Expression[st].st)
<1> DEFINE P(x) == \A i : Sits(tokens, x, i) /\ TypeAt(tokens, i) \in Expr =>
                     Accepts(tokens, i, x, Expression[x].st)
           T == {x \in States : P(x)}
           len == [x \in States |-> Len(x.rest)]
<1>1. len \in [States -> Nat]
  BY StateParts
<1>2. ASSUME NEW x \in States, \A y \in States : len[y] < len[x] => y \in T
      PROVE  x \in T
  <2> SUFFICES ASSUME NEW i, Sits(tokens, x, i), TypeAt(tokens, i) \in Expr
               PROVE  Accepts(tokens, i, x, Expression[x].st)
    OBVIOUS
  <2>1. Expects(tokens, Expression, Len(x.rest)) /\ Len(x.rest) \in Nat
    <3>1. ASSUME NEW y \in States, Len(y.rest) < Len(x.rest) PROVE P(y)
      BY <3>1, <1>2
    <3> HIDE DEF T, len
    <3> QED BY <3>1, StateParts DEF Expects
  <2> HIDE DEF T, len, P
  <2> DEFINE left == TermOrPhrase(x)
             y == SkipHidden(left.st)
             r == AfterLeft(Expression, left.tree, HiddenAt(left.st), y)
  <2>2. At(x, Expr)
    BY SitsAt
  <2>3. Further(x, left.st) /\ left.st \in States
    BY <2>2, TermOrPhraseState DEF Further
  <2>4. /\ Sane(y) => Sane(x) /\ \E m : Ends(tokens, i, y, m)
        /\ Sane(x) /\ Complete(tokens, i) => Sane(y)
    <3> HIDE DEF left
    <3>1. y = SkipHidden(TermOrPhrase(x).st)
      BY DEF left
    <3> HIDE DEF y
    <3> QED BY <3>1, TermEnds
  <2> HIDE DEF left
  <2>5. Later(left.st, y) /\ y \in States
    BY <2>3, SimplerStates DEF Later
  <2> HIDE DEF y
  <2>6. Len(y.rest) <= Len(x.rest)
    BY <2>3, <2>5, LaterStates, StateParts DEF Further, Later
  <2>7. Later(y, r.st)
    BY <2>1, <2>5, <2>6, ExpressionMovesOn, AfterLeftState
  <2>8. Expression[x] = r
    <3>1. Expression[x] = ExpressionRule(Expression, x)
      BY ExpressionIs
    <3> QED BY <3>1, <2>2 DEF ExpressionRule, AfterTerm, left, y
  <2>9. CASE ~Sane(y)
    <3> HIDE DEF r
    <3> QED BY <2>4, <2>7, <2>8, <2>9 DEF Accepts, Later, Keeps
  <2>10. CASE Sane(y)
    <3>1. PICK m : Ends(tokens, i, y, m)
      BY <2>4, <2>10
    <3>2. m \in i + 1 .. Len(tokens) + 1 /\ Sits(tokens, y, m) /\ Sound(tokens, i, m)
          /\ (Complete(tokens, i) => TypeAt(tokens, m) # "COLON")
      BY <3>1 DEF Ends
    <3>3. i \in Nat /\ m \in Nat /\ Len(tokens) \in Nat /\ i <= m
      BY <3>2, SitsAt
    <3>4. CASE TypeAt(tokens, m) \in Operator
      <4>1. r.st = OperatorSide(Expression, Taken(y).st).st
        <5>1. At(y, Operator)
          BY <3>2, <3>4, SitsAt
        <5> QED BY <5>1 DEF AfterLeft, TakenOperator, ExpressionOf, Result
      <4> HIDE DEF r
      <4>2. Accepts(tokens, m, y, r.st)
        BY <4>1, <3>2, <3>4, <2>1, <2>6, OperatorAccepts
      <4>3. TypeAt(tokens, m) # "COLON"
        BY <3>4, Disjoint
      <4>4. Complete(tokens, i) => Complete(tokens, m)
        BY <3>3, CompleteHas
      <4>5. Reaches(tokens, m, r.st) => Reaches(tokens, i, r.st)
        BY <3>2, <3>3, <4>3, ReachesFrom
      <4> QED BY <2>4, <2>8, <2>10, <4>2, <4>4, <4>5 DEF Accepts
    <3>5. CASE TypeAt(tokens, m) \notin Operator
      <4>1. r.st = y
        <5>1. ~At(y, Operator)
          BY <3>2, <3>5, SitsAt
        <5> QED BY <5>1 DEF AfterLeft, Result
      <4> HIDE DEF r
      <4> QED BY <2>4, <2>8, <2>10, <3>1, <3>5, <4>1 DEF Accepts, Reaches
    <3> QED BY <3>4, <3>5
  <2> QED BY <2>9, <2>10
<1>3. States \subseteq T
  <2> HIDE DEF T, len
  <2> QED BY <1>1, <1>2, SmallerFirst
<1>4. st \in States
  BY SitsAt
<1> QED BY <1>3, <1>4

\* Expression is what the rules expect of it.
LEMMA ExpectsExpression ==
  ASSUME NEW tokens \in Seq(TokenSet), NEW n
  PROVE  Expects(tokens, Expression, n)
BY ExpressionAccepts DEF Expects

\* What the list of expressions from k leaves, in r.
Leaves(tokens, k, st, r) ==
    /\ Sane(r) =>
         /\ Sane(st) /\ TypeAt(tokens, k) \notin Operator
         /\ \E m \in k .. Len(tokens) + 1 :
              /\ Sits(tokens, r, m) /\ Sound(tokens, k, m)
              /\ TypeAt(tokens, m) \in {"COLON", "EOF"}
              /\ TypeAt(tokens, k) = "COLON" => m = k
              /\ Complete(tokens, k) /\ TypeAt(tokens, k) # "COLON" => TypeAt(tokens, m) = "EOF"
    /\ Sane(st) /\ Complete(tokens, k) /\ TypeAt(tokens, k) \notin Operator => Sane(r)

\* Items behind an item leave what the list leaves.
LEMMA LeavesAfter ==
  ASSUME NEW tokens \in Seq(TokenSet), NEW st, NEW k, Sits(tokens, st, k),
         TypeAt(tokens, k) \notin Operator \cup {"COLON"},
         NEW y, Accepts(tokens, k, st, y), NEW r, Sane(r) => Sane(y),
         \A m : Sits(tokens, y, m) /\ TypeAt(tokens, m) \notin Hidden => Leaves(tokens, m, y, r)
  PROVE  Leaves(tokens, k, st, r)
<1>1. k \in Nat /\ Len(tokens) \in Nat
  BY SitsAt
<1>2. ASSUME Sane(y)
      PROVE  \E m1 \in k + 1 .. Len(tokens) + 1 :
               /\ Leaves(tokens, m1, y, r) /\ Sound(tokens, k, m1) /\ TypeAt(tokens, m1) \notin Operator
               /\ Complete(tokens, k) => TypeAt(tokens, m1) # "COLON"
  <2>1. PICK m1 : Ends(tokens, k, y, m1) /\ TypeAt(tokens, m1) \notin Operator
    BY <1>2 DEF Accepts, Reaches
  <2> QED BY <2>1 DEF Ends
<1>3. ASSUME Sane(r)
      PROVE  /\ Sane(st)
             /\ \E m \in k .. Len(tokens) + 1 :
                  /\ Sits(tokens, r, m) /\ Sound(tokens, k, m)
                  /\ TypeAt(tokens, m) \in {"COLON", "EOF"}
                  /\ Complete(tokens, k) => TypeAt(tokens, m) = "EOF"
  <2>1. Sane(y) /\ Sane(st)
    BY <1>3 DEF Accepts
  <2>2. PICK m1 \in k + 1 .. Len(tokens) + 1 :
          /\ Leaves(tokens, m1, y, r) /\ Sound(tokens, k, m1)
          /\ Complete(tokens, k) => TypeAt(tokens, m1) # "COLON"
    BY <1>2, <2>1
  <2>3. PICK m \in m1 .. Len(tokens) + 1 :
          /\ Sits(tokens, r, m) /\ Sound(tokens, m1, m)
          /\ TypeAt(tokens, m) \in {"COLON", "EOF"}
          /\ TypeAt(tokens, m1) = "COLON" => m = m1
          /\ Complete(tokens, m1) /\ TypeAt(tokens, m1) # "COLON" => TypeAt(tokens, m) = "EOF"
    BY <2>2, <1>3 DEF Leaves
  <2>4. m1 \in Nat /\ m \in Nat /\ k <= m1 /\ m1 <= m /\ m \in k .. Len(tokens) + 1
    BY <1>1
  <2>5. Sound(tokens, k, m)
    <3>1. CASE TypeAt(tokens, m1) = "COLON"
      BY <3>1, <2>2, <2>3
    <3>2. CASE TypeAt(tokens, m1) # "COLON"
      BY <3>2, <1>1, <2>2, <2>3, <2>4, Joins
    <3> QED BY <3>1, <3>2
  <2>6. Complete(tokens, k) => Complete(tokens, m1)
    BY <1>1, <2>4, CompleteHas
  <2> QED BY <2>1, <2>2, <2>3, <2>4, <2>5, <2>6
<1>4. ASSUME Sane(st), Complete(tokens, k) PROVE Sane(r)
  <2>1. Sane(y)
    BY <1>4 DEF Accepts
  <2>2. PICK m1 \in k + 1 .. Len(tokens) + 1 :
          Leaves(tokens, m1, y, r) /\ TypeAt(tokens, m1) \notin Operator
    BY <1>2, <2>1
  <2>3. m1 \in Nat /\ k <= m1
    BY <1>1
  <2>4. Complete(tokens, m1)
    BY <1>1, <1>4, <2>3, CompleteHas
  <2> QED BY <2>1, <2>2, <2>4 DEF Leaves
<1> QED BY <1>3, <1>4 DEF Leaves

\* A list leaves nothing of the language.
LEMMA ItemsLeave ==
  ASSUME NEW tokens \in Seq(TokenSet), NEW st, NEW k, Sits(tokens, st, k),
         TypeAt(tokens, k) \notin Hidden
  PROVE  Leaves(tokens, k, st, Items[st].st)
<1> DEFINE P(x) == \A i : Sits(tokens, x, i) /\ TypeAt(tokens, i) \notin Hidden =>
                     Leaves(tokens, i, x, Items[x].st)
           T == {x \in States : P(x)}
           len == [x \in States |-> Len(x.rest)]
<1>1. len \in [States -> Nat]
  BY StateParts
<1>2. ASSUME NEW x \in States, \A y \in States : len[y] < len[x] => y \in T
      PROVE  x \in T
  <2> SUFFICES ASSUME NEW i, Sits(tokens, x, i), TypeAt(tokens, i) \notin Hidden
               PROVE  Leaves(tokens, i, x, Items[x].st)
    OBVIOUS
  <2>1. ASSUME NEW y, Further(x, y) PROVE P(y)
    BY <2>1, <1>2 DEF Further
  <2> HIDE DEF T, len
  <2>2. Len(x.rest) \in Nat /\ Len(x.rest) + 1 \in Nat /\ Len(x.rest) < Len(x.rest) + 1
        /\ Len(x.rest) <= Len(x.rest)
    BY StateParts
  <2>3. \A types : At(x, types) <=> TypeAt(tokens, i) \in types
    BY SitsAt
  <2>4. CASE TypeAt(tokens, i) \in Expr
    <3> DEFINE y == Expression[x].st
               r == Items[y].st
    <3>1. Further(x, y) /\ y \in States /\ Items[x].st = r
      BY <2>3, <2>4, ExpressionState, ItemsSteps DEF Further
    <3>2. Accepts(tokens, i, x, y)
      BY <2>4, ExpressionAccepts
    <3>3. P(y)
      BY <2>1, <3>1
    <3> HIDE DEF y
    <3>4. Sane(r) => Sane(y)
      BY <3>1, ItemsLater DEF Later, Keeps
    <3>5. \A m : Sits(tokens, y, m) /\ TypeAt(tokens, m) \notin Hidden => Leaves(tokens, m, y, r)
      BY <3>3
    <3>6. TypeAt(tokens, i) \notin Operator \cup {"COLON"}
      BY <2>4, Disjoint
    <3> HIDE DEF P, r
    <3> QED BY <3>1, <3>2, <3>4, <3>5, <3>6, LeavesAfter
  <2>5. CASE TypeAt(tokens, i) \in Modifier
    <3> DEFINE y == Modified(Expression, x).st
               r == Items[y].st
    <3>1. Further(x, y) /\ y \in States /\ Items[x].st = r
      BY <2>2, <2>3, <2>5, ExpressionMovesOn, ModifiedState, ItemsSteps DEF Further
    <3>2. Accepts(tokens, i, x, y)
      BY <2>2, <2>5, ExpectsExpression, ModifiedAccepts
    <3>3. P(y)
      BY <2>1, <3>1
    <3> HIDE DEF y
    <3>4. Sane(r) => Sane(y)
      BY <3>1, ItemsLater DEF Later, Keeps
    <3>5. \A m : Sits(tokens, y, m) /\ TypeAt(tokens, m) \notin Hidden => Leaves(tokens, m, y, r)
      BY <3>3
    <3>6. TypeAt(tokens, i) \notin Operator \cup {"COLON"}
      BY <2>5, Disjoint
    <3> HIDE DEF P, r
    <3> QED BY <3>1, <3>2, <3>4, <3>5, <3>6, LeavesAfter
  <2>6. CASE TypeAt(tokens, i) \in Operator
    <3> DEFINE y == Expression[x].st
               r == Items[y].st
    <3>1. y \in States /\ ~Sane(y) /\ Items[x].st = r
      BY <2>3, <2>6, Disjoint, ExpressionState, ItemsSteps DEF Later
    <3> HIDE DEF y
    <3>2. ~Sane(r)
      BY <3>1, ItemsLater DEF Later, Keeps
    <3> HIDE DEF r
    <3> QED BY <2>6, <3>1, <3>2 DEF Leaves
  <2>7. CASE TypeAt(tokens, i) \notin Expr \cup Modifier \cup Operator
    <3>1. Items[x].st = x
      BY <2>3, <2>7, ItemsSteps
    <3>2. TypeAt(tokens, i) \in {"COLON", "EOF"}
      <4>1. TypeAt(tokens, i) \in AllTypes \cup {"EOF"}
        <5>1. ASSUME i \in DOMAIN tokens PROVE tokens[i] \in TokenSet
          BY <5>1
        <5> QED BY <5>1 DEF TypeAt, TokenSet
      <4> QED BY <4>1, <2>7 DEF AllTypes
    <3>3. i \in i .. Len(tokens) + 1 /\ i \in Nat /\ \A j : ~(j \in i .. i - 1)
      BY SitsAt
    <3>4. Sound(tokens, i, i)
      BY <3>3 DEF Sound
    <3> QED BY <2>7, <3>1, <3>2, <3>3, <3>4 DEF Leaves
  <2> QED BY <2>4, <2>5, <2>6, <2>7
<1>3. States \subseteq T
  <2> HIDE DEF T, len
  <2> QED BY <1>1, <1>2, SmallerFirst
<1>4. st \in States
  BY SitsAt
<1> QED BY <1>3, <1>4

\* The language, token by token.
LEMMA GrammaticalIs ==
  ASSUME NEW tokens \in Seq(TokenSet), tokens = Tokens(query)
  PROVE  Grammatical(query) <=>
           /\ TypeAt(tokens, Following(tokens, 0)) \in Expr \cup Modifier \cup {"EOF"}
           /\ Complete(tokens, 1)
<1>1. DOMAIN tokens = 1 .. Len(tokens)
  OBVIOUS
<1>2. ASSUME NEW i \in 1 .. Len(tokens)
      PROVE  /\ tokens[i].type = TypeAt(tokens, i)
             /\ Calm(tokens, i) <=> (tokens[i].type = "ERROR" => LoneSign(query, tokens[i].begin))
  BY <1>1 DEF TypeAt, Calm, Quiet
<1>3. Grammatical(query) <=>
        /\ TypeAt(tokens, Following(tokens, 0)) \in Expr \cup Modifier \cup {"EOF"}
        /\ \A i \in 1 .. Len(tokens) :
             /\ tokens[i].type = "ERROR" => LoneSign(query, tokens[i].begin)
             /\ tokens[i].type \in Modifier \cup {"COLON"} =>
                  TypeAt(tokens, Following(tokens, i)) \in Expr
             /\ tokens[i].type \in Operator =>
                  TypeAt(tokens, Following(tokens, i)) \in Expr \cup Modifier
             /\ tokens[i].type = "COLON" =>
                  TypeAt(tokens, Following(tokens, Following(tokens, i))) # "COLON"
  BY <1>1 DEF Grammatical
<1> QED BY <1>2, <1>3 DEF Complete, Local, Single

\* What a parse from st ends in.
Done(st) ==
    LET r == Items[SkipHidden(st)].st
    IN  SkipHidden(IF At(r, {"EOF"}) THEN r ELSE Recover(r, "parse", "unexpected"))

\* The errors are those of the state that the parser ends in.
LEMMA ParseDone ==
  ASSUME NEW st
  PROVE  ParsedTokens(st).errors = Done(st).errors /\ ParsedTokens(st).thrown = Done(st).thrown
BY DEF ParsedTokens, Parsed, Exprs, Result, AtEnd, Suffixed, Done

\* That state has nothing but lone signs to report exactly if the query is of
\* the language.
LEMMA DoneIffGrammatical ==
  ASSUME NEW tokens \in Seq(TokenSet), tokens = Tokens(query),
         NEW st, Sits(tokens, st, 1), Sane(st)
  PROVE  Sane(Done(st)) <=> Grammatical(query)
<1> DEFINE start == SkipHidden(st)
           r == Items[start].st
           e == IF At(r, {"EOF"}) THEN r ELSE Recover(r, "parse", "unexpected")
<1>1. Len(tokens) \in Nat /\ st \in States
  BY SitsAt
<1>2. PICK k \in 1 .. Len(tokens) + 1 :
        /\ Sits(tokens, start, k)
        /\ TypeAt(tokens, k) \notin Hidden
        /\ Sane(start) => \A i \in 1 .. k - 1 : Blank(tokens, i)
        /\ (\A i \in 1 .. Len(tokens) : Calm(tokens, i)) => Sane(start)
  BY SkipSits
<1> HIDE DEF start
<1>3. start \in States /\ k \in Nat
  BY <1>2, SitsAt
<1>4. Leaves(tokens, k, start, r)
  BY <1>2, ItemsLeave
<1>5. r \in States
  BY <1>3, ItemsLater DEF Later
<1> HIDE DEF r
<1>6. e \in States /\ (~At(r, {"EOF"}) => ~Sane(e)) /\ (At(r, {"EOF"}) => e = r)
  BY <1>5, SimplerStates DEF Later, Messages
<1>7. Done(st) = SkipHidden(e)
  BY DEF Done, e, r, start
<1>8. Sane(Done(st)) => Sane(e)
  <2> HIDE DEF e
  <2> QED BY <1>6, <1>7, SimplerStates DEF Later, Keeps
<1>9. Sane(start) => Following(tokens, 0) = k
  <2> SUFFICES ASSUME Sane(start) PROVE Following(tokens, 0) = k
    OBVIOUS
  <2>1. TypeAt(tokens, k) \notin Hidden /\ k \in 0 + 1 .. Len(tokens) + 1
        /\ \A j \in 0 + 1 .. k - 1 : Blank(tokens, j)
    BY <1>2
  <2> QED BY <2>1, FollowingIs
<1> HIDE DEF e
<1>10. ASSUME Sane(Done(st)) PROVE Grammatical(query)
  <2>1. Sane(e) /\ At(r, {"EOF"}) /\ Sane(r)
    BY <1>6, <1>8, <1>10
  <2>2. PICK m \in k .. Len(tokens) + 1 :
          /\ Sits(tokens, r, m) /\ Sound(tokens, k, m)
          /\ TypeAt(tokens, k) = "COLON" => m = k
    BY <1>4, <2>1 DEF Leaves
  <2>3. Sane(start) /\ TypeAt(tokens, k) \notin Operator
    BY <1>4, <2>1 DEF Leaves
  <2>4. TypeAt(tokens, m) = "EOF" /\ m = Len(tokens) + 1
    BY <2>1, <2>2, SitsAt
  <2>5. TypeAt(tokens, k) # "COLON"
    BY <2>2, <2>4
  <2>6. TypeAt(tokens, k) \in Expr \cup Modifier \cup {"EOF"}
    <3>1. TypeAt(tokens, k) \in AllTypes \cup {"EOF"}
      <4>1. ASSUME k \in DOMAIN tokens PROVE tokens[k] \in TokenSet
        BY <4>1
      <4> QED BY <4>1 DEF TypeAt, TokenSet
    <3> QED BY <3>1, <1>2, <2>3, <2>5 DEF AllTypes
  <2>7. Complete(tokens, 1)
    <3>1. ASSUME NEW i \in 1 .. Len(tokens) PROVE Local(tokens, i) /\ Single(tokens, i)
      <4>1. CASE i < k
        <5>1. i \in 1 .. k - 1
          BY <1>3, <4>1
        <5> QED BY <5>1, <1>2, <2>3, Harmless
      <4>2. CASE k <= i
        <5>1. i \in k .. m - 1
          BY <1>1, <1>3, <2>4, <4>2
        <5> QED BY <5>1, <2>2, <2>4 DEF Sound
      <4> QED BY <1>3, <4>1, <4>2
    <3> QED BY <3>1 DEF Complete
  <2> QED BY <1>9, <2>3, <2>6, <2>7, GrammaticalIs
<1>11. ASSUME Grammatical(query) PROVE Sane(Done(st))
  <2>1. /\ TypeAt(tokens, Following(tokens, 0)) \in Expr \cup Modifier \cup {"EOF"}
        /\ Complete(tokens, 1)
    BY <1>11, GrammaticalIs
  <2>2. Sane(start) /\ Complete(tokens, k)
    BY <1>2, <1>3, <2>1, CompleteHas
  <2>3. TypeAt(tokens, k) \notin Operator /\ TypeAt(tokens, k) # "COLON"
    BY <1>9, <2>1, <2>2 DEF Expr, Modifier, Operator
  <2>4. Sane(r)
    BY <1>4, <2>2, <2>3 DEF Leaves
  <2>5. PICK m \in k .. Len(tokens) + 1 : Sits(tokens, r, m) /\ TypeAt(tokens, m) = "EOF"
    BY <1>4, <2>2, <2>3, <2>4 DEF Leaves
  <2>6. At(r, {"EOF"}) /\ m = Len(tokens) + 1
    BY <2>5, SitsAt
  <2>7. Sane(e) /\ Sits(tokens, e, m)
    BY <1>6, <2>4, <2>5, <2>6
  <2>8. \A i \in m .. Len(tokens) : Calm(tokens, i)
    BY <1>1, <2>6
  <2> QED BY <1>7, <2>7, <2>8, SkipSits
<1> QED BY <1>10, <1>11

\* What is reported tells whether the query is in the language of the parser
\* (QueryParser.parse), for a query of any length over any characters.
LEMMA ParseIffGrammatical ==
  ASSUME query \in Seq(Characters)
  PROVE  Ignored(Parse(query).errors) /\ ~Parse(query).thrown <=> Grammatical(query)
<1> DEFINE st == [rest |-> Tokens(query), errors |-> <<>>, eof |-> Len(query), thrown |-> FALSE]
<1>1. PICK tokens \in Seq(TokenSet) : tokens = Tokens(query)
  BY TokensTiled DEF Tiled
<1>2. st \in States /\ st.rest = tokens /\ Sane(st)
  <2>1. States = [rest : Seq(TokenSet), errors : Seq(ErrorSet), eof : Nat, thrown : BOOLEAN]
    BY DEF States, TokenSet, ErrorSet
  <2>2. <<>> \in Seq(ErrorSet) /\ Len(query) \in Nat
    OBVIOUS
  <2>3. Ignored(<<>>)
    BY DEF Ignored
  <2>4. st.errors = <<>> /\ ~st.thrown
    OBVIOUS
  <2> QED BY <1>1, <2>1, <2>2, <2>3, <2>4 DEF Sane
<1>3. Parse(query) = ParsedTokens(st)
  BY DEF Parse
<1> HIDE DEF st
<1>4. Sits(tokens, st, 1)
  <2>1. Len(tokens) \in Nat
    BY <1>1
  <2>2. Len(st.rest) = Len(tokens) + 1 - 1 /\ 1 \in 1 .. Len(tokens) + 1
    BY <1>2, <2>1
  <2>3. \A i \in 1 .. Len(st.rest) : st.rest[i] = tokens[1 + i - 1]
    BY <1>2, <2>1
  <2> QED BY <1>2, <2>2, <2>3 DEF Sits
<1>5. Sane(Done(st)) <=> Grammatical(query)
  BY <1>1, <1>2, <1>4, DoneIffGrammatical
<1> QED BY <1>3, <1>5, ParseDone DEF Sane

-----------------------------------------------------------------------------
(* The query *)

\* The query is text, and parsed is what the parser makes of it.
TextInv == query \in Seq(Characters) /\ parsed = Parse(query)

\* TextInv is an invariant.
LEMMA TextInvariant == TextSpec => []TextInv
<1>1. TextInit => TextInv
  BY DEF TextInit, TextInv
<1>2. TextInv /\ [Edit]_text => TextInv'
  BY DEF TextInv, Edit, Parses, text
<1> QED BY <1>1, <1>2, PTL DEF TextSpec

\* TokensTile: whatever the query, its tokens are in order, none is empty and
\* none overlaps another; without escapes they cover the query.
THEOREM TokensTileAlways == TextSpec => []TokensTile
<1>1. TextInv => TokensTile
  <2> SUFFICES ASSUME query \in Seq(Characters) PROVE TokensTile
    BY DEF TextInv
  <2> DEFINE tokens == Tokens(query)
  <2>1. Tiled(query, 0, tokens)
    BY TokensTiled
  <2> HIDE DEF tokens
  <2>2. tokens \in Seq(TokenSet) /\ DOMAIN tokens = 1 .. Len(tokens)
    BY <2>1 DEF Tiled
  <2>3. Last(tokens) = tokens[Len(tokens)]
    BY DEF Last
  <2> QED BY <2>1, <2>2, <2>3 DEF Tiled, End, TokensTile, EscapeFree, tokens
<1> QED BY <1>1, TextInvariant, PTL

\* Wherever the parser is, its positions are in the query.
LEMMA ParsedWithin ==
  ASSUME NEW s \in Seq(Characters)
  PROVE  /\ Parse(s).errors \in Seq([position : 0 .. Len(s), message : Messages])
         /\ Parse(s).thrown \in BOOLEAN
<1> DEFINE st == [rest |-> Tokens(s), errors |-> <<>>, eof |-> Len(s), thrown |-> FALSE]
           start == SkipHidden(st)
           r == Items[start].st
           e == IF At(r, {"EOF"}) THEN r ELSE Recover(r, "parse", "unexpected")
           done == SkipHidden(e)
           Placed == [position : 0 .. Len(s), message : Messages]
<1>1. Tiled(s, 0, Tokens(s)) /\ Len(s) \in Nat
  BY TokensTiled
<1>2. /\ st \in States /\ st.rest = Tokens(s) /\ st.errors = <<>> /\ st.eof = Len(s)
  <2>1. States = [rest : Seq(TokenSet), errors : Seq(ErrorSet), eof : Nat, thrown : BOOLEAN]
    BY DEF States, TokenSet, ErrorSet
  <2>2. Tokens(s) \in Seq(TokenSet) /\ <<>> \in Seq(ErrorSet)
    BY <1>1 DEF Tiled
  <2> QED BY <1>1, <2>1, <2>2
<1>3. Within(st, Len(s))
  <2>1. 1 .. Len(<<>>) = {}
    OBVIOUS
  <2>2. \A i \in 1 .. Len(Tokens(s)) : Tokens(s)[i].begin <= Len(s)
    BY <1>1 DEF Tiled
  <2> HIDE DEF st
  <2> QED BY <1>1, <1>2, <2>1, <2>2 DEF Within
<1>4. Parse(s).errors = Done(st).errors /\ Parse(s).thrown = Done(st).thrown
  BY ParseDone DEF Parse
<1>5. Done(st) = done
  BY DEF Done
<1> HIDE DEF st
<1>6. Later(st, start)
  BY <1>2, SimplerStates
<1> HIDE DEF start
<1>7. Later(start, r)
  BY <1>6, ItemsLater DEF Later
<1> HIDE DEF r
<1>8. Later(r, e)
  <2>1. r \in States
    BY <1>7 DEF Later
  <2>2. Later(r, r)
    BY <2>1, StateParts DEF Later, Keeps
  <2>3. Later(r, Recover(r, "parse", "unexpected"))
    BY <2>1, SimplerStates DEF Messages
  <2> QED BY <2>2, <2>3
<1> HIDE DEF e
<1>9. Later(e, done)
  BY <1>8, SimplerStates DEF Later
<1> HIDE DEF done
<1>10. done \in States /\ Within(done, Len(s))
  BY <1>1, <1>3, <1>6, <1>7, <1>8, <1>9 DEF Later, Keeps
<1>11. done.errors \in Seq(ErrorSet) /\ done.thrown \in BOOLEAN
  BY <1>10, StateParts
<1>12. \A i \in 1 .. Len(done.errors) : done.errors[i] \in Placed
  <2> SUFFICES ASSUME NEW i \in 1 .. Len(done.errors) PROVE done.errors[i] \in Placed
    OBVIOUS
  <2>1. done.errors[i] \in ErrorSet /\ done.errors[i].position <= Len(s)
    BY <1>10, <1>11 DEF Within
  <2> QED BY <1>1, <2>1 DEF ErrorSet
<1>13. done.errors \in Seq(Placed)
  <2> HIDE DEF Placed
  <2> QED BY <1>11, <1>12
<1> QED BY <1>4, <1>5, <1>11, <1>13

\* TypeOK: wherever the parser reports an error, it is at a character of the
\* query or at its end (unexpectedToken and missingToken of QueryParser).
THEOREM ErrorsInTheQuery == TextSpec => []TypeOK
<1>1. TextInv => TypeOK
  BY ParsedWithin DEF TextInv, TypeOK
<1> QED BY <1>1, TextInvariant, PTL

\* AcceptsTheLanguage: whatever the query, the recursive descent
\* (QueryParser.parse) throws, or reports something other than a sign followed
\* by white space, exactly if the query is not in its language.
THEOREM AcceptsTheLanguageAlways == TextSpec => []AcceptsTheLanguage
<1>1. TextInv => AcceptsTheLanguage
  <2> SUFFICES ASSUME TextInv PROVE AcceptsTheLanguage
    OBVIOUS
  <2>1. query \in Seq(Characters) /\ parsed = Parse(query)
    BY DEF TextInv
  <2>2. Ignored(Parse(query).errors) /\ ~Parse(query).thrown <=> Grammatical(query)
    BY <2>1, ParseIffGrammatical
  <2>3. DOMAIN parsed.errors = 1 .. Len(parsed.errors)
    BY <2>1, ParsedWithin
  <2> QED BY <2>1, <2>2, <2>3 DEF AcceptsTheLanguage, Accepted, Ignored
<1> QED BY <1>1, TextInvariant, PTL

-----------------------------------------------------------------------------
(* Trees and their visitors *)

\* The recursive function of Trees is the one that its definition describes.
LEMMA TreesAre ==
  \A h \in Nat :
    Trees[h] = {Nothing} \cup LeafTrees \cup (IF h = 0 THEN {} ELSE Nested(Trees[h - 1]))
<1> DEFINE Is(f) == f = [h \in Nat |-> Rule("trees", Nothing, f, h)]
<1>3. \E f : Is(f)
  <2>1. PICK name, skip, D, id : name = "trees" /\ skip = Nothing /\ D = Nat /\ id = [h \in Nat |-> h]
    OBVIOUS
  <2>2. id \in [D -> Nat]
    BY <2>1
  <2>3. ASSUME NEW h \in D, NEW f, NEW g, AgreeBelow(f, g, D, id, h)
        PROVE  Rule(name, skip, f, h) = Rule(name, skip, g, h)
    <3>1. h # 0 => f[h - 1] = g[h - 1]
      BY <2>1, <2>3 DEF AgreeBelow
    <3> QED BY <2>1, <3>1 DEF Rule, TreesRule
  <2>4. LooksBelow(name, skip, D, id)
    BY <2>3 DEF LooksBelow
  <2>5. \E f : Described(name, skip, D, f)
    BY <2>2, <2>4, RuleExists
  <2> QED BY <2>1, <2>5 DEF Described
<1>4. Trees = CHOOSE f : Is(f)
  BY DEF Trees, Rule, TreesRule
<1>5. Is(Trees)
  <2> HIDE DEF Is
  <2> QED BY <1>3, <1>4
<1> QED BY <1>5 DEF Rule, TreesRule

\* The fields of each kind of trees.
LEMMA TreeKinds ==
  ASSUME NEW S, NEW t \in {Nothing} \cup LeafTrees \cup Nested(S)
  PROVE  /\ t.kind \in {"null", "term", "field", "missing", "modifier", "expression", "list"}
         /\ t.kind = "null" <=> t = Nothing
         /\ t \in LeafTrees <=> t.kind \in {"term", "field", "missing"}
         /\ t.kind # "null" =>
              t.prefix \in Seq(TokenSet) /\ t.suffix \in Seq(TokenSet)
         /\ t.kind \notin {"null", "list"} => t.body \in Seq(TokenSet)
         /\ t.kind \in {"modifier", "expression"} => t.right \in S
         /\ t.kind = "expression" => t.left \in S
         /\ t.kind = "list" => t.items \in Seq(S)
<1>1. CASE t = Nothing
  BY <1>1 DEF Nothing, LeafTrees
<1>2. CASE t \in LeafTrees
  BY <1>2 DEF LeafTrees, TokenSeq, TokenSet, Nothing
<1>3. CASE t \in Nested(S)
  BY <1>3 DEF Nested, TokenSeq, TokenSet, Nothing, LeafTrees
<1> QED BY <1>1, <1>2, <1>3

\* Trees with more trees to be nested in them are more.
LEMMA NestedGrows ==
  ASSUME NEW S, NEW T, S \subseteq T
  PROVE  Nested(S) \subseteq Nested(T)
<1>1. Seq(S) \subseteq Seq(T)
  OBVIOUS
<1> QED BY <1>1 DEF Nested

\* The higher trees include the lower.
LEMMA TreesGrow ==
  ASSUME NEW h \in Nat, NEW n \in Nat, h <= n
  PROVE  Trees[h] \subseteq Trees[n]
<1> DEFINE P(i) == Trees[i] \subseteq Trees[i + 1]
           T == {i \in Nat : P(i)}
           Q == {i \in Nat : Trees[h] \subseteq Trees[h + i]}
<1>1. 0 \in T
  BY TreesAre
<1>2. ASSUME NEW i \in Nat, i \in T PROVE i + 1 \in T
  <2>1. Nested(Trees[i]) \subseteq Nested(Trees[i + 1])
    BY <1>2, NestedGrows
  <2>2. Trees[i + 1] = {Nothing} \cup LeafTrees \cup Nested(Trees[i])
    <3>1. i + 1 \in Nat /\ i + 1 # 0 /\ (i + 1) - 1 = i
      OBVIOUS
    <3> QED BY <3>1, TreesAre
  <2>3. Trees[(i + 1) + 1] = {Nothing} \cup LeafTrees \cup Nested(Trees[i + 1])
    <3>1. (i + 1) + 1 \in Nat /\ (i + 1) + 1 # 0 /\ ((i + 1) + 1) - 1 = i + 1
      OBVIOUS
    <3> QED BY <3>1, TreesAre
  <2> QED BY <2>1, <2>2, <2>3
<1>3. Nat \subseteq T
  <2> HIDE DEF T
  <2> QED BY <1>1, <1>2, NatSetInduction
<1>4. 0 \in Q
  OBVIOUS
<1>5. ASSUME NEW i \in Nat, i \in Q PROVE i + 1 \in Q
  <2>1. Trees[h + i] \subseteq Trees[(h + i) + 1] /\ (h + i) + 1 = h + (i + 1)
    BY <1>3
  <2> QED BY <2>1, <1>5
<1>6. Nat \subseteq Q
  <2> HIDE DEF Q
  <2> QED BY <1>4, <1>5, NatSetInduction
<1>7. n - h \in Q /\ h + (n - h) = n
  BY <1>6
<1> QED BY <1>7

\* The trees inside a tree of a height are of a smaller height.
LEMMA Inside ==
  ASSUME NEW h \in Nat, NEW t \in Trees[h]
  PROVE  /\ h = 0 => t = Nothing \/ t \in LeafTrees
         /\ h # 0 => h - 1 \in Nat /\ t \in {Nothing} \cup LeafTrees \cup Nested(Trees[h - 1])
BY TreesAre

\* A tree with trees in it is one higher than these.
LEMMA NestedHigher ==
  ASSUME NEW h \in Nat
  PROVE  /\ Nothing \in Trees[h] /\ LeafTrees \subseteq Trees[h]
         /\ Nested(Trees[h]) \subseteq Trees[h + 1]
<1>1. h + 1 \in Nat /\ h + 1 # 0 /\ (h + 1) - 1 = h
  OBVIOUS
<1> QED BY <1>1, TreesAre

\* Every tree inside t is one of D and smaller.
Inner(D, size, t) ==
    /\ t.kind \in {"modifier", "expression"} => t.right \in D /\ size[t.right] < size[t]
    /\ t.kind = "expression" => t.left \in D /\ size[t.left] < size[t]
    /\ t.kind = "list" => \A i \in DOMAIN t.items : t.items[i] \in D /\ size[t.items[i]] < size[t]

\* Trees have a size that is less for each tree inside.
LEMMA TreeSizes ==
  ASSUME NEW N \in Nat
  PROVE  \E size \in [Trees[N] -> Nat] : \A t \in Trees[N] : Inner(Trees[N], size, t)
<1> DEFINE Heights(t) == {n \in Nat : t \in Trees[n]}
           Least(t, n) == n \in Heights(t) /\ \A m \in Heights(t) : n <= m
           size == [t \in Trees[N] |-> CHOOSE n : Least(t, n)]
<1>1. ASSUME NEW t \in Trees[N] PROVE Least(t, size[t])
  <2>1. Heights(t) \subseteq Nat /\ Heights(t) # {}
    OBVIOUS
  <2>2. \E n : Least(t, n)
    <3> HIDE DEF Heights
    <3> QED BY <2>1, LeastNat
  <2>3. size[t] = CHOOSE n : Least(t, n)
    OBVIOUS
  <2> HIDE DEF Least, size
  <2> QED BY <2>2, <2>3
<1>2. size \in [Trees[N] -> Nat]
  <2>1. \A t \in Trees[N] : size[t] \in Nat
    <3> HIDE DEF size
    <3> QED BY <1>1
  <2> QED BY <2>1
<1> HIDE DEF size
<1>3. ASSUME NEW t \in Trees[N], t \notin {Nothing} \cup LeafTrees
      PROVE  LET h == size[t] - 1
             IN  /\ h \in Nat /\ Trees[h] \subseteq Trees[N]
                 /\ t \in {Nothing} \cup LeafTrees \cup Nested(Trees[h])
                 /\ \A x \in Trees[h] : size[x] < size[t]
  <2> DEFINE h == size[t] - 1
  <2>1. size[t] \in Nat /\ t \in Trees[size[t]] /\ size[t] <= N
    BY <1>1
  <2>2. size[t] # 0 /\ h \in Nat /\ t \in {Nothing} \cup LeafTrees \cup Nested(Trees[h])
    BY <1>3, <2>1, Inside
  <2>3. h <= N
    BY <2>1
  <2> HIDE DEF h
  <2>4. Trees[h] \subseteq Trees[N]
    BY <2>2, <2>3, TreesGrow
  <2>5. ASSUME NEW x \in Trees[h] PROVE size[x] <= h
    BY <2>2, <2>4, <1>1
  <2>6. ASSUME NEW x \in Trees[h] PROVE size[x] < size[t]
    <3>1. size[x] \in Nat /\ size[x] <= h
      BY <2>4, <2>5, <1>1
    <3> QED BY <3>1, <2>1 DEF h
  <2> QED BY <2>2, <2>4, <2>6 DEF h
<1>4. ASSUME NEW t \in Trees[N] PROVE Inner(Trees[N], size, t)
  <2>1. CASE t \in {Nothing} \cup LeafTrees
    <3>1. t.kind \notin {"modifier", "expression", "list"}
      BY <2>1 DEF Nothing, LeafTrees
    <3> QED BY <3>1 DEF Inner
  <2>2. CASE t \notin {Nothing} \cup LeafTrees
    <3>1. PICK h : /\ Trees[h] \subseteq Trees[N]
                   /\ t \in {Nothing} \cup LeafTrees \cup Nested(Trees[h])
                   /\ \A x \in Trees[h] : size[x] < size[t]
      BY <1>3, <2>2
    <3>2. /\ t.kind \in {"modifier", "expression"} => t.right \in Trees[h]
          /\ t.kind = "expression" => t.left \in Trees[h]
          /\ t.kind = "list" => t.items \in Seq(Trees[h])
      BY <3>1, TreeKinds
    <3>3. t.kind = "list" => \A i \in DOMAIN t.items : t.items[i] \in Trees[h]
      BY <3>2
    <3> QED BY <3>1, <3>2, <3>3 DEF Inner
  <2> QED BY <2>1, <2>2
<1> QED BY <1>2, <1>4

\* What the visitors return of the items of a list.
DumpAll(s, items, skip) == FlattenSeq([i \in DOMAIN items |-> Dump(s, items[i], skip)])
SerializeAll(s, items) == FlattenSeq([i \in DOMAIN items |-> Serialize(s, items[i])])

\* The visitors look at smaller trees only.
LEMMA VisitorExists ==
  ASSUME NEW N \in Nat, NEW name \in {"dump", "serialize"}, NEW skip
  PROVE  \E f : f = [t \in Trees[N] |-> Rule(name, skip, f, t)]
<1>1. PICK D : D = Trees[N]
  OBVIOUS
<1>2. PICK size \in [D -> Nat] : \A t \in D : Inner(D, size, t)
  BY <1>1, TreeSizes
<1>3. ASSUME NEW t \in D, NEW f, NEW g, AgreeBelow(f, g, D, size, t)
      PROVE  Rule(name, skip, f, t) = Rule(name, skip, g, t)
  <2>1. /\ t.kind \in {"modifier", "expression"} => f[t.right] = g[t.right]
        /\ t.kind = "expression" => f[t.left] = g[t.left]
        /\ t.kind = "list" => \A i \in DOMAIN t.items : f[t.items[i]] = g[t.items[i]]
    BY <1>2, <1>3 DEF Inner, AgreeBelow
  <2>2. t.kind = "list" => [i \in DOMAIN t.items |-> f[t.items[i]]] = [i \in DOMAIN t.items |-> g[t.items[i]]]
    BY <2>1
  <2>3. DumpRule(skip, f, t) = DumpRule(skip, g, t)
    BY <2>1, <2>2 DEF DumpRule, DumpOf
  <2>4. SerializeOf(f, t) = SerializeOf(g, t)
    BY <2>1, <2>2 DEF SerializeOf
  <2> QED BY <2>3, <2>4 DEF Rule
<1>4. size \in [D -> Nat] /\ LooksBelow(name, skip, D, size)
  BY <1>3 DEF LooksBelow
<1>5. \E f : Described(name, skip, D, f)
  BY <1>4, RuleExists, Zenon
<1> QED BY <1>1, <1>5 DEF Described

\* The rules of DumpVisitor, kind by kind.
DumpRules(s, skip, t) ==
    /\ t = skip => Dump(s, t, skip) = <<>>
    /\ t.kind = "null" => Dump(s, t, skip) = <<>>
    /\ t # skip /\ t.kind = "modifier" => Dump(s, t, skip) = t.body \o Dump(s, t.right, skip)
    /\ t # skip /\ t.kind = "expression" =>
         Dump(s, t, skip) = t.prefix \o Dump(s, t.left, skip) \o t.body \o Dump(s, t.right, skip) \o t.suffix
    /\ t # skip /\ t.kind = "list" =>
         Dump(s, t, skip) = t.prefix \o DumpAll(s, t.items, skip) \o t.suffix
    /\ t # skip /\ t.kind \in {"term", "field", "missing"} =>
         Dump(s, t, skip) = t.prefix \o t.body \o t.suffix

\* What DumpVisitor writes of a tree (Dump) obeys them.
LEMMA DumpIs ==
  ASSUME NEW s, Len(s) \in Nat, NEW skip, NEW t \in TreesOf(s)
  PROVE  DumpRules(s, skip, t)
<1> DEFINE Is(f) == f = [x \in TreesOf(s) |-> DumpRule(skip, f, x)]
           dump == CHOOSE f : Is(f)
<1>1. Len(s) + 2 \in Nat
  OBVIOUS
<1>2. \E f : Is(f)
  <2>1. \E f : f = [x \in TreesOf(s) |-> Rule("dump", skip, f, x)]
    BY <1>1, VisitorExists DEF TreesOf
  <2>2. \A f, x : Rule("dump", skip, f, x) = DumpRule(skip, f, x)
    BY DEF Rule
  <2> QED BY <2>1, <2>2
<1>3. Is(dump)
  <2> HIDE DEF Is
  <2> QED BY <1>2
<1>4. dump[t] = DumpRule(skip, dump, t)
  <2> HIDE DEF dump
  <2> QED BY <1>3
<1>5. \A x : Dump(s, x, skip) = dump[x]
  BY DEF Dump, DumpRule
<1>6. DumpAll(s, t.items, skip) = FlattenSeq([i \in DOMAIN t.items |-> dump[t.items[i]]])
  <2> HIDE DEF dump
  <2> QED BY <1>5 DEF DumpAll
<1> HIDE DEF dump
<1>7. Dump(s, t, skip) = dump[t] /\ Dump(s, t.left, skip) = dump[t.left] /\ Dump(s, t.right, skip) = dump[t.right]
  <2>1. Dump(s, t, skip) = dump[t]
    BY <1>5, Zenon
  <2>2. Dump(s, t.left, skip) = dump[t.left]
    BY <1>5, Zenon
  <2>3. Dump(s, t.right, skip) = dump[t.right]
    BY <1>5, Zenon
  <2> QED BY <2>1, <2>2, <2>3, Zenon
<1> QED BY <1>4, <1>6, <1>7 DEF DumpRules, DumpRule, DumpOf

\* The rules of SerializeVisitor, kind by kind.
LEMMA SerializeIs ==
  ASSUME NEW s, Len(s) \in Nat, NEW t \in TreesOf(s)
  PROVE  /\ t.kind = "null" => Serialize(s, t) = <<>>
         /\ t.kind = "modifier" => Serialize(s, t) = <<t>> \o Serialize(s, t.right)
         /\ t.kind = "expression" =>
              Serialize(s, t) = Serialize(s, t.left) \o <<t>> \o Serialize(s, t.right)
         /\ t.kind = "list" => Serialize(s, t) = <<t>> \o SerializeAll(s, t.items)
         /\ t.kind \in {"term", "field", "missing"} => Serialize(s, t) = <<t>>
<1> DEFINE Is(f) == f = [x \in TreesOf(s) |-> SerializeOf(f, x)]
           serialize == CHOOSE f : Is(f)
<1>1. Len(s) + 2 \in Nat
  OBVIOUS
<1>2. \E f : Is(f)
  <2>1. \E f : f = [x \in TreesOf(s) |-> Rule("serialize", Nothing, f, x)]
    BY <1>1, VisitorExists DEF TreesOf
  <2>2. \A f, x : Rule("serialize", Nothing, f, x) = SerializeOf(f, x)
    BY DEF Rule
  <2> QED BY <2>1, <2>2
<1>3. Is(serialize)
  <2> HIDE DEF Is
  <2> QED BY <1>2
<1>4. serialize[t] = SerializeOf(serialize, t)
  <2> HIDE DEF serialize
  <2> QED BY <1>3
<1>5. \A x : Serialize(s, x) = serialize[x]
  BY DEF Serialize
<1>6. SerializeAll(s, t.items) = FlattenSeq([i \in DOMAIN t.items |-> serialize[t.items[i]]])
  <2> HIDE DEF serialize
  <2> QED BY <1>5 DEF SerializeAll
<1> HIDE DEF serialize
<1>7. Serialize(s, t) = serialize[t] /\ Serialize(s, t.left) = serialize[t.left] /\ Serialize(s, t.right) = serialize[t.right]
  BY <1>5
<1> QED BY <1>4, <1>6, <1>7 DEF SerializeOf

-----------------------------------------------------------------------------
(* Tokens in order *)

\* Each token ends after it begins, and before the next begins.
Ordered(tokens) ==
    /\ tokens \in Seq(TokenSet)
    /\ \A i \in 1 .. Len(tokens) : tokens[i].begin < tokens[i].end
    /\ \A i, j \in 1 .. Len(tokens) : i < j => tokens[i].end <= tokens[j].begin

\* The tokens of a query are in order, and as many as its characters at most,
\* but for one.
LEMMA TokensOrdered ==
  ASSUME NEW s \in Seq(Characters)
  PROVE  Ordered(Tokens(s)) /\ Len(Tokens(s)) <= Len(s) + 1
<1> DEFINE tokens == Tokens(s)
           N == Len(tokens)
           P(d) == \A i \in 1 .. N : i + d + 1 <= N => tokens[i].end <= tokens[i + d + 1].begin
           T == {d \in Nat : P(d)}
           Q == {i \in Nat : i + 1 <= N => i <= tokens[i + 1].begin}
<1>1. Tiled(s, 0, tokens)
  BY TokensTiled
<1>2. tokens \in Seq(TokenSet) /\ N \in Nat /\ Len(s) \in Nat
  BY <1>1 DEF Tiled
<1>3. \A i \in 1 .. N : tokens[i].begin \in Nat /\ tokens[i].end \in Nat
  <2>1. \A i \in 1 .. N : tokens[i] \in TokenSet
    BY <1>2
  <2> QED BY <2>1 DEF TokenSet
<1>4. \A i \in 1 .. N : /\ tokens[i].begin < tokens[i].end /\ tokens[i].begin <= Len(s)
                        /\ i # 1 => tokens[i - 1].end <= tokens[i].begin
  BY <1>1 DEF Tiled, End
<1> HIDE DEF tokens, N
<1>5. 0 \in T
  <2>1. ASSUME NEW i \in 1 .. N, i + 0 + 1 <= N PROVE tokens[i].end <= tokens[i + 0 + 1].begin
    <3>1. PICK j : j = i + 0 + 1
      OBVIOUS
    <3>2. j \in 1 .. N /\ j # 1 /\ j - 1 = i
      BY <1>2, <2>1, <3>1
    <3> QED BY <1>4, <3>1, <3>2
  <2> QED BY <2>1
<1>6. ASSUME NEW d \in Nat, d \in T PROVE d + 1 \in T
  <2>1. ASSUME NEW i \in 1 .. N, i + (d + 1) + 1 <= N
        PROVE  tokens[i].end <= tokens[i + (d + 1) + 1].begin
    <3>1. PICK j : j = i + (d + 1) + 1
      OBVIOUS
    <3>2. PICK l : l = i + d + 1
      OBVIOUS
    <3>3. j \in 1 .. N /\ j # 1 /\ j - 1 = l /\ l \in 1 .. N /\ i + d + 1 <= N
      BY <1>2, <2>1, <3>1, <3>2
    <3>4. tokens[i].end <= tokens[l].begin
      BY <1>6, <3>2, <3>3
    <3>5. tokens[l].begin < tokens[l].end /\ tokens[l].end <= tokens[j].begin
      BY <1>4, <3>3
    <3>6. tokens[i].end <= tokens[j].begin
      BY <1>3, <3>3, <3>4, <3>5, SMTT(40)
    <3> QED BY <3>1, <3>6
  <2> QED BY <2>1
<1>7. Nat \subseteq T
  <2> HIDE DEF T
  <2> QED BY <1>5, <1>6, NatSetInduction
<1>8. ASSUME NEW i \in 1 .. N, NEW j \in 1 .. N, i < j PROVE tokens[i].end <= tokens[j].begin
  <2>1. PICK d : d = j - i - 1
    OBVIOUS
  <2>2. d \in Nat /\ i + d + 1 = j /\ i + d + 1 <= N
    BY <1>2, <1>8, <2>1
  <2>3. P(d)
    BY <1>7, <2>2
  <2> QED BY <2>2, <2>3
<1>9. 0 \in Q
  <2>1. 0 + 1 <= N => 0 <= tokens[0 + 1].begin
    <3>1. 0 + 1 = 1 /\ (1 <= N => 1 \in 1 .. N)
      BY <1>2
    <3> QED BY <3>1, <1>3
  <2> QED BY <2>1
<1>10. ASSUME NEW i \in Nat, i \in Q PROVE i + 1 \in Q
  <2>1. ASSUME (i + 1) + 1 <= N PROVE i + 1 <= tokens[(i + 1) + 1].begin
    <3>1. PICK j : j = (i + 1) + 1
      OBVIOUS
    <3>2. PICK l : l = i + 1
      OBVIOUS
    <3>3. j \in 1 .. N /\ j # 1 /\ j - 1 = l /\ l \in 1 .. N /\ i + 1 <= N
      BY <1>2, <2>1, <3>1, <3>2
    <3>4. i <= tokens[l].begin
      BY <1>10, <3>2, <3>3
    <3>5. tokens[l].begin < tokens[l].end /\ tokens[l].end <= tokens[j].begin
      BY <1>4, <3>3
    <3>6. i + 1 <= tokens[j].begin
      BY <1>3, <3>3, <3>4, <3>5, SMTT(40)
    <3> QED BY <3>1, <3>6
  <2> QED BY <2>1
<1>11. Nat \subseteq Q
  <2> HIDE DEF Q
  <2> QED BY <1>9, <1>10, NatSetInduction
<1>12. N <= Len(s) + 1
  <2>1. CASE N = 0
    BY <2>1, <1>2
  <2>2. CASE N # 0
    <3>1. PICK i : i = N - 1
      OBVIOUS
    <3>2. i \in Nat /\ i + 1 = N /\ i + 1 <= N /\ N \in 1 .. N
      BY <1>2, <2>2, <3>1
    <3>3. i <= tokens[N].begin
      BY <1>11, <3>2
    <3> QED BY <1>2, <1>3, <1>4, <3>2, <3>3
  <2> QED BY <2>1, <2>2
<1> QED BY <1>2, <1>4, <1>8, <1>12 DEF Ordered, tokens, N

\* Tokens of those from the kth to the one before the mth, each once and in
\* order.
InOrder(tokens, k, m, d) ==
    /\ k \in 1 .. Len(tokens) + 1 /\ m \in k .. Len(tokens) + 1
    /\ d \in Seq(TokenSet)
    /\ \A i \in 1 .. Len(d) : \E j \in k .. m - 1 : d[i] = tokens[j]
    /\ \A i \in 1 .. Len(d) : i # 1 => d[i - 1].end <= d[i].begin

\* A slice of the tokens is in order.
LEMMA SliceInOrder ==
  ASSUME NEW tokens, Ordered(tokens), NEW k \in 1 .. Len(tokens) + 1,
         NEW m \in k .. Len(tokens) + 1
  PROVE  InOrder(tokens, k, m, Slice(tokens, k, m))
<1> DEFINE d == Slice(tokens, k, m)
<1>1. tokens \in Seq(TokenSet) /\ Len(tokens) \in Nat
  BY DEF Ordered
<1>2. k \in Nat /\ m \in Nat /\ 1 <= k /\ k <= m /\ m <= Len(tokens) + 1
  BY <1>1
<1>3. /\ d \in Seq(TokenSet) /\ Len(d) = m - k
      /\ \A i \in 1 .. m - k : d[i] = tokens[k + i - 1] /\ k + i - 1 \in k .. m - 1
  <2> HIDE DEF d
  <2> QED BY <1>1, <1>2, SliceIs DEF d
<1> HIDE DEF d
<1>4. ASSUME NEW i \in 1 .. Len(d), i # 1 PROVE d[i - 1].end <= d[i].begin
  <2>1. PICK j : j = k + i - 1
    OBVIOUS
  <2>2. PICK h : h = i - 1
    OBVIOUS
  <2>3. /\ j \in 1 .. Len(tokens) /\ j - 1 \in 1 .. Len(tokens) /\ j - 1 < j
        /\ h \in 1 .. m - k /\ k + h - 1 = j - 1
    BY <1>1, <1>2, <1>3, <1>4, <2>1, <2>2
  <2>4. d[i] = tokens[j] /\ d[h] = tokens[j - 1]
    BY <1>3, <2>1, <2>3
  <2>5. tokens[j - 1].end <= tokens[j].begin
    BY <2>3 DEF Ordered
  <2> QED BY <2>2, <2>4, <2>5
<1>5. ASSUME NEW i \in 1 .. Len(d) PROVE \E j \in k .. m - 1 : d[i] = tokens[j]
  BY <1>3
<1>6. InOrder(tokens, k, m, d)
  BY <1>3, <1>4, <1>5 DEF InOrder
<1> QED BY <1>6 DEF d

\* Tokens in order that follow others in order.
LEMMA InOrderJoins ==
  ASSUME NEW tokens, Ordered(tokens), NEW k, NEW m, NEW n, NEW l, NEW a, NEW b,
         InOrder(tokens, k, m, a), InOrder(tokens, n, l, b), m <= n
  PROVE  InOrder(tokens, k, l, a \o b)
<1>1. tokens \in Seq(TokenSet) /\ Len(tokens) \in Nat
  BY DEF Ordered
<1>2. /\ k \in Nat /\ m \in Nat /\ n \in Nat /\ l \in Nat
      /\ 1 <= k /\ k <= m /\ n <= l /\ l <= Len(tokens) + 1
      /\ a \in Seq(TokenSet) /\ b \in Seq(TokenSet)
  BY <1>1 DEF InOrder
<1>3. /\ a \o b \in Seq(TokenSet) /\ Len(a \o b) = Len(a) + Len(b)
      /\ \A i \in 1 .. Len(a) : (a \o b)[i] = a[i]
      /\ \A i \in Len(a) + 1 .. Len(a) + Len(b) : (a \o b)[i] = b[i - Len(a)]
      /\ Len(a) \in Nat /\ Len(b) \in Nat
  BY <1>2, ConcatIs
<1> DEFINE d == a \o b
           A == Len(a)
           B == Len(b)
<1>4. /\ d \in Seq(TokenSet) /\ Len(d) = A + B /\ A \in Nat /\ B \in Nat
      /\ \A i \in 1 .. A : d[i] = a[i]
      /\ \A i \in A + 1 .. A + B : d[i] = b[i - A]
  BY <1>3
<1>5. /\ \A i \in 1 .. A : \E j \in k .. m - 1 : a[i] = tokens[j]
      /\ \A i \in 1 .. A : i # 1 => a[i - 1].end <= a[i].begin
      /\ \A i \in 1 .. B : \E j \in n .. l - 1 : b[i] = tokens[j]
      /\ \A i \in 1 .. B : i # 1 => b[i - 1].end <= b[i].begin
  BY DEF InOrder
<1> HIDE DEF d, A, B
<1>6. ASSUME NEW i \in 1 .. Len(d) PROVE \E j \in k .. l - 1 : d[i] = tokens[j]
  <2>1. CASE i \in 1 .. A
    <3>1. PICK j \in k .. m - 1 : a[i] = tokens[j]
      BY <1>5, <2>1
    <3>2. j \in k .. l - 1
      BY <1>2
    <3> QED BY <3>1, <3>2, <2>1, <1>4
  <2>2. CASE i \notin 1 .. A
    <3>1. PICK h : h = i - A
      OBVIOUS
    <3>2. h \in 1 .. B /\ i \in A + 1 .. A + B
      BY <1>4, <2>2, <3>1
    <3>3. PICK j \in n .. l - 1 : b[h] = tokens[j]
      BY <1>5, <3>2
    <3>4. j \in k .. l - 1
      BY <1>2
    <3> QED BY <3>1, <3>2, <3>3, <3>4, <1>4
  <2> QED BY <2>1, <2>2
<1>7. ASSUME NEW i \in 1 .. Len(d), i # 1 PROVE d[i - 1].end <= d[i].begin
  <2>0. PICK g : g = i - 1
    OBVIOUS
  <2>1. CASE i \in 1 .. A
    <3>1. g \in 1 .. A
      BY <1>4, <1>7, <2>0, <2>1
    <3> QED BY <3>1, <2>0, <2>1, <1>4, <1>5, <1>7
  <2>2. CASE i = A + 1
    <3>1. g = A /\ A \in 1 .. A /\ 1 \in 1 .. B /\ i - A = 1 /\ i \in A + 1 .. A + B
      BY <1>4, <1>7, <2>0, <2>2
    <3>2. PICK j \in k .. m - 1 : a[A] = tokens[j]
      BY <1>5, <3>1
    <3>3. PICK h \in n .. l - 1 : b[1] = tokens[h]
      BY <1>5, <3>1
    <3>4. j \in 1 .. Len(tokens) /\ h \in 1 .. Len(tokens) /\ j < h
      BY <1>1, <1>2, SMTT(40)
    <3>5. tokens[j].end <= tokens[h].begin
      BY <3>4 DEF Ordered
    <3>6. d[g] = a[A] /\ d[i] = b[1]
      BY <3>1, <1>4
    <3> QED BY <3>2, <3>3, <3>5, <3>6, <2>0
  <2>3. CASE i \notin 1 .. A + 1
    <3>1. PICK h : h = i - A
      OBVIOUS
    <3>2. /\ h \in 1 .. B /\ h # 1 /\ i \in A + 1 .. A + B
          /\ g \in A + 1 .. A + B /\ g - A = h - 1
      BY <1>4, <2>3, <3>1, <2>0
    <3>3. d[i] = b[h] /\ d[g] = b[h - 1]
      BY <3>1, <3>2, <1>4
    <3> QED BY <3>2, <3>3, <1>5, <2>0
  <2> QED BY <2>1, <2>2, <2>3, <1>4
<1>8. k \in 1 .. Len(tokens) + 1 /\ l \in k .. Len(tokens) + 1
  BY <1>1, <1>2
<1>9. InOrder(tokens, k, l, d)
  BY <1>4, <1>6, <1>7, <1>8 DEF InOrder
<1> QED BY <1>9 DEF d

\* The same tokens, between others.
LEMMA InOrderBetween ==
  ASSUME NEW tokens, Ordered(tokens), NEW k, NEW m, NEW d, InOrder(tokens, k, m, d),
         NEW h \in 1 .. k, NEW l \in m .. Len(tokens) + 1
  PROVE  InOrder(tokens, h, l, d)
<1>1. tokens \in Seq(TokenSet) /\ Len(tokens) \in Nat
  BY DEF Ordered
<1>2. k \in Nat /\ m \in Nat /\ h \in Nat /\ l \in Nat
  BY <1>1 DEF InOrder
<1>3. \A j \in k .. m - 1 : j \in h .. l - 1
  BY <1>1, <1>2
<1>4. h \in 1 .. Len(tokens) + 1 /\ l \in h .. Len(tokens) + 1
  BY <1>1, <1>2 DEF InOrder
<1> QED BY <1>3, <1>4 DEF InOrder

\* No tokens are in order.
LEMMA NoneInOrder ==
  ASSUME NEW tokens, Ordered(tokens), NEW k \in 1 .. Len(tokens) + 1,
         NEW m \in k .. Len(tokens) + 1
  PROVE  InOrder(tokens, k, m, <<>>)
BY DEF InOrder

-----------------------------------------------------------------------------
(* What is taken of the tokens, and what is left *)

\* In order, and all of them, unless something was reported until st.
Part(tokens, k, m, d, st) ==
    /\ InOrder(tokens, k, m, d)
    /\ Fine(st) => d = Slice(tokens, k, m)

\* Where a part of the tokens begins and ends.
LEMMA PartBounds ==
  ASSUME NEW tokens, Ordered(tokens), NEW k, NEW m, NEW d, InOrder(tokens, k, m, d)
  PROVE  /\ tokens \in Seq(TokenSet) /\ Len(tokens) \in Nat /\ k \in Nat /\ m \in Nat
         /\ 1 <= k /\ k <= m /\ m <= Len(tokens) + 1 /\ d \in Seq(TokenSet)
<1>1. tokens \in Seq(TokenSet) /\ Len(tokens) \in Nat
  BY DEF Ordered
<1> QED BY <1>1 DEF InOrder

\* Two parts, one after the other, are one.
LEMMA PartJoins ==
  ASSUME NEW tokens, Ordered(tokens), NEW k, NEW m, NEW n, NEW l, NEW a, NEW b, NEW x, NEW y,
         Part(tokens, k, m, a, x), Part(tokens, n, l, b, y), m <= n,
         NEW z, Fine(z) => Fine(x) /\ Fine(y) /\ m = n
  PROVE  Part(tokens, k, l, a \o b, z)
<1>1. InOrder(tokens, k, l, a \o b)
  BY InOrderJoins DEF Part
<1>2. /\ tokens \in Seq(TokenSet) /\ k \in Nat /\ m \in Nat /\ n \in Nat /\ l \in Nat
      /\ 1 <= k /\ k <= m /\ n <= l /\ l <= Len(tokens) + 1
  BY PartBounds DEF Part
<1>3. ASSUME m = n PROVE Slice(tokens, k, m) \o Slice(tokens, n, l) = Slice(tokens, k, l)
  BY <1>2, <1>3, SliceJoin
<1>4. ASSUME Fine(z) PROVE a \o b = Slice(tokens, k, l)
  BY <1>3, <1>4 DEF Part
<1> QED BY <1>1, <1>4 DEF Part

\* A slice is a part.
LEMMA SlicePart ==
  ASSUME NEW tokens, Ordered(tokens), NEW k \in 1 .. Len(tokens) + 1,
         NEW m \in k .. Len(tokens) + 1, NEW st
  PROVE  Part(tokens, k, m, Slice(tokens, k, m), st)
BY SliceInOrder DEF Part

\* No tokens are a part, of no tokens unless an error is reported.
LEMMA NonePart ==
  ASSUME NEW tokens, Ordered(tokens), NEW k \in 1 .. Len(tokens) + 1,
         NEW m \in k .. Len(tokens) + 1, NEW st, Fine(st) => k = m
  PROVE  Part(tokens, k, m, <<>>, st)
<1>1. tokens \in Seq(TokenSet) /\ Len(tokens) \in Nat
  BY DEF Ordered
<1>2. k = m => Slice(tokens, k, m) = <<>>
  BY <1>1 DEF Slice
<1>3. InOrder(tokens, k, m, <<>>)
  BY NoneInOrder
<1> QED BY <1>2, <1>3 DEF Part

\* What is left after some of the tokens.
LEMMA RestSits ==
  ASSUME NEW tokens, tokens \in Seq(TokenSet), NEW st, NEW k, Sits(tokens, st, k), NEW r \in States,
         NEW n \in 0 .. Len(st.rest), Len(r.rest) = Len(st.rest) - n,
         \A i \in 1 .. Len(r.rest) : r.rest[i] = st.rest[n + i]
  PROVE  k + n \in k .. Len(tokens) + 1 /\ Sits(tokens, r, k + n)
<1>1. /\ k \in Nat /\ k >= 1 /\ k <= Len(tokens) + 1 /\ Len(tokens) \in Nat /\ st \in States
      /\ Len(st.rest) = Len(tokens) + 1 - k
      /\ \A i \in 1 .. Len(st.rest) : st.rest[i] = tokens[k + i - 1]
  BY DEF Sits
<1>2. PICK m : m = k + n
  OBVIOUS
<1>3. m \in k .. Len(tokens) + 1 /\ m \in 1 .. Len(tokens) + 1 /\ Len(r.rest) = Len(tokens) + 1 - m
  BY <1>1, <1>2
<1>4. ASSUME NEW i \in 1 .. Len(r.rest) PROVE r.rest[i] = tokens[m + i - 1]
  <2>1. PICK j : j = n + i
    OBVIOUS
  <2>2. j \in 1 .. Len(st.rest) /\ k + j - 1 = m + i - 1
    BY <1>1, <1>2, <1>3, <2>1
  <2> QED BY <1>1, <2>1, <2>2
<1> QED BY <1>2, <1>3, <1>4 DEF Sits

\* The hidden tokens at a state, and the token behind them.
LEMMA HiddenPart ==
  ASSUME NEW tokens, Ordered(tokens), NEW st, NEW k, Sits(tokens, st, k)
  PROVE  \E m \in k .. Len(tokens) + 1 :
           /\ Sits(tokens, SkipHidden(st), m) /\ TypeAt(tokens, m) \notin Hidden
           /\ TypeAt(tokens, k) \notin Hidden => m = k
           /\ HiddenAt(st) = Slice(tokens, k, m)
           /\ Fine(SkipHidden(st)) =>
                Fine(st) /\ \A i \in k .. m - 1 : TypeAt(tokens, i) = "WS"
<1>1. tokens \in Seq(TokenSet) /\ Len(tokens) \in Nat
  BY DEF Ordered
<1>2. /\ k \in Nat /\ k >= 1 /\ k <= Len(tokens) + 1 /\ st \in States
      /\ Len(st.rest) = Len(tokens) + 1 - k
      /\ \A i \in 1 .. Len(st.rest) : st.rest[i] = tokens[k + i - 1]
  BY <1>1 DEF Sits
<1>3. PICK m \in k .. Len(tokens) + 1 :
           /\ Sits(tokens, SkipHidden(st), m) /\ TypeAt(tokens, m) \notin Hidden
           /\ TypeAt(tokens, k) \notin Hidden => m = k
           /\ Fine(SkipHidden(st)) =>
                Fine(st) /\ \A i \in k .. m - 1 : TypeAt(tokens, i) = "WS"
  BY <1>1, SkipSits
<1>4. Len(SkipHidden(st).rest) = Len(st.rest) - Leading(st, Hidden)
  BY <1>2, SkipHiddenState
<1>5. Len(SkipHidden(st).rest) = Len(tokens) + 1 - m /\ m \in Nat
  BY <1>1, <1>2, <1>3 DEF Sits
<1>6. Leading(st, Hidden) \in 0 .. Len(st.rest) /\ st.rest \in Seq(TokenSet)
  BY <1>2, LeadingIs, StateParts
<1>7. Leading(st, Hidden) = m - k
  <2>1. PICK n, l, r, N : /\ n = Leading(st, Hidden) /\ l = Len(st.rest)
                          /\ r = Len(SkipHidden(st).rest) /\ N = Len(tokens)
    OBVIOUS
  <2>2. /\ n \in Nat /\ l = N + 1 - k /\ r = N + 1 - m /\ r = l - n
        /\ N \in Nat /\ k \in Nat /\ m \in Nat
    BY <2>1, <1>1, <1>2, <1>4, <1>5, <1>6, SMTT(40)
  <2>3. n = m - k
    BY <2>2
  <2> QED BY <2>1, <2>3
<1>8. HiddenAt(st) = SubSeq(st.rest, 1, m - k)
  BY <1>7 DEF HiddenAt, Skipped
<1>9. /\ HiddenAt(st) \in Seq(TokenSet) /\ Len(HiddenAt(st)) = m - k
      /\ \A i \in 1 .. m - k : HiddenAt(st)[i] = st.rest[i] /\ i \in 1 .. Len(st.rest)
  <2> HIDE DEF HiddenAt
  <2>1. m - k \in 0 .. Len(st.rest)
    BY <1>6, <1>7
  <2> QED BY <1>6, <1>8, <2>1
<1>10. /\ Slice(tokens, k, m) \in Seq(TokenSet) /\ Len(Slice(tokens, k, m)) = m - k
       /\ \A i \in 1 .. m - k : Slice(tokens, k, m)[i] = tokens[k + i - 1]
  <2>1. m <= Len(tokens) + 1 /\ k <= m
    BY <1>1, <1>2
  <2> QED BY <1>1, <1>2, <1>5, <2>1, SliceIs
<1>11. HiddenAt(st) = Slice(tokens, k, m)
  <2>1. \A i \in 1 .. Len(HiddenAt(st)) : HiddenAt(st)[i] = Slice(tokens, k, m)[i]
    BY <1>2, <1>9, <1>10
  <2>2. Len(HiddenAt(st)) = Len(Slice(tokens, k, m))
    BY <1>9, <1>10
  <2> QED BY <1>9, <1>10, <2>1, <2>2, SameElements
<1> QED BY <1>3, <1>11

\* A token that is taken, and the spaces that are taken with it.
LEMMA TakenPart ==
  ASSUME NEW tokens, Ordered(tokens), NEW st, NEW k, Sits(tokens, st, k),
         TypeAt(tokens, k) # "EOF"
  PROVE  \E m \in k + 1 .. Len(tokens) + 1 :
           /\ Sits(tokens, Taken(st).st, m) /\ TypeAt(tokens, m) \notin Hidden
           /\ k \in 1 .. Len(tokens) /\ Taken(st).token = tokens[k]
           /\ <<Taken(st).token>> = Slice(tokens, k, k + 1)
           /\ Taken(st).spaces = Slice(tokens, k + 1, m)
           /\ <<Taken(st).token>> \o Taken(st).spaces = Slice(tokens, k, m)
           /\ Fine(Taken(st).st) => Fine(st)
<1>1. tokens \in Seq(TokenSet) /\ Len(tokens) \in Nat
  BY DEF Ordered
<1>2. /\ k \in Nat /\ k >= 1 /\ k <= Len(tokens) + 1 /\ st \in States /\ k # Len(tokens) + 1
      /\ st.rest # <<>>
  BY <1>1, SitsAt
<1>3. k <= Len(tokens) /\ k \in 1 .. Len(tokens)
  BY <1>1, <1>2
<1>4. Sits(tokens, Consume(st), k + 1) /\ (Fine(Consume(st)) <=> Fine(st))
  BY <1>1, <1>3, ConsumeSits
<1>5. PICK m \in k + 1 .. Len(tokens) + 1 :
           /\ Sits(tokens, SkipHidden(Consume(st)), m) /\ TypeAt(tokens, m) \notin Hidden
           /\ HiddenAt(Consume(st)) = Slice(tokens, k + 1, m)
           /\ Fine(SkipHidden(Consume(st))) => Fine(Consume(st))
  BY <1>4, HiddenPart
<1>6. /\ Taken(st).st = SkipHidden(Consume(st)) /\ Taken(st).spaces = HiddenAt(Consume(st))
      /\ Taken(st).token = LookAhead(st)
  BY DEF Taken
<1>7. LookAhead(st) = tokens[k]
  <2>1. Len(st.rest) >= 1 /\ LookAhead(st) = st.rest[1]
    BY <1>2, LookAheadToken
  <2>2. 1 \in 1 .. Len(st.rest) /\ k + 1 - 1 = k
    BY <1>2, <2>1, StateParts
  <2>3. st.rest[1] = tokens[k + 1 - 1]
    BY <2>2 DEF Sits
  <2> QED BY <2>1, <2>2, <2>3
<1>8. <<tokens[k]>> = Slice(tokens, k, k + 1)
  BY <1>1, <1>3, SliceOne
<1>9. Slice(tokens, k, k + 1) \o Slice(tokens, k + 1, m) = Slice(tokens, k, m)
  <2>1. k + 1 \in Nat /\ m \in Nat /\ k <= k + 1 /\ k + 1 <= m /\ m <= Len(tokens) + 1
    BY <1>1, <1>2, <1>5
  <2> QED BY <1>1, <1>2, <2>1, SliceJoin, ZenonT(60)
<1> QED BY <1>3, <1>4, <1>5, <1>6, <1>7, <1>8, <1>9

\* Recovering leads to a later token, with an error.
LEMMA RecoverSits ==
  ASSUME NEW tokens, Ordered(tokens), NEW st, NEW k, Sits(tokens, st, k),
         NEW rule, NEW message \in Messages
  PROVE  \E m \in k .. Len(tokens) + 1 :
           /\ Sits(tokens, Recover(st, rule, message), m)
           /\ ~Fine(Recover(st, rule, message))
<1>1. tokens \in Seq(TokenSet) /\ Len(tokens) \in Nat
  BY DEF Ordered
<1>2. st \in States /\ LookAhead(st).begin \in Nat
  BY <1>1, SitsAt, LookAheadToken
<1> DEFINE r == Recover(st, rule, message)
           reported == Report(st, LookAhead(st).begin, message)
<1>3. r \in States /\ ~Fine(r)
  BY <1>2, SimplerStates DEF Later
<1>4. reported \in States /\ reported.rest = st.rest
  BY <1>2, ReportState
<1>5. Sits(tokens, reported, k)
  BY <1>4 DEF Sits
<1> HIDE DEF reported
<1>6. CASE HasFollow(rule)
  <2>1. r = SyncWhile(reported, AllTypes \ Follow(rule))
    BY <1>6 DEF Recover, SyncTo, reported
  <2> DEFINE types == AllTypes \ Follow(rule)
             n == Leading(reported, types)
  <2>2. n \in 0 .. Len(reported.rest)
    <3> HIDE DEF types
    <3> QED BY <1>4, LeadingIs
  <2>3. /\ Len(r.rest) = Len(reported.rest) - n
        /\ \A i \in 1 .. Len(r.rest) : r.rest[i] = reported.rest[n + i]
    <3> HIDE DEF types, r
    <3>1. r = SyncWhile(reported, types)
      BY <2>1 DEF types
    <3> QED BY <3>1, <1>4, SyncWhileState
  <2> HIDE DEF n, r, types
  <2>4. k + n \in k .. Len(tokens) + 1 /\ Sits(tokens, r, k + n)
    BY <1>1, <1>3, <1>5, <2>2, <2>3, RestSits
  <2> QED BY <1>3, <2>4 DEF r
<1>7. CASE ~HasFollow(rule) /\ At(st, {"EOF"})
  <2>1. r = reported
    BY <1>7 DEF Recover, reported
  <2>2. k \in k .. Len(tokens) + 1
    BY <1>1, SitsAt
  <2> QED BY <1>3, <1>5, <2>1, <2>2
<1>8. CASE ~HasFollow(rule) /\ ~At(st, {"EOF"})
  <2>1. r = Throw(reported)
    BY <1>8 DEF Recover, reported
  <2>2. r.rest = <<>>
    <3> HIDE DEF r
    <3> QED BY <2>1, <1>4 DEF Throw, States
  <2> HIDE DEF r
  <2>3. Len(tokens) + 1 \in k .. Len(tokens) + 1 /\ Len(tokens) + 1 \in 1 .. Len(tokens) + 1
    BY <1>1, SitsAt
  <2>4. Sits(tokens, r, Len(tokens) + 1)
    BY <1>1, <1>3, <2>2, <2>3 DEF Sits
  <2> QED BY <1>3, <2>3, <2>4 DEF r
<1> QED BY <1>6, <1>7, <1>8

-----------------------------------------------------------------------------
(* What the visitors return *)

\* The trees of the tokens of s are among those that the visitors go through.
Lexed(s, tokens) == Ordered(tokens) /\ Len(s) \in Nat /\ Len(tokens) <= Len(s) + 1

\* The trees of the tokens are among those that the visitors know.
LEMMA VisitedTrees ==
  ASSUME NEW s, NEW tokens, Lexed(s, tokens), NEW k \in 1 .. Len(tokens) + 1
  PROVE  /\ Len(tokens) + 1 - k \in Nat /\ Len(tokens) \in Nat
         /\ Trees[Len(tokens) + 1 - k] \subseteq TreesOf(s)
         /\ Trees[Len(tokens) + 1] \subseteq TreesOf(s)
         /\ Nothing \in TreesOf(s) /\ LeafTrees \subseteq TreesOf(s)
<1>1. tokens \in Seq(TokenSet) /\ Len(tokens) \in Nat /\ Len(s) \in Nat /\ Len(tokens) <= Len(s) + 1
  BY DEF Lexed, Ordered
<1>2. PICK h, n, i : h = Len(tokens) + 1 - k /\ n = Len(s) + 2 /\ i = Len(tokens) + 1
  OBVIOUS
<1>3. h \in Nat /\ n \in Nat /\ h <= n /\ i \in Nat /\ i <= n
  BY <1>1, <1>2
<1>4. Trees[h] \subseteq Trees[n] /\ Trees[i] \subseteq Trees[n]
  BY <1>3, TreesGrow
<1>5. Nothing \in Trees[n] /\ LeafTrees \subseteq Trees[n]
  BY <1>3, NestedHigher
<1> QED BY <1>1, <1>2, <1>3, <1>4, <1>5 DEF TreesOf

\* A dump is a sequence of tokens, a serialization one of trees.
LEMMA VisitorTypes ==
  ASSUME NEW s, Len(s) \in Nat, NEW skip, NEW t \in TreesOf(s)
  PROVE  Dump(s, t, skip) \in Seq(TokenSet) /\ Serialize(s, t) \in Seq(TreesOf(s))
<1> DEFINE R == TreesOf(s)
           Good(x) == Dump(s, x, skip) \in Seq(TokenSet) /\ Serialize(s, x) \in Seq(R)
           N == Len(s) + 2
           T == {n \in Nat : n <= N => \A x \in Trees[n] : Good(x)}
<1>1. N \in Nat /\ R = Trees[N]
  BY DEF TreesOf
<1>2. ASSUME NEW x \in {Nothing} \cup LeafTrees, x \in R PROVE Good(x)
  <2>1. x.kind \in {"null", "term", "field", "missing"}
    BY DEF Nothing, LeafTrees
  <2>2. CASE x.kind = "null"
    <3>1. Dump(s, x, skip) = <<>> /\ Serialize(s, x) = <<>>
      <4>1. DumpRules(s, skip, x)
        BY <1>2, DumpIs
      <4>2. Serialize(s, x) = <<>>
        BY <1>2, <2>2, SerializeIs
      <4> QED BY <2>2, <4>1, <4>2 DEF DumpRules
    <3> HIDE DEF R
    <3> QED BY <3>1
  <2>3. CASE x.kind # "null"
    <3>1. x.prefix \in Seq(TokenSet) /\ x.body \in Seq(TokenSet) /\ x.suffix \in Seq(TokenSet)
      BY <2>3 DEF Nothing, LeafTrees, TokenSeq, TokenSet
    <3>2. x.prefix \o x.body \o x.suffix \in Seq(TokenSet) /\ <<x>> \in Seq(R) /\ <<>> \in Seq(TokenSet)
      BY <3>1, <1>2
    <3>3. Dump(s, x, skip) = IF x = skip THEN <<>> ELSE x.prefix \o x.body \o x.suffix
      <4> HIDE DEF R
      <4>0. DumpRules(s, skip, x)
        BY <1>2, DumpIs DEF R
      <4>1. CASE x = skip
        BY <4>0, <4>1 DEF DumpRules
      <4>2. CASE x # skip
        <5>1. x.kind \in {"term", "field", "missing"}
          BY <1>2, <2>1, <2>3 DEF R
        <5>2. Dump(s, x, skip) = x.prefix \o x.body \o x.suffix
          BY <5>1, <4>0, <4>2 DEF DumpRules
        <5> QED BY <5>2, <4>2
      <4> QED BY <4>1, <4>2
    <3>4. Serialize(s, x) = <<x>>
      <4> HIDE DEF R
      <4> QED BY <1>2, <2>1, <2>3, SerializeIs DEF R
    <3> QED BY <3>2, <3>3, <3>4
  <2> QED BY <2>2, <2>3
<1>3. 0 \in T
  <2>1. ASSUME 0 <= N, NEW x \in Trees[0] PROVE Good(x)
    <3>1. x \in {Nothing} \cup LeafTrees
      BY Inside
    <3>2. x \in R
      <4>1. Trees[0] \subseteq Trees[N]
        BY <1>1, <2>1, TreesGrow
      <4> QED BY <4>1, <1>1
    <3> QED BY <3>1, <3>2, <1>2
  <2> QED BY <2>1
<1>4. ASSUME NEW n \in Nat, n \in T PROVE n + 1 \in T
  <2>1. ASSUME n + 1 <= N, NEW x \in Trees[n + 1] PROVE Good(x)
    <3>1. n <= N /\ n + 1 \in Nat /\ n + 1 # 0 /\ (n + 1) - 1 = n
      BY <1>1, <2>1
    <3>2. \A y \in Trees[n] : Good(y)
      BY <1>4, <3>1
    <3>3. x \in {Nothing} \cup LeafTrees \cup Nested(Trees[n])
      BY <3>1, Inside
    <3>4. x \in R
      <4>1. Trees[n + 1] \subseteq Trees[N]
        BY <1>1, <2>1, <3>1, TreesGrow
      <4> QED BY <4>1, <1>1
    <3> HIDE DEF T, N
    <3>5. /\ x.kind \in {"null", "term", "field", "missing", "modifier", "expression", "list"}
          /\ x \in LeafTrees <=> x.kind \in {"term", "field", "missing"}
          /\ x.kind = "null" <=> x = Nothing
          /\ x.kind # "null" => x.prefix \in Seq(TokenSet) /\ x.suffix \in Seq(TokenSet)
          /\ x.kind \notin {"null", "list"} => x.body \in Seq(TokenSet)
          /\ x.kind \in {"modifier", "expression"} => x.right \in Trees[n]
          /\ x.kind = "expression" => x.left \in Trees[n]
          /\ x.kind = "list" => x.items \in Seq(Trees[n])
      BY <3>3, TreeKinds
    <3>6. CASE x \in {Nothing} \cup LeafTrees
      BY <3>4, <3>6, <1>2
    <3>7. CASE x.kind = "modifier"
      <4>1. Good(x.right)
        BY <3>2, <3>5, <3>7
      <4>2. /\ Dump(s, x, skip) = IF x = skip THEN <<>> ELSE x.body \o Dump(s, x.right, skip)
            /\ Serialize(s, x) = <<x>> \o Serialize(s, x.right)
        <5>1. DumpRules(s, skip, x)
          BY <3>4, DumpIs
        <5>2. Dump(s, x, skip) = IF x = skip THEN <<>> ELSE x.body \o Dump(s, x.right, skip)
          BY <3>7, <5>1 DEF DumpRules
        <5>3. Serialize(s, x) = <<x>> \o Serialize(s, x.right)
          BY <3>4, <3>7, SerializeIs
        <5> QED BY <5>2, <5>3
      <4>3. x.body \in Seq(TokenSet)
        BY <3>5, <3>7
      <4> HIDE DEF R
      <4> QED BY <3>4, <4>1, <4>2, <4>3
    <3>8. CASE x.kind = "expression"
      <4>1. Good(x.right) /\ Good(x.left)
        BY <3>2, <3>5, <3>8
      <4>2. /\ Dump(s, x, skip) = IF x = skip THEN <<>> ELSE
                 x.prefix \o Dump(s, x.left, skip) \o x.body \o Dump(s, x.right, skip) \o x.suffix
            /\ Serialize(s, x) = Serialize(s, x.left) \o <<x>> \o Serialize(s, x.right)
        <5>1. DumpRules(s, skip, x)
          BY <3>4, DumpIs
        <5>2. Dump(s, x, skip) = IF x = skip THEN <<>> ELSE
                 x.prefix \o Dump(s, x.left, skip) \o x.body \o Dump(s, x.right, skip) \o x.suffix
          BY <3>8, <5>1 DEF DumpRules
        <5>3. Serialize(s, x) = Serialize(s, x.left) \o <<x>> \o Serialize(s, x.right)
          BY <3>4, <3>8, SerializeIs
        <5> QED BY <5>2, <5>3
      <4>3. x.body \in Seq(TokenSet) /\ x.prefix \in Seq(TokenSet) /\ x.suffix \in Seq(TokenSet)
        BY <3>5, <3>8
      <4> HIDE DEF R
      <4> QED BY <3>4, <4>1, <4>2, <4>3
    <3>9. CASE x.kind = "list"
      <4>1. /\ Dump(s, x, skip) = IF x = skip THEN <<>> ELSE
                 x.prefix \o DumpAll(s, x.items, skip) \o x.suffix
            /\ Serialize(s, x) = <<x>> \o SerializeAll(s, x.items)
        <5>1. DumpRules(s, skip, x)
          BY <3>4, DumpIs
        <5>2. Dump(s, x, skip) = IF x = skip THEN <<>> ELSE
                 x.prefix \o DumpAll(s, x.items, skip) \o x.suffix
          BY <3>9, <5>1 DEF DumpRules
        <5>3. Serialize(s, x) = <<x>> \o SerializeAll(s, x.items)
          BY <3>4, <3>9, SerializeIs
        <5> QED BY <5>2, <5>3
      <4>2. x.prefix \in Seq(TokenSet) /\ x.suffix \in Seq(TokenSet) /\ x.items \in Seq(Trees[n])
        BY <3>5, <3>9
      <4>3. \A i \in DOMAIN x.items : x.items[i] \in Trees[n]
        BY <4>2
      <4>4. \A i \in DOMAIN x.items : Good(x.items[i])
        BY <3>2, <4>3
      <4>5. /\ [i \in DOMAIN x.items |-> Dump(s, x.items[i], skip)] \in Seq(Seq(TokenSet))
            /\ [i \in DOMAIN x.items |-> Serialize(s, x.items[i])] \in Seq(Seq(R))
        <5> HIDE DEF R
        <5>1. DOMAIN x.items = 1 .. Len(x.items) /\ Len(x.items) \in Nat
          BY <4>2
        <5> QED BY <5>1, <4>4
      <4> HIDE DEF R
      <4>6. DumpAll(s, x.items, skip) \in Seq(TokenSet) /\ SerializeAll(s, x.items) \in Seq(R)
        BY <4>5, FlattenType DEF DumpAll, SerializeAll
      <4> QED BY <3>4, <4>1, <4>2, <4>6
    <3> HIDE DEF Good, R
    <3> QED BY <3>5, <3>6, <3>7, <3>8, <3>9
  <2> QED BY <2>1
<1>5. Nat \subseteq T
  <2> HIDE DEF T
  <2> QED BY <1>3, <1>4, NatSetInduction
<1>6. N \in T /\ N <= N
  BY <1>1, <1>5
<1> QED BY <1>1, <1>6

\* A list is visited one tree after the other.
LEMMA AllIs ==
  ASSUME NEW s, Len(s) \in Nat, NEW skip, NEW x \in TreesOf(s), NEW items \in Seq(TreesOf(s))
  PROVE  /\ DumpAll(s, <<x>> \o items, skip) = Dump(s, x, skip) \o DumpAll(s, items, skip)
         /\ SerializeAll(s, <<x>> \o items) = Serialize(s, x) \o SerializeAll(s, items)
         /\ DumpAll(s, items, skip) \in Seq(TokenSet)
         /\ SerializeAll(s, items) \in Seq(TreesOf(s))
         /\ DumpAll(s, <<>>, skip) = <<>> /\ SerializeAll(s, <<>>) = <<>>
<1> DEFINE R == TreesOf(s)
           all == <<x>> \o items
           d == [i \in DOMAIN items |-> Dump(s, items[i], skip)]
           v == [i \in DOMAIN items |-> Serialize(s, items[i])]
<1>1. \A i \in DOMAIN items : items[i] \in R
  OBVIOUS
<1>2. \A i \in DOMAIN items : Dump(s, items[i], skip) \in Seq(TokenSet) /\ Serialize(s, items[i]) \in Seq(R)
  BY <1>1, VisitorTypes
<1>3. d \in Seq(Seq(TokenSet)) /\ v \in Seq(Seq(R)) /\ Len(d) = Len(items) /\ Len(v) = Len(items)
  <2> HIDE DEF R
  <2> QED BY <1>2
<1>4. Dump(s, x, skip) \in Seq(TokenSet) /\ Serialize(s, x) \in Seq(R)
  BY VisitorTypes
<1>5. /\ DOMAIN all = 1 .. Len(items) + 1 /\ all[1] = x
      /\ \A i \in 2 .. Len(items) + 1 : all[i] = items[i - 1] /\ i - 1 \in 1 .. Len(items)
  BY OneMore
<1>6. DOMAIN items = 1 .. Len(items) /\ Len(items) \in Nat
  OBVIOUS
<1> HIDE DEF R, all
<1>7. [i \in DOMAIN all |-> Dump(s, all[i], skip)] = <<Dump(s, x, skip)>> \o d
  <2> DEFINE e == <<Dump(s, x, skip)>> \o d
             a == [i \in DOMAIN all |-> Dump(s, all[i], skip)]
  <2>1. /\ e \in Seq(Seq(TokenSet)) /\ Len(e) = Len(items) + 1 /\ e[1] = Dump(s, x, skip)
        /\ \A i \in 2 .. Len(items) + 1 : e[i] = d[i - 1] /\ i - 1 \in 1 .. Len(items)
    <3> HIDE DEF d
    <3> QED BY <1>3, <1>4, OneMore
  <2>2. \A i \in 1 .. Len(items) : d[i] = Dump(s, items[i], skip)
    BY <1>6
  <2> HIDE DEF e, d
  <2>3. \A i \in 1 .. Len(items) + 1 : e[i] = Dump(s, all[i], skip)
    <3> TAKE i \in 1 .. Len(items) + 1
    <3>1. i = 1 \/ i \in 2 .. Len(items) + 1
      BY <1>6
    <3>2. CASE i = 1
      BY <3>2, <2>1, <1>5
    <3>3. CASE i \in 2 .. Len(items) + 1
      <4>1. PICK j : j = i - 1
        OBVIOUS
      <4>2. j \in 1 .. Len(items) /\ e[i] = d[j] /\ all[i] = items[j]
        BY <4>1, <3>3, <2>1, <1>5
      <4> QED BY <4>2, <2>2
    <3> QED BY <3>1, <3>2, <3>3
  <2>4. e = [i \in 1 .. Len(items) + 1 |-> e[i]]
    BY <2>1
  <2> QED BY <2>3, <2>4, <1>5 DEF e
<1>8. [i \in DOMAIN all |-> Serialize(s, all[i])] = <<Serialize(s, x)>> \o v
  <2> DEFINE e == <<Serialize(s, x)>> \o v
             a == [i \in DOMAIN all |-> Serialize(s, all[i])]
  <2>1. /\ e \in Seq(Seq(R)) /\ Len(e) = Len(items) + 1 /\ e[1] = Serialize(s, x)
        /\ \A i \in 2 .. Len(items) + 1 : e[i] = v[i - 1] /\ i - 1 \in 1 .. Len(items)
    <3> HIDE DEF v
    <3> QED BY <1>3, <1>4, OneMore
  <2>2. \A i \in 1 .. Len(items) : v[i] = Serialize(s, items[i])
    BY <1>6
  <2> HIDE DEF e, v
  <2>3. \A i \in 1 .. Len(items) + 1 : e[i] = Serialize(s, all[i])
    <3> TAKE i \in 1 .. Len(items) + 1
    <3>1. i = 1 \/ i \in 2 .. Len(items) + 1
      BY <1>6
    <3>2. CASE i = 1
      BY <3>2, <2>1, <1>5
    <3>3. CASE i \in 2 .. Len(items) + 1
      <4>1. PICK j : j = i - 1
        OBVIOUS
      <4>2. j \in 1 .. Len(items) /\ e[i] = v[j] /\ all[i] = items[j]
        BY <4>1, <3>3, <2>1, <1>5
      <4> QED BY <4>2, <2>2
    <3> QED BY <3>1, <3>2, <3>3
  <2>4. e = [i \in 1 .. Len(items) + 1 |-> e[i]]
    BY <2>1
  <2> QED BY <2>3, <2>4, <1>5 DEF e
<1>9. DumpAll(s, all, skip) = Dump(s, x, skip) \o DumpAll(s, items, skip)
  <2>1. DumpAll(s, all, skip) = FlattenSeq(<<Dump(s, x, skip)>> \o d) /\ DumpAll(s, items, skip) = FlattenSeq(d)
    BY <1>7 DEF DumpAll
  <2> HIDE DEF d
  <2> QED BY <2>1, <1>3, <1>4, FlattenFirst, ZenonT(60)
<1>10. SerializeAll(s, all) = Serialize(s, x) \o SerializeAll(s, items)
  <2>1. SerializeAll(s, all) = FlattenSeq(<<Serialize(s, x)>> \o v) /\ SerializeAll(s, items) = FlattenSeq(v)
    BY <1>8 DEF SerializeAll
  <2> HIDE DEF v
  <2> QED BY <2>1, <1>3, <1>4, FlattenFirst, ZenonT(60)
<1>11. DumpAll(s, items, skip) \in Seq(TokenSet) /\ SerializeAll(s, items) \in Seq(R)
  <2>1. SerializeAll(s, items) = FlattenSeq(v) /\ DumpAll(s, items, skip) = FlattenSeq(d)
    BY DEF DumpAll, SerializeAll
  <2> HIDE DEF d, v
  <2> QED BY <2>1, <1>3, FlattenType
<1>12. DumpAll(s, <<>>, skip) = <<>> /\ SerializeAll(s, <<>>) = <<>>
  <2>1. [i \in DOMAIN <<>> |-> Dump(s, <<>>[i], skip)] = <<>> /\ [i \in DOMAIN <<>> |-> Serialize(s, <<>>[i])] = <<>>
    OBVIOUS
  <2>2. FlattenSeq(<<>>) = <<>>
    <3>1. <<>> \in Seq(Seq(TokenSet))
      OBVIOUS
    <3> QED BY <3>1, FlattenType
  <2> QED BY <2>1, <2>2 DEF DumpAll, SerializeAll
<1> QED BY <1>9, <1>10, <1>11, <1>12 DEF all, R

-----------------------------------------------------------------------------
(* Terms and fields *)

\* The leaf of the tokens from the kth, a term, to the one before the mth.
Leafy(tokens, l, k, m, st) ==
    /\ l \in LeafTrees /\ l.kind \in TermKinds /\ l.prefix = <<>>
    /\ l.body # <<>> /\ l.body[1] = tokens[k]
    /\ k \in 1 .. Len(tokens) /\ k < m /\ TypeAt(tokens, k) \in Expr
    /\ Part(tokens, k, m, l.body \o l.suffix, st)

\* The fields of a term or field.
LEMMA LeafIs ==
  ASSUME NEW kind \in TermKinds, NEW body \in Seq(TokenSet), NEW suffix \in Seq(TokenSet)
  PROVE  LET l == Leaf(kind, body, suffix)
         IN  /\ l \in LeafTrees /\ l.kind = kind /\ l.prefix = <<>> /\ l.body = body
             /\ l.suffix = suffix
<1>1. <<>> \in Seq(TokenSet)
  OBVIOUS
<1>2. Missing \in LeafTrees /\ Missing.prefix = <<>>
  BY <1>1 DEF Missing, LeafTrees, TokenSeq, TokenSet
<1>3. kind \in {"term", "field", "missing"}
  BY DEF TermKinds
<1> QED BY <1>2, <1>3 DEF Leaf, LeafTrees, TokenSeq, TokenSet

\* A term or field whose tokens are a part begins with the first of them.
LEMMA LeafyIs ==
  ASSUME NEW tokens, Ordered(tokens), NEW kind \in TermKinds, NEW k, NEW n, NEW m, NEW body,
         NEW suffix \in Seq(TokenSet), NEW st, body = Slice(tokens, k, n), k \in 1 .. Len(tokens),
         n \in k + 1 .. Len(tokens) + 1, TypeAt(tokens, k) \in Expr, k < m,
         Part(tokens, k, m, body \o suffix, st)
  PROVE  Leafy(tokens, Leaf(kind, body, suffix), k, m, st)
<1>1. tokens \in Seq(TokenSet) /\ Len(tokens) \in Nat
  BY DEF Ordered
<1>2. k \in Nat /\ n \in Nat /\ 1 <= k /\ k < n /\ n <= Len(tokens) + 1
  BY <1>1
<1>5. body \in Seq(TokenSet) /\ body # <<>> /\ body[1] = tokens[k]
  <2>1. /\ Slice(tokens, k, n) \in Seq(TokenSet) /\ Slice(tokens, k, n) # <<>>
        /\ Slice(tokens, k, n)[1] = tokens[k]
    BY <1>1, <1>2, SliceFirst
  <2> QED BY <2>1
<1> DEFINE l == Leaf(kind, body, suffix)
<1>7. l \in LeafTrees /\ l.kind = kind /\ l.prefix = <<>> /\ l.body = body /\ l.suffix = suffix
  BY <1>5, LeafIs
<1> HIDE DEF l
<1>8. Leafy(tokens, l, k, m, st)
  BY <1>5, <1>7 DEF Leafy
<1> QED BY <1>8 DEF l

\* A term, or a field with or without its term.
LEMMA TermLeaf ==
  ASSUME NEW tokens, Ordered(tokens), NEW st, NEW k, Sits(tokens, st, k),
         TypeAt(tokens, k) \in Expr
  PROVE  \E m \in k + 1 .. Len(tokens) + 1 :
           /\ Sits(tokens, TermOrPhrase(st).st, m)
           /\ Leafy(tokens, TermOrPhrase(st).tree, k, m, TermOrPhrase(st).st)
           /\ Fine(TermOrPhrase(st).st) => Fine(st)
<1> DEFINE first == Taken(st)
           N == Len(tokens)
<1>1. tokens \in Seq(TokenSet) /\ N \in Nat
  BY DEF Ordered
<1>2. TypeAt(tokens, k) # "EOF"
  BY DEF Expr
<1>3. PICK k1 \in k + 1 .. N + 1 :
           /\ Sits(tokens, first.st, k1) /\ TypeAt(tokens, k1) \notin Hidden
           /\ k \in 1 .. N /\ first.token = tokens[k]
           /\ <<first.token>> = Slice(tokens, k, k + 1)
           /\ first.spaces = Slice(tokens, k + 1, k1)
           /\ <<first.token>> \o first.spaces = Slice(tokens, k, k1)
           /\ Fine(first.st) => Fine(st)
  BY <1>2, TakenPart
<1>4. k \in Nat /\ k1 \in Nat /\ k < k1 /\ k1 <= N + 1 /\ 1 <= k
  BY <1>1, <1>3
<1> HIDE DEF first, N
<1>5. CASE ~At(first.st, {"COLON"})
  <2>1. TermOrPhrase(st) = [tree |-> Leaf("term", <<first.token>>, first.spaces), st |-> first.st]
    BY <1>5 DEF TermOrPhrase, TermOrField, Result, first
  <2>2. first.spaces \in Seq(TokenSet)
    <3>1. k + 1 \in Nat /\ 1 <= k + 1 /\ k + 1 <= k1 /\ k1 <= Len(tokens) + 1
      BY <1>3, <1>4 DEF N
    <3> QED BY <1>1, <1>3, <1>4, <3>1, SliceIs
  <2>3. Part(tokens, k, k1, <<first.token>> \o first.spaces, first.st)
    <3>1. k \in 1 .. Len(tokens) + 1 /\ k1 \in k .. Len(tokens) + 1
      BY <1>1, <1>4 DEF N
    <3>2. Part(tokens, k, k1, Slice(tokens, k, k1), first.st)
      BY <3>1, SlicePart
    <3> QED BY <3>2, <1>3
  <2>4. k \in 1 .. Len(tokens) /\ k + 1 \in k + 1 .. Len(tokens) + 1 /\ "term" \in TermKinds
    BY <1>1, <1>3 DEF N, TermKinds
  <2>5. Leafy(tokens, Leaf("term", <<first.token>>, first.spaces), k, k1, first.st)
    BY <1>3, <1>4, <2>2, <2>3, <2>4, LeafyIs
  <2> QED BY <1>3, <2>1, <2>5 DEF N
<1>6. CASE At(first.st, {"COLON"})
  <2> DEFINE colon == Taken(first.st)
             field == <<first.token>> \o first.spaces \o <<colon.token>> \o colon.spaces
  <2>1. TypeAt(tokens, k1) # "EOF"
    BY <1>1, <1>3, <1>6, SitsAt
  <2>2. PICK k2 \in k1 + 1 .. N + 1 :
           /\ Sits(tokens, colon.st, k2)
           /\ k1 \in 1 .. N
           /\ <<colon.token>> = Slice(tokens, k1, k1 + 1)
           /\ colon.spaces = Slice(tokens, k1 + 1, k2)
           /\ <<colon.token>> \o colon.spaces = Slice(tokens, k1, k2)
           /\ Fine(colon.st) => Fine(first.st)
    <3>1. PICK x : x = first.st
      OBVIOUS
    <3>2. Sits(tokens, x, k1)
      BY <1>3, <3>1
    <3>3. \E n \in k1 + 1 .. Len(tokens) + 1 :
            /\ Sits(tokens, Taken(x).st, n)
            /\ k1 \in 1 .. Len(tokens)
            /\ <<Taken(x).token>> = Slice(tokens, k1, k1 + 1)
            /\ Taken(x).spaces = Slice(tokens, k1 + 1, n)
            /\ <<Taken(x).token>> \o Taken(x).spaces = Slice(tokens, k1, n)
            /\ Fine(Taken(x).st) => Fine(x)
      <4>1. \E n \in k1 + 1 .. Len(tokens) + 1 :
            /\ Sits(tokens, Taken(x).st, n) /\ TypeAt(tokens, n) \notin Hidden
            /\ k1 \in 1 .. Len(tokens) /\ Taken(x).token = tokens[k1]
            /\ <<Taken(x).token>> = Slice(tokens, k1, k1 + 1)
            /\ Taken(x).spaces = Slice(tokens, k1 + 1, n)
            /\ <<Taken(x).token>> \o Taken(x).spaces = Slice(tokens, k1, n)
            /\ Fine(Taken(x).st) => Fine(x)
        BY <3>2, <2>1, TakenPart, Zenon
      <4> QED BY <4>1
    <3> QED BY <3>1, <3>3 DEF N
  <2>3. k2 \in Nat /\ k1 < k2 /\ k2 <= N + 1
    BY <1>1, <1>4, <2>2
  <2>4. field = Slice(tokens, k, k2)
    <3>1. field = (Slice(tokens, k, k1) \o Slice(tokens, k1, k1 + 1)) \o Slice(tokens, k1 + 1, k2)
      BY <1>3, <2>2
    <3>2. /\ k1 + 1 \in Nat /\ k <= k1 /\ k1 <= k1 + 1 /\ k1 + 1 <= k2 /\ k <= k1 + 1
          /\ k1 + 1 <= Len(tokens) + 1 /\ k2 <= Len(tokens) + 1
      BY <1>1, <1>4, <2>3 DEF N
    <3>3. Slice(tokens, k, k1) \o Slice(tokens, k1, k1 + 1) = Slice(tokens, k, k1 + 1)
      BY <1>1, <1>4, <3>2, SliceJoin, ZenonT(60)
    <3>4. Slice(tokens, k, k1 + 1) \o Slice(tokens, k1 + 1, k2) = Slice(tokens, k, k2)
      BY <1>1, <1>4, <2>3, <3>2, SliceJoin, SMTT(40)
    <3> QED BY <3>1, <3>3, <3>4
  <2> HIDE DEF colon, field
  <2>5. k \in 1 .. Len(tokens) + 1 /\ k2 \in k .. Len(tokens) + 1 /\ k2 \in k + 1 .. Len(tokens) + 1
    BY <1>1, <1>4, <2>3 DEF N
  <2>6. <<>> \in Seq(TokenSet) /\ field \in Seq(TokenSet) /\ "field" \in TermKinds
    <3>1. field \in Seq(TokenSet)
      BY <1>1, <1>4, <2>3, <2>4, <2>5, SliceIs DEF N
    <3> QED BY <3>1 DEF TermKinds
  <2>7. CASE At(colon.st, Expr)
    <3> DEFINE r == Consume(colon.st)
               body == Append(field, LookAhead(colon.st))
    <3>1. TermOrPhrase(st) = [tree |-> Leaf("field", body, <<>>), st |-> r]
      BY <1>6, <2>7 DEF TermOrPhrase, TermOrField, FieldOf, Result, first, colon, field
    <3>2. TypeAt(tokens, k2) # "EOF"
      <4>1. TypeAt(tokens, k2) \in Expr
        BY <1>1, <2>2, <2>7, SitsAt
      <4> QED BY <4>1 DEF Expr
    <3>3. /\ k2 \in 1 .. N /\ Taken(colon.st).token = tokens[k2]
          /\ <<Taken(colon.st).token>> = Slice(tokens, k2, k2 + 1)
      <4>1. PICK x : x = colon.st
        OBVIOUS
      <4>2. Sits(tokens, x, k2)
        BY <2>2, <4>1
      <4>3. /\ k2 \in 1 .. Len(tokens) /\ Taken(x).token = tokens[k2]
            /\ <<Taken(x).token>> = Slice(tokens, k2, k2 + 1)
        <5>1. \E n \in k2 + 1 .. Len(tokens) + 1 :
            /\ Sits(tokens, Taken(x).st, n) /\ TypeAt(tokens, n) \notin Hidden
            /\ k2 \in 1 .. Len(tokens) /\ Taken(x).token = tokens[k2]
            /\ <<Taken(x).token>> = Slice(tokens, k2, k2 + 1)
            /\ Taken(x).spaces = Slice(tokens, k2 + 1, n)
            /\ <<Taken(x).token>> \o Taken(x).spaces = Slice(tokens, k2, n)
            /\ Fine(Taken(x).st) => Fine(x)
          BY <4>2, <3>2, TakenPart, Zenon
        <5> QED BY <5>1
      <4> QED BY <4>1, <4>3 DEF N
    <3>4. Sits(tokens, r, k2 + 1) /\ (Fine(r) <=> Fine(colon.st))
      <4>1. k2 <= Len(tokens)
        BY <1>1, <3>3 DEF N
      <4> QED BY <1>1, <2>2, <4>1, ConsumeSits
    <3> HIDE DEF r
    <3>5. LookAhead(colon.st) = tokens[k2] /\ tokens[k2] \in TokenSet
      BY <1>1, <3>3 DEF Taken, N
    <3>6. body = Slice(tokens, k, k2 + 1)
      <4>1. body = field \o <<tokens[k2]>>
        BY <2>6, <3>5
      <4>2. /\ k2 + 1 \in Nat /\ k <= k2 /\ k2 <= k2 + 1 /\ k2 + 1 <= Len(tokens) + 1
        BY <1>1, <1>4, <2>3, <3>3 DEF N
      <4>3. Slice(tokens, k, k2) \o Slice(tokens, k2, k2 + 1) = Slice(tokens, k, k2 + 1)
        BY <1>1, <1>4, <2>3, <4>2, SliceJoin, SMTT(40)
      <4> HIDE DEF body
      <4> QED BY <4>1, <4>3, <2>4, <3>3
    <3> HIDE DEF body
    <3>7. /\ k \in 1 .. Len(tokens) /\ k < k2 + 1 /\ k2 + 1 \in k + 1 .. Len(tokens) + 1
          /\ k2 + 1 \in k .. Len(tokens) + 1
      BY <1>1, <1>3, <1>4, <2>3, <3>3 DEF N
    <3>8. Part(tokens, k, k2 + 1, body \o <<>>, r)
      <4>1. Slice(tokens, k, k2 + 1) \in Seq(TokenSet)
        BY <1>1, <1>4, <2>3, <3>7, SliceIs
      <4>2. body \o <<>> = Slice(tokens, k, k2 + 1)
        BY <3>6, <4>1
      <4>3. Part(tokens, k, k2 + 1, Slice(tokens, k, k2 + 1), r)
        BY <2>5, <3>7, SlicePart
      <4> QED BY <4>2, <4>3
    <3>9. Leafy(tokens, Leaf("field", body, <<>>), k, k2 + 1, r)
      BY <2>6, <3>6, <3>7, <3>8, LeafyIs
    <3> QED BY <1>3, <2>2, <3>1, <3>4, <3>7, <3>9
  <2>8. CASE ~At(colon.st, Expr)
    <3> DEFINE r == Recover(colon.st, "term", "noTerm")
    <3>1. TermOrPhrase(st) = [tree |-> Leaf("field", field, <<>>), st |-> r]
      BY <1>6, <2>8 DEF TermOrPhrase, TermOrField, FieldOf, Result, first, colon, field
    <3>2. "noTerm" \in Messages
      BY DEF Messages
    <3>3. PICK m \in k2 .. Len(tokens) + 1 : Sits(tokens, r, m) /\ ~Fine(r)
      BY <2>2, <3>2, RecoverSits
    <3> HIDE DEF r
    <3>4. k \in 1 .. Len(tokens) /\ k < m /\ m \in k + 1 .. Len(tokens) + 1 /\ k \in 1 .. k
          /\ m \in k2 .. Len(tokens) + 1
      BY <1>1, <1>3, <1>4, <2>3, <3>3 DEF N
    <3>5. Part(tokens, k, m, field \o <<>>, r)
      <4>1. InOrder(tokens, k, k2, field)
        BY <2>4, <2>5, SliceInOrder
      <4>2. InOrder(tokens, k, m, field)
        BY <4>1, <3>4, InOrderBetween
      <4>3. field \o <<>> = field
        BY <2>6
      <4> QED BY <4>2, <4>3, <3>3 DEF Part
    <3>6. Leafy(tokens, Leaf("field", field, <<>>), k, m, r)
      BY <2>4, <2>5, <2>6, <3>4, <3>5, LeafyIs
    <3> QED BY <3>1, <3>3, <3>4, <3>6
  <2> QED BY <2>7, <2>8
<1> QED BY <1>5, <1>6

\* What follows a leaf becomes its suffix.
LEMMA LeafSuffix ==
  ASSUME NEW tokens, Ordered(tokens), NEW l, NEW k, NEW m, NEW x, Leafy(tokens, l, k, m, x),
         NEW d, NEW n, NEW y, Part(tokens, m, n, d, y), NEW z, Fine(z) => Fine(x) /\ Fine(y)
  PROVE  Leafy(tokens, [l EXCEPT !.suffix = @ \o d], k, n, z)
<1> DEFINE r == [l EXCEPT !.suffix = @ \o d]
<1>1. /\ tokens \in Seq(TokenSet) /\ m \in Nat /\ n \in Nat /\ m <= n /\ k \in Nat
      /\ d \in Seq(TokenSet)
  BY PartBounds DEF Part, Leafy
<1>2. l.body \in Seq(TokenSet) /\ l.suffix \in Seq(TokenSet) /\ l \in LeafTrees
  BY DEF Leafy, LeafTrees, TokenSeq, TokenSet
<1>3. l.suffix \o d \in Seq(TokenSet)
  BY <1>1, <1>2
<1>4. /\ r \in LeafTrees /\ r.kind = l.kind /\ r.prefix = l.prefix /\ r.body = l.body
      /\ r.suffix = l.suffix \o d
  BY <1>2, <1>3 DEF LeafTrees, TokenSeq, TokenSet
<1> HIDE DEF r
<1>5. r.body \o r.suffix = (l.body \o l.suffix) \o d
  <2>1. \A a, b, c \in Seq(TokenSet) : (a \o b) \o c = a \o (b \o c)
    BY ConcatAssociates, SMTT(40)
  <2>2. PICK a, b : a = l.body /\ b = l.suffix
    OBVIOUS
  <2>3. a \in Seq(TokenSet) /\ b \in Seq(TokenSet) /\ d \in Seq(TokenSet)
    BY <1>1, <1>2, <2>2
  <2>4. (a \o b) \o d = a \o (b \o d)
    BY <2>1, <2>3
  <2> QED BY <1>4, <2>2, <2>4
<1>6. Part(tokens, k, m, l.body \o l.suffix, x) /\ m <= m
  BY <1>1 DEF Leafy
<1>7. Part(tokens, k, n, (l.body \o l.suffix) \o d, z)
  BY <1>1, <1>6, PartJoins
<1>8. k < n
  BY <1>1 DEF Leafy
<1>9. Leafy(tokens, r, k, n, z)
  BY <1>4, <1>5, <1>7, <1>8 DEF Leafy
<1> QED BY <1>9 DEF r

\* What was taken without an error.
LEMMA LeafFine ==
  ASSUME NEW tokens, NEW l, NEW k, NEW m, NEW x, Leafy(tokens, l, k, m, x), Fine(x), NEW z
  PROVE  Leafy(tokens, l, k, m, z)
BY DEF Leafy, Part

-----------------------------------------------------------------------------
(* The tree of some of the tokens *)

\* No term that begins with a token from the mth is in the tree.
Apart(s, tokens, t, m) ==
    \A c \in LeafTrees : \A j \in m .. Len(tokens) :
      c.body # <<>> /\ c.body[1] = tokens[j] => Dump(s, t, c) = Dump(s, t, Nothing)

\* The tree visited last is a leaf: without it, what is before it is dumped.
Ending(s, tokens, t, k, m, st, c, j) ==
    /\ c \in LeafTrees /\ j \in k .. m - 1
    /\ \E before \in Seq(TreesOf(s)) : Serialize(s, t) = before \o <<c>>
    /\ Leafy(tokens, c, j, m, st)
    /\ Dump(s, t, c) = Slice(tokens, k, j)

\* The tree is that of the tokens from k up to m, and the parser is at st then.
Piece(s, tokens, t, k, m, st) ==
    /\ t \in Trees[Len(tokens) + 1 - k] /\ t.kind # "null" /\ t.prefix = <<>>
    /\ Part(tokens, k, m, Dump(s, t, Nothing), st)
    /\ Fine(st) => Apart(s, tokens, t, m) /\ \E c, j : Ending(s, tokens, t, k, m, st, c, j)

\* Where the tokens of a tree begin and end.
LEMMA PieceBounds ==
  ASSUME NEW s, NEW tokens, Lexed(s, tokens), NEW t, NEW k, NEW m, NEW st,
         Piece(s, tokens, t, k, m, st)
  PROVE  /\ tokens \in Seq(TokenSet) /\ Len(tokens) \in Nat /\ k \in Nat /\ m \in Nat /\ 1 <= k /\ k <= m
         /\ m <= Len(tokens) + 1 /\ k \in 1 .. Len(tokens) + 1 /\ m \in k .. Len(tokens) + 1
         /\ t \in TreesOf(s) /\ t # Nothing /\ Len(s) \in Nat
<1>1. Ordered(tokens) /\ Len(s) \in Nat
  BY DEF Lexed
<1>2. InOrder(tokens, k, m, Dump(s, t, Nothing))
  BY DEF Piece, Part
<1>3. /\ tokens \in Seq(TokenSet) /\ Len(tokens) \in Nat /\ k \in Nat /\ m \in Nat
      /\ 1 <= k /\ k <= m /\ m <= Len(tokens) + 1
  BY <1>1, <1>2, PartBounds
<1>4. k \in 1 .. Len(tokens) + 1 /\ m \in k .. Len(tokens) + 1
  BY <1>2 DEF InOrder
<1>5. t \in TreesOf(s)
  BY <1>4, VisitedTrees DEF Piece
<1>6. t # Nothing
  BY DEF Piece, Nothing
<1> QED BY <1>1, <1>3, <1>4, <1>5, <1>6

\* A term or field is dumped but where it is skipped.
LEMMA LeafDump ==
  ASSUME NEW s, Len(s) \in Nat, NEW l \in TreesOf(s), l.kind \in {"term", "field", "missing"},
         NEW c, c # l
  PROVE  Dump(s, l, c) = l.prefix \o l.body \o l.suffix
<1>1. DumpRules(s, c, l)
  BY DumpIs
<1> QED BY <1>1 DEF DumpRules

\* Leaves of different tokens are different.
LEMMA OtherLeaf ==
  ASSUME NEW tokens, Ordered(tokens), NEW l, NEW k, NEW m, NEW st, Leafy(tokens, l, k, m, st),
         NEW j \in m .. Len(tokens), NEW c, c.body[1] = tokens[j]
  PROVE  l # c
<1>1. tokens \in Seq(TokenSet) /\ Len(tokens) \in Nat
  BY DEF Ordered
<1>2. Part(tokens, k, m, l.body \o l.suffix, st)
  BY DEF Leafy
<1>3. k \in 1 .. Len(tokens) /\ j \in 1 .. Len(tokens) /\ k < j
  <2>1. m \in Nat /\ k \in Nat
    BY <1>2, PartBounds DEF Part
  <2> QED BY <2>1, <1>1 DEF Leafy
<1>4. tokens[k].begin < tokens[k].end /\ tokens[k].end <= tokens[j].begin
  BY <1>3 DEF Ordered
<1>5. tokens[k].begin \in Nat /\ tokens[k].end \in Nat
  <2>1. tokens[k] \in TokenSet
    BY <1>1, <1>3
  <2> QED BY <2>1 DEF TokenSet
<1>6. tokens[k] # tokens[j]
  BY <1>4, <1>5, SMTT(40)
<1> QED BY <1>6 DEF Leafy

\* What the visitors return of a term or field.
LEMMA LeafApart ==
  ASSUME NEW s, NEW tokens, Lexed(s, tokens), NEW l, NEW k, NEW m, NEW st,
         Leafy(tokens, l, k, m, st)
  PROVE  /\ Apart(s, tokens, l, m)
         /\ Dump(s, l, Nothing) = l.body \o l.suffix /\ Dump(s, l, l) = <<>>
         /\ Serialize(s, l) = <<l>> /\ l \in TreesOf(s)
<1>1. l \in LeafTrees /\ l.kind \in TermKinds /\ l.prefix = <<>> /\ Ordered(tokens) /\ Len(s) \in Nat
      /\ Len(tokens) \in Nat
  BY DEF Leafy, Lexed, Ordered
<1>2. l.body \in Seq(TokenSet) /\ l.suffix \in Seq(TokenSet) /\ l # Nothing
  BY <1>1 DEF LeafTrees, TokenSeq, TokenSet, Nothing
<1>3. l \in TreesOf(s)
  <2>1. 1 \in 1 .. Len(tokens) + 1
    BY <1>1
  <2> QED BY <1>1, <2>1, VisitedTrees
<1>4. l.kind \in {"term", "field", "missing"}
  BY <1>1 DEF TermKinds
<1>5. \A c : c # l => Dump(s, l, c) = l.prefix \o l.body \o l.suffix
  BY <1>1, <1>3, <1>4, LeafDump
<1>6. l.prefix \o l.body \o l.suffix = l.body \o l.suffix
  BY <1>1, <1>2
<1>7. ASSUME NEW c \in LeafTrees, NEW j \in m .. Len(tokens), c.body[1] = tokens[j]
      PROVE  Dump(s, l, c) = Dump(s, l, Nothing)
  <2>1. c # l
    BY <1>1, <1>7, OtherLeaf
  <2> QED BY <2>1, <1>2, <1>5
<1>8. Apart(s, tokens, l, m)
  BY <1>7 DEF Apart
<1>9. Serialize(s, l) = <<l>> /\ Dump(s, l, l) = <<>>
  <2>1. DumpRules(s, l, l)
    BY <1>1, <1>3, <1>4, DumpIs
  <2>2. Serialize(s, l) = <<l>>
    BY <1>1, <1>3, <1>4, SerializeIs
  <2> QED BY <2>1, <2>2 DEF DumpRules
<1> QED BY <1>2, <1>3, <1>5, <1>6, <1>8, <1>9

\* A term or field is the tree of its tokens.
LEMMA LeafPiece ==
  ASSUME NEW s, NEW tokens, Lexed(s, tokens), NEW l, NEW k, NEW m, NEW st,
         Leafy(tokens, l, k, m, st)
  PROVE  Piece(s, tokens, l, k, m, st)
<1>1. /\ Apart(s, tokens, l, m)
      /\ Dump(s, l, Nothing) = l.body \o l.suffix /\ Dump(s, l, l) = <<>>
      /\ Serialize(s, l) = <<l>> /\ l \in TreesOf(s)
  BY LeafApart
<1>2. l \in LeafTrees /\ l.kind \in TermKinds /\ l.prefix = <<>> /\ k < m /\ k \in 1 .. Len(tokens)
      /\ Part(tokens, k, m, l.body \o l.suffix, st) /\ Ordered(tokens)
  BY DEF Leafy, Lexed
<1>3. tokens \in Seq(TokenSet) /\ Len(tokens) \in Nat /\ m \in Nat
  BY <1>2, PartBounds DEF Part
<1>4. l \in Trees[Len(tokens) + 1 - k]
  <2>1. PICK h : h = Len(tokens) + 1 - k
    OBVIOUS
  <2>2. h \in Nat
    BY <2>1, <1>2, <1>3
  <2>3. l \in Trees[h]
    BY <2>2, <1>2, NestedHigher
  <2> QED BY <2>1, <2>3
<1>5. l.kind # "null"
  BY <1>2 DEF TermKinds
<1>6. Ending(s, tokens, l, k, m, st, l, k)
  <2>1. Slice(tokens, k, k) = <<>> /\ k \in k .. m - 1
    BY <1>2, <1>3 DEF Slice
  <2>2. \E before \in Seq(TreesOf(s)) : Serialize(s, l) = before \o <<l>>
    <3>1. <<>> \in Seq(TreesOf(s)) /\ <<>> \o <<l>> = <<l>>
      OBVIOUS
    <3> QED BY <3>1, <1>1
  <2> QED BY <1>1, <1>2, <2>1, <2>2 DEF Ending
<1> QED BY <1>1, <1>2, <1>4, <1>5, <1>6 DEF Piece

\* A missing term has no tokens, and was reported.
LEMMA MissingPiece ==
  ASSUME NEW s, NEW tokens, Lexed(s, tokens), NEW k \in 1 .. Len(tokens) + 1,
         NEW m \in k .. Len(tokens) + 1, NEW st, ~Fine(st)
  PROVE  Piece(s, tokens, Missing, k, m, st)
<1>1. <<>> \in Seq(TokenSet) /\ <<>> \o <<>> \o <<>> = <<>>
  OBVIOUS
<1>2. Missing \in LeafTrees /\ Missing # Nothing /\ Missing.kind = "missing" /\ Missing.prefix = <<>>
      /\ Missing.body = <<>> /\ Missing.suffix = <<>>
  BY <1>1 DEF Missing, LeafTrees, TokenSeq, TokenSet, Nothing
<1>3. /\ Missing \in TreesOf(s) /\ Len(s) \in Nat /\ Ordered(tokens)
      /\ Len(tokens) + 1 - k \in Nat
  BY <1>2, VisitedTrees DEF Lexed
<1>4. Missing \in Trees[Len(tokens) + 1 - k]
  BY <1>2, <1>3, NestedHigher
<1>5. Dump(s, Missing, Nothing) = <<>>
  <2>1. Dump(s, Missing, Nothing) = Missing.prefix \o Missing.body \o Missing.suffix
    BY <1>2, <1>3, LeafDump
  <2> QED BY <2>1, <1>1, <1>2
<1>6. Part(tokens, k, m, <<>>, st)
  BY <1>3, NonePart
<1> QED BY <1>2, <1>4, <1>5, <1>6 DEF Piece

\* The same tree, where nothing else follows, or something was reported.
LEMMA WiderPiece ==
  ASSUME NEW s, NEW tokens, Lexed(s, tokens), NEW t, NEW k, NEW n, NEW x,
         Piece(s, tokens, t, k, n, x), NEW m \in n .. Len(tokens) + 1,
         NEW st, Fine(st) => Fine(x) /\ n = m
  PROVE  Piece(s, tokens, t, k, m, st)
<1>1. Ordered(tokens) /\ k \in 1 .. k /\ n \in Nat /\ Len(tokens) \in Nat
  BY PieceBounds DEF Lexed
<1>2. InOrder(tokens, k, m, Dump(s, t, Nothing))
  BY <1>1, InOrderBetween DEF Piece, Part
<1>3. ASSUME Fine(st), NEW c, NEW j, Ending(s, tokens, t, k, n, x, c, j)
      PROVE  Ending(s, tokens, t, k, n, st, c, j)
  BY <1>3, LeafFine DEF Ending
<1>4. Fine(st) => Dump(s, t, Nothing) = Slice(tokens, k, m)
  BY DEF Piece, Part
<1> QED BY <1>2, <1>3, <1>4 DEF Piece, Part

\* A tree of later tokens is lower.
LEMMA HigherPiece ==
  ASSUME NEW s, NEW tokens, Lexed(s, tokens), NEW k, NEW n, NEW m, NEW t, NEW st,
         Piece(s, tokens, t, n, m, st), k \in 1 .. n - 1
  PROVE  /\ t \in Trees[Len(tokens) + 1 - n] /\ {Nothing} \cup LeafTrees \subseteq Trees[Len(tokens) + 1 - n]
         /\ Nested(Trees[Len(tokens) + 1 - n]) \subseteq Trees[Len(tokens) + 1 - k]
         /\ k \in 1 .. Len(tokens) + 1 /\ Len(tokens) \in Nat
<1>1. n \in Nat /\ Len(tokens) \in Nat /\ n <= Len(tokens) + 1 /\ k \in Nat /\ k < n
  BY PieceBounds
<1>2. PICK h, i : h = Len(tokens) + 1 - n /\ i = Len(tokens) + 1 - k
  OBVIOUS
<1>3. h \in Nat /\ i \in Nat /\ h + 1 \in Nat /\ h + 1 <= i
  BY <1>1, <1>2
<1>4. Trees[h + 1] \subseteq Trees[i]
  BY <1>3, TreesGrow
<1>5. Nested(Trees[h]) \subseteq Trees[h + 1] /\ {Nothing} \cup LeafTrees \subseteq Trees[h]
  BY <1>3, NestedHigher
<1> QED BY <1>1, <1>2, <1>4, <1>5 DEF Piece

\* A modifier and the tree behind it are the tree of their tokens.
LEMMA ModifierPiece ==
  ASSUME NEW s, NEW tokens, Lexed(s, tokens), NEW k, NEW n, NEW body, NEW y,
         Part(tokens, k, n, body, y),
         NEW l, NEW m, NEW right, NEW z, Piece(s, tokens, right, l, m, z), n <= l, k \in 1 .. l - 1,
         NEW st, Fine(st) => Fine(y) /\ Fine(z) /\ n = l
  PROVE  Piece(s, tokens, ModifierTree(body, right), k, m, st)
<1> DEFINE t == ModifierTree(body, right)
           R == TreesOf(s)
<1>1. /\ Ordered(tokens) /\ tokens \in Seq(TokenSet) /\ Len(s) \in Nat /\ Len(tokens) \in Nat
      /\ l \in Nat /\ m \in Nat /\ l <= m /\ m <= Len(tokens) + 1 /\ right \in R /\ right # Nothing
      /\ k \in Nat /\ 1 <= k /\ k < l
  BY PieceBounds DEF Lexed
<1>2. n \in Nat /\ k <= n /\ body \in Seq(TokenSet) /\ <<>> \in Seq(TokenSet)
  <2>1. InOrder(tokens, k, n, body)
    BY DEF Part
  <2> QED BY <1>1, <2>1, PartBounds
<1>3. /\ right \in Trees[Len(tokens) + 1 - l]
      /\ Nested(Trees[Len(tokens) + 1 - l]) \subseteq Trees[Len(tokens) + 1 - k]
      /\ k \in 1 .. Len(tokens) + 1
  BY HigherPiece
<1>4. /\ t.kind = "modifier" /\ t.prefix = <<>> /\ t.body = body /\ t.right = right /\ t # Nothing
      /\ t \notin LeafTrees
  BY DEF ModifierTree, Nothing, LeafTrees
<1>5. t \in Trees[Len(tokens) + 1 - k]
  <2>1. t \in Nested(Trees[Len(tokens) + 1 - l])
    BY <1>2, <1>3 DEF ModifierTree, Nested, TokenSeq, TokenSet
  <2> QED BY <2>1, <1>3
<1>6. t \in R
  BY <1>3, <1>5, VisitedTrees
<1> HIDE DEF t
<1>7. \A c : c # t => Dump(s, t, c) = body \o Dump(s, right, c)
  <2>1. SUFFICES ASSUME NEW c, c # t
                 PROVE  Dump(s, t, c) = body \o Dump(s, right, c)
    OBVIOUS
  <2>2. DumpRules(s, c, t)
    BY <1>1, <1>6, DumpIs
  <2>3. Dump(s, t, c) = t.body \o Dump(s, t.right, c)
    BY <1>4, <2>1, <2>2 DEF DumpRules
  <2> QED BY <2>3, <1>4
<1>8. Serialize(s, t) = <<t>> \o Serialize(s, right)
  <2>1. t.kind = "modifier" => Serialize(s, t) = <<t>> \o Serialize(s, t.right)
    BY <1>1, <1>6, SerializeIs
  <2> QED BY <2>1, <1>4
<1>9. Part(tokens, k, m, Dump(s, t, Nothing), st)
  <2>1. Dump(s, t, Nothing) = body \o Dump(s, right, Nothing)
    BY <1>4, <1>7
  <2>2. Part(tokens, l, m, Dump(s, right, Nothing), z)
    BY DEF Piece
  <2>3. Part(tokens, k, m, body \o Dump(s, right, Nothing), st)
    BY <1>1, <2>2, PartJoins
  <2> QED BY <2>1, <2>3
<1>10. ASSUME Fine(st)
       PROVE  Apart(s, tokens, t, m) /\ \E c, j : Ending(s, tokens, t, k, m, st, c, j)
  <2>1. Apart(s, tokens, right, m) /\ n = l /\ Fine(z) /\ body = Slice(tokens, k, l)
    BY <1>10 DEF Piece, Part
  <2>2. Apart(s, tokens, t, m)
    <3>1. ASSUME NEW c \in LeafTrees, Dump(s, right, c) = Dump(s, right, Nothing)
          PROVE  Dump(s, t, c) = Dump(s, t, Nothing)
      BY <3>1, <1>4, <1>7
    <3> QED BY <3>1, <2>1 DEF Apart
  <2>3. PICK c, j : Ending(s, tokens, right, l, m, z, c, j)
    BY <2>1 DEF Piece
  <2>4. /\ c \in LeafTrees /\ j \in l .. m - 1
        /\ Leafy(tokens, c, j, m, z) /\ Dump(s, right, c) = Slice(tokens, l, j)
    BY <2>3 DEF Ending
  <2>5. PICK before \in Seq(R) : Serialize(s, right) = before \o <<c>>
    BY <2>3 DEF Ending
  <2>6. c \in R
    BY <1>3, <2>4, VisitedTrees
  <2>7. Leafy(tokens, c, j, m, st)
    BY <2>1, <2>4, LeafFine
  <2>8. Dump(s, t, c) = Slice(tokens, k, j)
    <3>1. Dump(s, t, c) = Slice(tokens, k, l) \o Slice(tokens, l, j)
      BY <1>4, <1>7, <2>1, <2>4
    <3>2. j \in Nat /\ k <= l /\ l <= j /\ j <= Len(tokens) + 1
      BY <1>1, <2>4
    <3>3. Slice(tokens, k, l) \o Slice(tokens, l, j) = Slice(tokens, k, j)
      BY <1>1, <3>2, SliceJoin, SMTT(40)
    <3> QED BY <3>1, <3>3
  <2>9. \E more \in Seq(R) : Serialize(s, t) = more \o <<c>>
    <3> HIDE DEF R
    <3>1. /\ <<t>> \in Seq(R) /\ before \in Seq(R) /\ <<c>> \in Seq(R) /\ <<t>> \o before \in Seq(R)
      BY <1>6, <2>5, <2>6
    <3>2. PICK a, b : a = <<t>> /\ b = <<c>>
      OBVIOUS
    <3>3. (a \o before) \o b = a \o (before \o b)
      BY <3>1, <3>2, ConcatAssociates
    <3>4. Serialize(s, t) = (<<t>> \o before) \o <<c>>
      BY <1>8, <2>5, <3>2, <3>3
    <3> QED BY <3>1, <3>4
  <2>10. j \in k .. m - 1
    BY <1>1, <2>4
  <2>11. Ending(s, tokens, t, k, m, st, c, j)
    BY <2>4, <2>7, <2>8, <2>9, <2>10 DEF Ending
  <2> QED BY <2>2, <2>11
<1>11. Piece(s, tokens, t, k, m, st)
  BY <1>4, <1>5, <1>9, <1>10 DEF Piece
<1> QED BY <1>11 DEF t

\* The left side is a leaf, or nothing.
LEMMA ExpressionPiece ==
  ASSUME NEW s, NEW tokens, Lexed(s, tokens), NEW left \in {Nothing} \cup LeafTrees,
         NEW k, NEW g, NEW x, Part(tokens, k, g, Dump(s, left, Nothing), x),
         NEW h, NEW n, NEW body, NEW y, Part(tokens, h, n, body, y), g <= h,
         NEW l, NEW m, NEW right, NEW z, Piece(s, tokens, right, l, m, z), n <= l, k \in 1 .. l - 1,
         NEW st, Fine(st) => /\ Fine(x) /\ Fine(y) /\ Fine(z) /\ g = h /\ n = l
                             /\ Apart(s, tokens, left, g)
  PROVE  Piece(s, tokens, ExpressionTree(left, body, right), k, m, st)
<1> DEFINE t == ExpressionTree(left, body, right)
           R == TreesOf(s)
           d(c) == Dump(s, left, c)
<1>1. /\ Ordered(tokens) /\ tokens \in Seq(TokenSet) /\ Len(s) \in Nat /\ Len(tokens) \in Nat
      /\ l \in Nat /\ m \in Nat /\ l <= m /\ m <= Len(tokens) + 1 /\ right \in R /\ right # Nothing
      /\ k \in Nat /\ 1 <= k /\ k < l
  BY PieceBounds DEF Lexed
<1>2. /\ g \in Nat /\ k <= g /\ h \in Nat /\ n \in Nat /\ h <= n
      /\ body \in Seq(TokenSet) /\ <<>> \in Seq(TokenSet)
  <2>1. InOrder(tokens, h, n, body) /\ InOrder(tokens, k, g, Dump(s, left, Nothing))
    BY DEF Part
  <2>2. h \in Nat /\ n \in Nat /\ h <= n /\ body \in Seq(TokenSet)
    BY <1>1, <2>1, PartBounds
  <2>3. g \in Nat /\ k <= g
    BY <1>1, <2>1, PartBounds
  <2> QED BY <2>2, <2>3
<1>3. /\ right \in Trees[Len(tokens) + 1 - l] /\ left \in Trees[Len(tokens) + 1 - l]
      /\ Nested(Trees[Len(tokens) + 1 - l]) \subseteq Trees[Len(tokens) + 1 - k]
      /\ k \in 1 .. Len(tokens) + 1
  BY HigherPiece
<1>4. /\ t.kind = "expression" /\ t.prefix = <<>> /\ t.body = body /\ t.right = right /\ t.left = left
      /\ t.suffix = <<>> /\ t # Nothing /\ t \notin LeafTrees
  BY DEF ExpressionTree, Nothing, LeafTrees
<1>5. t \in Trees[Len(tokens) + 1 - k]
  <2>1. t \in Nested(Trees[Len(tokens) + 1 - l])
    BY <1>2, <1>3 DEF ExpressionTree, Nested, TokenSeq, TokenSet
  <2> QED BY <2>1, <1>3
<1>6. t \in R /\ left \in R
  BY <1>3, <1>5, VisitedTrees
<1> HIDE DEF t
<1>7. \A c : Dump(s, left, c) \in Seq(TokenSet) /\ Dump(s, right, c) \in Seq(TokenSet)
  BY <1>1, <1>6, VisitorTypes
<1>8. ASSUME NEW c, c # t PROVE Dump(s, t, c) = (Dump(s, left, c) \o body) \o Dump(s, right, c)
  <2>1. t.kind = "expression" =>
          Dump(s, t, c) = t.prefix \o Dump(s, t.left, c) \o t.body \o Dump(s, t.right, c) \o t.suffix
    <3>1. DumpRules(s, c, t)
      BY <1>1, <1>6, DumpIs
    <3> QED BY <1>8, <3>1 DEF DumpRules
  <2>2. PICK a, b : a = Dump(s, left, c) /\ b = Dump(s, right, c)
    OBVIOUS
  <2>3. Dump(s, t, c) = <<>> \o a \o body \o b \o <<>> /\ a \in Seq(TokenSet) /\ b \in Seq(TokenSet)
    BY <2>1, <2>2, <1>4, <1>7
  <2>4. <<>> \o a = a /\ ((a \o body) \o b) \o <<>> = (a \o body) \o b
    BY <1>2, <2>3
  <2> QED BY <2>2, <2>3, <2>4, SMTT(40)
<1>9. Serialize(s, t) = (Serialize(s, left) \o <<t>>) \o Serialize(s, right)
  <2>1. t.kind = "expression" => Serialize(s, t) = Serialize(s, t.left) \o <<t>> \o Serialize(s, t.right)
    BY <1>1, <1>6, SerializeIs
  <2> QED BY <2>1, <1>4
<1>10. Part(tokens, k, n, Dump(s, left, Nothing) \o body, st)
  BY <1>1, PartJoins
<1>11. Part(tokens, k, m, Dump(s, t, Nothing), st)
  <2>1. Dump(s, t, Nothing) = (Dump(s, left, Nothing) \o body) \o Dump(s, right, Nothing)
    BY <1>4, <1>8
  <2>2. Part(tokens, l, m, Dump(s, right, Nothing), z)
    BY DEF Piece
  <2>3. PICK a, b : a = Dump(s, left, Nothing) \o body /\ b = Dump(s, right, Nothing)
    OBVIOUS
  <2>4. Part(tokens, k, n, a, st) /\ Part(tokens, l, m, b, z)
    BY <1>10, <2>2, <2>3
  <2>5. Part(tokens, k, m, a \o b, st)
    BY <1>1, <2>4, PartJoins
  <2> QED BY <2>1, <2>3, <2>5
<1>12. ASSUME Fine(st)
       PROVE  Apart(s, tokens, t, m) /\ \E c, j : Ending(s, tokens, t, k, m, st, c, j)
  <2>1. Apart(s, tokens, right, m) /\ n = l /\ g = h /\ Fine(z) /\ Apart(s, tokens, left, g)
        /\ Dump(s, left, Nothing) \o body = Slice(tokens, k, l)
    BY <1>10, <1>12 DEF Piece, Part
  <2>2. ASSUME NEW c \in LeafTrees, NEW j \in l .. Len(tokens), c.body # <<>>, c.body[1] = tokens[j]
        PROVE  Dump(s, left, c) = Dump(s, left, Nothing)
    <3>1. j \in g .. Len(tokens)
      BY <1>1, <1>2, <2>1
    <3> QED BY <2>1, <2>2, <3>1 DEF Apart
  <2>3. Apart(s, tokens, t, m)
    <3>1. ASSUME NEW c \in LeafTrees, NEW j \in m .. Len(tokens), c.body # <<>>, c.body[1] = tokens[j]
          PROVE  Dump(s, t, c) = Dump(s, t, Nothing)
      <4>1. j \in l .. Len(tokens)
        BY <1>1
      <4>2. Dump(s, left, c) = Dump(s, left, Nothing)
        BY <2>2, <3>1, <4>1
      <4>3. Dump(s, right, c) = Dump(s, right, Nothing)
        BY <2>1, <3>1 DEF Apart
      <4> QED BY <4>2, <4>3, <1>4, <1>8
    <3> QED BY <3>1 DEF Apart
  <2>4. PICK c, j : Ending(s, tokens, right, l, m, z, c, j)
    BY <2>1 DEF Piece
  <2>5. /\ c \in LeafTrees /\ j \in l .. m - 1
        /\ Leafy(tokens, c, j, m, z) /\ Dump(s, right, c) = Slice(tokens, l, j)
    BY <2>4 DEF Ending
  <2>6. PICK before \in Seq(R) : Serialize(s, right) = before \o <<c>>
    BY <2>4 DEF Ending
  <2>7. c \in R
    BY <1>3, <2>5, VisitedTrees
  <2>8. Leafy(tokens, c, j, m, st)
    BY <2>1, <2>5, LeafFine
  <2>9. Dump(s, left, c) = Dump(s, left, Nothing)
    <3>1. j \in l .. Len(tokens)
      BY <1>1, <2>5
    <3>2. c.body # <<>> /\ c.body[1] = tokens[j]
      BY <2>5 DEF Leafy
    <3> QED BY <2>2, <2>5, <3>1, <3>2
  <2>10. Dump(s, t, c) = Slice(tokens, k, j)
    <3>1. Dump(s, t, c) = Slice(tokens, k, l) \o Slice(tokens, l, j)
      BY <1>4, <1>8, <2>1, <2>5, <2>9
    <3>2. j \in Nat /\ k <= l /\ l <= j /\ j <= Len(tokens) + 1
      BY <1>1, <2>5
    <3>3. Slice(tokens, k, l) \o Slice(tokens, l, j) = Slice(tokens, k, j)
      BY <1>1, <3>2, SliceJoin, SMTT(40)
    <3> QED BY <3>1, <3>3
  <2>11. \E more \in Seq(R) : Serialize(s, t) = more \o <<c>>
    <3>0. Serialize(s, left) \in Seq(R)
      BY <1>1, <1>6, VisitorTypes
    <3> HIDE DEF R
    <3>1. PICK a, b : a = Serialize(s, left) \o <<t>> /\ b = <<c>>
      OBVIOUS
    <3>2. /\ a \in Seq(R) /\ before \in Seq(R) /\ b \in Seq(R) /\ a \o before \in Seq(R)
      BY <1>6, <2>6, <2>7, <3>0, <3>1
    <3>3. (a \o before) \o b = a \o (before \o b)
      BY <3>2, ConcatAssociates, SMTT(40)
    <3>4. Serialize(s, t) = (a \o before) \o <<c>>
      BY <1>9, <2>6, <3>1, <3>3
    <3> QED BY <3>2, <3>4
  <2>12. j \in k .. m - 1
    BY <1>1, <2>5
  <2>13. Ending(s, tokens, t, k, m, st, c, j)
    BY <2>5, <2>8, <2>10, <2>11, <2>12 DEF Ending
  <2> QED BY <2>3, <2>13
<1>13. Piece(s, tokens, t, k, m, st)
  BY <1>4, <1>5, <1>11, <1>12 DEF Piece
<1> QED BY <1>13 DEF t

-----------------------------------------------------------------------------
(* The trees of some of the tokens, one after the other *)

\* Skipping a term or field of later tokens skips nothing of the items.
AllApart(s, tokens, items, m) ==
    \A c \in LeafTrees : \A j \in m .. Len(tokens) :
      c.body # <<>> /\ c.body[1] = tokens[j] => DumpAll(s, items, c) = DumpAll(s, items, Nothing)

\* The last tree that is visited of the items is the term or field at their end.
AllEnding(s, tokens, items, k, m, st, c, j) ==
    /\ c \in LeafTrees /\ j \in k .. m - 1
    /\ \E before \in Seq(TreesOf(s)) : SerializeAll(s, items) = before \o <<c>>
    /\ Leafy(tokens, c, j, m, st)
    /\ DumpAll(s, items, c) = Slice(tokens, k, j)

\* The items are the trees of the tokens from k up to m.
Pieces(s, tokens, items, k, m, st) ==
    /\ items \in Seq(Trees[Len(tokens)])
    /\ Part(tokens, k, m, DumpAll(s, items, Nothing), st)
    /\ Len(items) = 1 => Piece(s, tokens, items[1], k, m, st)
    /\ Fine(st) => /\ AllApart(s, tokens, items, m)
                   /\ items # <<>> => \E c, j : AllEnding(s, tokens, items, k, m, st, c, j)

\* Where the tokens of the items begin and end.
LEMMA PiecesBounds ==
  ASSUME NEW s, NEW tokens, Lexed(s, tokens), NEW items, NEW k, NEW m, NEW st,
         Pieces(s, tokens, items, k, m, st)
  PROVE  /\ tokens \in Seq(TokenSet) /\ Len(tokens) \in Nat /\ k \in Nat /\ m \in Nat /\ 1 <= k /\ k <= m
         /\ m <= Len(tokens) + 1 /\ k \in 1 .. Len(tokens) + 1 /\ m \in k .. Len(tokens) + 1
         /\ items \in Seq(TreesOf(s)) /\ Len(s) \in Nat
<1>1. Ordered(tokens) /\ Len(s) \in Nat
  BY DEF Lexed
<1>2. InOrder(tokens, k, m, DumpAll(s, items, Nothing))
  BY DEF Pieces, Part
<1>3. /\ tokens \in Seq(TokenSet) /\ Len(tokens) \in Nat /\ k \in Nat /\ m \in Nat
      /\ 1 <= k /\ k <= m /\ m <= Len(tokens) + 1
  BY <1>1, <1>2, PartBounds
<1>4. k \in 1 .. Len(tokens) + 1 /\ m \in k .. Len(tokens) + 1 /\ 1 \in 1 .. Len(tokens) + 1
  BY <1>2, <1>3 DEF InOrder
<1>5. items \in Seq(TreesOf(s))
  <2>1. Trees[Len(tokens)] \subseteq TreesOf(s)
    <3>1. Len(tokens) + 1 - 1 = Len(tokens)
      BY <1>3
    <3>2. Trees[Len(tokens) + 1 - 1] \subseteq TreesOf(s)
      BY <1>4, VisitedTrees
    <3> QED BY <3>1, <3>2
  <2> QED BY <2>1 DEF Pieces
<1> QED BY <1>1, <1>3, <1>4, <1>5

\* No items are the trees of no tokens.
LEMMA NoPieces ==
  ASSUME NEW s, NEW tokens, Lexed(s, tokens), NEW k \in 1 .. Len(tokens) + 1, NEW st
  PROVE  Pieces(s, tokens, <<>>, k, k, st)
<1>1. Ordered(tokens) /\ Len(tokens) \in Nat /\ Len(s) \in Nat
  BY DEF Lexed, Ordered
<1>2. k \in k .. Len(tokens) + 1
  BY <1>1
<1>3. Part(tokens, k, k, <<>>, st)
  BY <1>1, <1>2, NonePart
<1>4. \A c : DumpAll(s, <<>>, c) = <<>>
  <2>1. <<>> \in Seq(TreesOf(s)) /\ Nothing \in TreesOf(s)
    <3>1. Nothing \in TreesOf(s)
      BY VisitedTrees
    <3> QED BY <3>1
  <2> QED BY <1>1, <2>1, AllIs
<1>5. <<>> \in Seq(Trees[Len(tokens)]) /\ Len(<<>>) # 1
  OBVIOUS
<1> QED BY <1>3, <1>4, <1>5 DEF Pieces, AllApart

\* A tree, and the items behind it.
LEMMA PiecesAfter ==
  ASSUME NEW s, NEW tokens, Lexed(s, tokens), NEW t, NEW k, NEW n, NEW y,
         Piece(s, tokens, t, k, n, y),
         NEW items, NEW m, NEW st, Pieces(s, tokens, items, n, m, st), Fine(st) => Fine(y)
  PROVE  Pieces(s, tokens, <<t>> \o items, k, m, st)
<1> DEFINE all == <<t>> \o items
           R == TreesOf(s)
<1>1. /\ tokens \in Seq(TokenSet) /\ Len(tokens) \in Nat /\ k \in Nat /\ n \in Nat /\ 1 <= k
      /\ k <= n /\ n <= Len(tokens) + 1 /\ t \in R /\ t # Nothing /\ Len(s) \in Nat
      /\ k \in 1 .. Len(tokens) + 1
  BY PieceBounds
<1>2. /\ m \in Nat /\ n <= m /\ m <= Len(tokens) + 1 /\ items \in Seq(R) /\ m \in n .. Len(tokens) + 1
  BY PiecesBounds
<1>3. Ordered(tokens)
  BY DEF Lexed
<1>4. items \in Seq(Trees[Len(tokens)]) /\ t \in Trees[Len(tokens)]
  <2>1. PICK h : h = Len(tokens) + 1 - k
    OBVIOUS
  <2>2. h \in Nat /\ h <= Len(tokens)
    BY <1>1, <2>1
  <2>3. Trees[h] \subseteq Trees[Len(tokens)]
    BY <1>1, <2>2, TreesGrow
  <2> QED BY <2>1, <2>3 DEF Piece, Pieces
<1>5. all \in Seq(Trees[Len(tokens)]) /\ Len(all) = Len(items) + 1 /\ all[1] = t /\ all # <<>>
      /\ Len(items) \in Nat
  <2>1. PICK S : S = Trees[Len(tokens)]
    OBVIOUS
  <2>2. items \in Seq(S) /\ t \in S
    BY <1>4, <2>1
  <2>3. all \in Seq(S) /\ Len(all) = Len(items) + 1 /\ all[1] = t /\ Len(items) \in Nat
    BY <2>2, OneMore
  <2> HIDE DEF all
  <2>4. all # <<>>
    BY <2>3
  <2> QED BY <2>1, <2>3, <2>4
<1>6. \A c : /\ DumpAll(s, all, c) = Dump(s, t, c) \o DumpAll(s, items, c)
             /\ DumpAll(s, items, c) \in Seq(TokenSet) /\ DumpAll(s, <<>>, c) = <<>>
  BY <1>1, <1>2, AllIs
<1>7. /\ SerializeAll(s, all) = Serialize(s, t) \o SerializeAll(s, items)
      /\ SerializeAll(s, <<>>) = <<>>
  BY <1>1, <1>2, AllIs
<1>8. \A c : Dump(s, t, c) \in Seq(TokenSet) /\ Serialize(s, t) \in Seq(R)
  BY <1>1, VisitorTypes
<1> HIDE DEF all
<1>9. Fine(st) /\ items = <<>> => n = m
  <2>1. ASSUME Fine(st), items = <<>> PROVE n = m
    <3>1. Slice(tokens, n, m) = <<>>
      BY <1>6, <2>1 DEF Pieces, Part
    <3>2. Len(Slice(tokens, n, m)) = m - n
      BY <1>1, <1>2, SliceIs
    <3> QED BY <1>1, <1>2, <3>1, <3>2
  <2> QED BY <2>1
<1>10. Part(tokens, k, m, DumpAll(s, all, Nothing), st)
  <2>1. PICK a, b : a = Dump(s, t, Nothing) /\ b = DumpAll(s, items, Nothing)
    OBVIOUS
  <2>2. Part(tokens, k, n, a, y) /\ Part(tokens, n, m, b, st) /\ n <= n
    BY <1>1, <2>1 DEF Piece, Pieces
  <2>3. Part(tokens, k, m, a \o b, st)
    BY <1>3, <2>2, PartJoins
  <2> QED BY <1>6, <2>1, <2>3
<1>11. items = <<>> => Piece(s, tokens, t, k, m, st)
  BY <1>2, <1>9, WiderPiece
<1>12. Len(all) = 1 => Piece(s, tokens, all[1], k, m, st)
  <2>1. Len(all) = 1 => items = <<>>
    BY <1>2, <1>5
  <2> QED BY <2>1, <1>5, <1>11
<1>13. ASSUME Fine(st) PROVE AllApart(s, tokens, all, m)
  <2>1. ASSUME NEW c \in LeafTrees, NEW j \in m .. Len(tokens), c.body # <<>>, c.body[1] = tokens[j]
        PROVE  DumpAll(s, all, c) = DumpAll(s, all, Nothing)
    <3>1. j \in n .. Len(tokens)
      BY <1>1, <1>2
    <3>2. Apart(s, tokens, t, n)
      BY <1>13 DEF Piece
    <3>3. Dump(s, t, c) = Dump(s, t, Nothing)
      BY <2>1, <3>1, <3>2 DEF Apart
    <3>4. AllApart(s, tokens, items, m)
      BY <1>13 DEF Pieces
    <3>5. DumpAll(s, items, c) = DumpAll(s, items, Nothing)
      BY <2>1, <3>4 DEF AllApart
    <3> QED BY <1>6, <3>3, <3>5
  <2> QED BY <2>1 DEF AllApart
<1>14. ASSUME Fine(st), items = <<>>
       PROVE  \E c, j : AllEnding(s, tokens, all, k, m, st, c, j)
  <2>1. PICK c, j : Ending(s, tokens, t, k, m, st, c, j)
    BY <1>11, <1>14 DEF Piece
  <2>2. DumpAll(s, all, c) = Dump(s, t, c) /\ SerializeAll(s, all) = Serialize(s, t)
    <3>1. Dump(s, t, c) \o <<>> = Dump(s, t, c)
      BY <1>8
    <3>2. Serialize(s, t) \o <<>> = Serialize(s, t)
      <4> HIDE DEF R
      <4> QED BY <1>8
    <3> QED BY <3>1, <3>2, <1>6, <1>7, <1>14
  <2>3. AllEnding(s, tokens, all, k, m, st, c, j)
    BY <2>1, <2>2 DEF Ending, AllEnding
  <2> QED BY <2>3
<1>15. ASSUME Fine(st), items # <<>>
       PROVE  \E c, j : AllEnding(s, tokens, all, k, m, st, c, j)
  <2>1. PICK c, j : AllEnding(s, tokens, items, n, m, st, c, j)
    BY <1>15 DEF Pieces
  <2>2. /\ c \in LeafTrees /\ j \in n .. m - 1
        /\ Leafy(tokens, c, j, m, st) /\ DumpAll(s, items, c) = Slice(tokens, n, j)
    BY <2>1 DEF AllEnding
  <2>3. PICK before \in Seq(R) : SerializeAll(s, items) = before \o <<c>>
    BY <2>1 DEF AllEnding
  <2>4. c \in R
    BY <1>1, <2>2, VisitedTrees
  <2>5. DumpAll(s, all, c) = Slice(tokens, k, j)
    <3>1. j \in n .. Len(tokens) /\ j \in Nat /\ n <= j /\ j <= Len(tokens) + 1
      BY <1>1, <1>2, <2>2
    <3>2. c.body # <<>> /\ c.body[1] = tokens[j]
      BY <2>2 DEF Leafy
    <3>3. Apart(s, tokens, t, n) /\ Dump(s, t, Nothing) = Slice(tokens, k, n)
      BY <1>15 DEF Piece, Part
    <3>4. Dump(s, t, c) = Slice(tokens, k, n)
      BY <2>2, <3>1, <3>2, <3>3 DEF Apart
    <3>5. Slice(tokens, k, n) \o Slice(tokens, n, j) = Slice(tokens, k, j)
      BY <1>1, <3>1, SliceJoin, SMTT(40)
    <3> QED BY <1>6, <2>2, <3>4, <3>5
  <2>6. \E more \in Seq(R) : SerializeAll(s, all) = more \o <<c>>
    <3> HIDE DEF R
    <3>1. PICK a, b : a = Serialize(s, t) /\ b = <<c>>
      OBVIOUS
    <3>2. /\ a \in Seq(R) /\ before \in Seq(R) /\ b \in Seq(R) /\ a \o before \in Seq(R)
      BY <2>3, <2>4, <1>8, <3>1
    <3>3. (a \o before) \o b = a \o (before \o b)
      BY <3>2, ConcatAssociates, SMTT(40)
    <3>4. SerializeAll(s, all) = (a \o before) \o <<c>>
      BY <1>7, <2>3, <3>1, <3>3
    <3> QED BY <3>2, <3>4
  <2>7. j \in k .. m - 1
    BY <1>1, <1>2, <2>2
  <2>8. AllEnding(s, tokens, all, k, m, st, c, j)
    BY <2>2, <2>5, <2>6, <2>7 DEF AllEnding
  <2> QED BY <2>8
<1>16. Pieces(s, tokens, all, k, m, st)
  BY <1>5, <1>10, <1>12, <1>13, <1>14, <1>15 DEF Pieces
<1> QED BY <1>16 DEF all

-----------------------------------------------------------------------------
(* The rules, and their trees *)

\* The tree of the tokens from the kth, where x is, to where the rule leaves.
Yields(s, tokens, k, x, res) ==
    /\ Fine(res.st) => Fine(x)
    /\ \E m : Sits(tokens, res.st, m) /\ Piece(s, tokens, res.tree, k, m, res.st)

\* Whatever expr returns for shorter rests is the tree of its tokens.
Yielding(s, tokens, expr, n) ==
    \A x \in States : \A k :
      Sits(tokens, x, k) /\ TypeAt(tokens, k) \in Expr /\ Len(x.rest) < n =>
        Yields(s, tokens, k, x, expr[x])

\* The term on one side of an operator is the tree of its tokens.
LEMMA SideYields ==
  ASSUME NEW s, NEW tokens, Lexed(s, tokens), NEW x, NEW k, Sits(tokens, x, k), NEW rule
  PROVE  Yields(s, tokens, k, x, Side(x, rule))
<1>1. Ordered(tokens) /\ "noRightSide" \in Messages
  BY DEF Lexed, Messages
<1> DEFINE r == Recover(x, rule, "noRightSide")
<1>2. PICK m \in k .. Len(tokens) + 1 : Sits(tokens, r, m) /\ ~Fine(r)
  BY <1>1, RecoverSits
<1>3. Side(x, rule).tree = Missing /\ Side(x, rule).st = r
  BY DEF Side, Result
<1> HIDE DEF r
<1>4. k \in 1 .. Len(tokens) + 1
  BY DEF Sits
<1>5. Piece(s, tokens, Missing, k, m, r)
  BY <1>2, <1>4, MissingPiece
<1> QED BY <1>2, <1>3, <1>5 DEF Yields

\* Then so is what a modifier returns.
LEMMA ModifiedYields ==
  ASSUME NEW s, NEW tokens, Lexed(s, tokens), NEW st, NEW k, Sits(tokens, st, k),
         TypeAt(tokens, k) \in Modifier, NEW expr, NEW n \in Nat, Yielding(s, tokens, expr, n),
         Len(st.rest) <= n
  PROVE  Yields(s, tokens, k, st, Modified(expr, st))
<1> DEFINE start == SkipHidden(st)
           modifier == Taken(start)
           side == ModifierSide(expr, modifier.st)
           body == HiddenAt(st) \o <<modifier.token>> \o modifier.spaces
<1>1. TypeAt(tokens, k) \notin Hidden /\ TypeAt(tokens, k) # "EOF"
  BY DEF Modifier, Hidden
<1>2. Ordered(tokens) /\ tokens \in Seq(TokenSet) /\ Len(tokens) \in Nat
  BY DEF Lexed, Ordered
<1>3. /\ Sits(tokens, start, k) /\ (Fine(start) => Fine(st)) /\ HiddenAt(st) = Slice(tokens, k, k)
  BY <1>1, <1>2, HiddenPart
<1>4. st \in States /\ start \in States /\ Len(start.rest) <= Len(st.rest)
  BY <1>2, SitsAt, SimplerStates DEF Later
<1> HIDE DEF start
<1>5. PICK m \in k + 1 .. Len(tokens) + 1 :
           /\ Sits(tokens, modifier.st, m) /\ TypeAt(tokens, m) \notin Hidden
           /\ k \in 1 .. Len(tokens) /\ modifier.token = tokens[k]
           /\ <<modifier.token>> = Slice(tokens, k, k + 1)
           /\ modifier.spaces = Slice(tokens, k + 1, m)
           /\ <<modifier.token>> \o modifier.spaces = Slice(tokens, k, m)
           /\ Fine(modifier.st) => Fine(start)
  BY <1>1, <1>2, <1>3, TakenPart, Zenon
<1>6. modifier.st \in States /\ Len(modifier.st.rest) < Len(start.rest)
  BY <1>1, <1>2, <1>3, TakenPasses
<1> HIDE DEF modifier
<1>7. Len(modifier.st.rest) < n
  <2>1. Len(modifier.st.rest) \in Nat /\ Len(start.rest) \in Nat /\ Len(st.rest) \in Nat
    BY <1>4, <1>6, StateParts
  <2> QED BY <2>1, <1>4, <1>6, SMTT(40)
<1>8. k \in Nat /\ m \in Nat /\ k < m /\ k \in 1 .. m - 1 /\ m <= Len(tokens) + 1
      /\ k \in 1 .. Len(tokens) + 1 /\ m \in k .. Len(tokens) + 1
  BY <1>2, <1>5
<1>9. body = Slice(tokens, k, m)
  <2>1. HiddenAt(st) = <<>>
    BY <1>2, <1>3, <1>8 DEF Slice
  <2>2. PICK a, b : a = modifier.token /\ b = modifier.spaces
    OBVIOUS
  <2>3. <<>> \o <<a>> \o b = <<a>> \o b
    OBVIOUS
  <2> QED BY <2>1, <2>2, <2>3, <1>5
<1> HIDE DEF body
<1>10. Yields(s, tokens, m, modifier.st, side)
  <2>1. CASE TypeAt(tokens, m) \in Expr
    <3>1. side = expr[modifier.st]
      <4>1. At(modifier.st, Expr)
        BY <1>2, <1>5, <2>1, SitsAt
      <4> QED BY <4>1 DEF ModifierSide
    <3> QED BY <3>1, <2>1, <1>5, <1>6, <1>7 DEF Yielding
  <2>2. CASE TypeAt(tokens, m) \notin Expr
    <3>1. side = Side(modifier.st, "modifier")
      <4>1. ~At(modifier.st, Expr)
        BY <1>2, <1>5, <2>2, SitsAt
      <4> QED BY <4>1 DEF ModifierSide
    <3> HIDE DEF side
    <3>2. Yields(s, tokens, m, modifier.st, Side(modifier.st, "modifier"))
      BY <1>5, SideYields
    <3> QED BY <3>1, <3>2
  <2> QED BY <2>1, <2>2
<1>11. Modified(expr, st) = [tree |-> ModifierTree(body, side.tree), st |-> side.st]
  BY DEF Modified, TakenModifier, ModifierOf, Result, modifier, start, body
<1> HIDE DEF side
<1>12. PICK l : Sits(tokens, side.st, l) /\ Piece(s, tokens, side.tree, m, l, side.st)
  BY <1>10 DEF Yields
<1>13. Part(tokens, k, m, body, side.st) /\ m <= m
  BY <1>2, <1>8, <1>9, SlicePart
<1>14. Piece(s, tokens, ModifierTree(body, side.tree), k, l, side.st)
  BY <1>8, <1>12, <1>13, ModifierPiece
<1>15. Fine(side.st) => Fine(st)
  BY <1>3, <1>5, <1>10 DEF Yields
<1> QED BY <1>11, <1>12, <1>14, <1>15 DEF Yields

\* And so is the side behind an operator.
LEMMA OperatorSideYields ==
  ASSUME NEW s, NEW tokens, Lexed(s, tokens), NEW st, NEW k, Sits(tokens, st, k),
         NEW expr, NEW n \in Nat, Yielding(s, tokens, expr, n), Len(st.rest) < n
  PROVE  Yields(s, tokens, k, st, OperatorSide(expr, st))
<1>1. tokens \in Seq(TokenSet) /\ st \in States
  BY DEF Lexed, Ordered, Sits
<1>2. /\ TypeAt(tokens, k) \in Modifier <=> At(st, Modifier)
      /\ TypeAt(tokens, k) \in Expr <=> At(st, Expr)
  BY <1>1, SitsAt
<1>3. CASE TypeAt(tokens, k) \in Expr
  <2>1. OperatorSide(expr, st) = expr[st]
    BY <1>2, <1>3, Disjoint DEF OperatorSide
  <2> QED BY <2>1, <1>1, <1>3 DEF Yielding
<1>4. CASE TypeAt(tokens, k) \in Modifier
  <2>1. OperatorSide(expr, st) = Modified(expr, st)
    BY <1>2, <1>4, Disjoint DEF OperatorSide
  <2>2. Len(st.rest) <= n
    BY <1>1, StateParts
  <2> QED BY <2>1, <2>2, <1>4, ModifiedYields
<1>5. CASE TypeAt(tokens, k) \notin Expr \cup Modifier
  <2>1. OperatorSide(expr, st) = Side(st, "expr")
    BY <1>2, <1>5 DEF OperatorSide
  <2>2. Yields(s, tokens, k, st, Side(st, "expr"))
    BY SideYields
  <2> QED BY <2>1, <2>2
<1> QED BY <1>3, <1>4, <1>5

\* An operator at the kth token, its left side from the hth to the gth, and
\* spaces from the ith.
LEMMA OperatorYields ==
  ASSUME NEW s, NEW tokens, Lexed(s, tokens), NEW st, NEW k, Sits(tokens, st, k),
         TypeAt(tokens, k) \in Operator, NEW expr, NEW n \in Nat, Yielding(s, tokens, expr, n),
         Len(st.rest) <= n,
         NEW left \in {Nothing} \cup LeafTrees, NEW h, NEW g, NEW x,
         Part(tokens, h, g, Dump(s, left, Nothing), x), NEW spaces, NEW i \in g .. k,
         spaces = Slice(tokens, i, k), Fine(st) => Fine(x) /\ g = i /\ Apart(s, tokens, left, g)
  PROVE  Yields(s, tokens, h, st, AfterLeft(expr, left, spaces, st))
<1> DEFINE operator == Taken(st)
           side == OperatorSide(expr, operator.st)
           body == spaces \o <<operator.token>> \o operator.spaces
<1>1. TypeAt(tokens, k) # "EOF"
  BY DEF Operator
<1>2. Ordered(tokens) /\ tokens \in Seq(TokenSet) /\ Len(tokens) \in Nat /\ st \in States
  <2>1. Ordered(tokens)
    BY DEF Lexed
  <2>2. tokens \in Seq(TokenSet) /\ Len(tokens) \in Nat
    BY <2>1 DEF Ordered
  <2>3. st \in States
    BY DEF Sits
  <2> QED BY <2>1, <2>2, <2>3
<1>3. PICK m \in k + 1 .. Len(tokens) + 1 :
           /\ Sits(tokens, operator.st, m) /\ TypeAt(tokens, m) \notin Hidden
           /\ k \in 1 .. Len(tokens) /\ operator.token = tokens[k]
           /\ <<operator.token>> = Slice(tokens, k, k + 1)
           /\ operator.spaces = Slice(tokens, k + 1, m)
           /\ <<operator.token>> \o operator.spaces = Slice(tokens, k, m)
           /\ Fine(operator.st) => Fine(st)
  BY <1>1, <1>2, TakenPart, Zenon
<1>4. operator.st \in States /\ Len(operator.st.rest) < Len(st.rest)
  BY <1>1, <1>2, TakenPasses
<1>5. AfterLeft(expr, left, spaces, st) =
        [tree |-> ExpressionTree(left, body, side.tree), st |-> side.st]
  <2>1. At(st, Operator)
    BY <1>2, SitsAt
  <2> QED BY <2>1 DEF AfterLeft, TakenOperator, ExpressionOf, Result
<1> HIDE DEF operator
<1>6. Len(operator.st.rest) < n
  <2>1. Len(operator.st.rest) \in Nat /\ Len(st.rest) \in Nat
    BY <1>2, <1>4, StateParts
  <2> QED BY <2>1, <1>4
<1>7. Yields(s, tokens, m, operator.st, side)
  BY <1>3, <1>6, OperatorSideYields
<1> HIDE DEF side
<1>8. h \in Nat /\ g \in Nat /\ 1 <= h /\ h <= g
  <2>1. InOrder(tokens, h, g, Dump(s, left, Nothing))
    BY DEF Part
  <2> QED BY <1>2, <2>1, PartBounds
<1>9. /\ i \in Nat /\ k \in Nat /\ m \in Nat /\ 1 <= i /\ i <= k /\ k < m /\ m <= Len(tokens) + 1
      /\ h \in 1 .. m - 1 /\ i \in 1 .. Len(tokens) + 1 /\ m \in i .. Len(tokens) + 1 /\ g <= i
  BY <1>2, <1>3, <1>8
<1>10. body = Slice(tokens, i, m)
  <2>1. body = (Slice(tokens, i, k) \o Slice(tokens, k, k + 1)) \o Slice(tokens, k + 1, m)
    BY <1>3
  <2>2. /\ k + 1 \in Nat /\ i <= k + 1 /\ k <= k + 1 /\ k + 1 <= m /\ k + 1 <= Len(tokens) + 1
    BY <1>2, <1>9
  <2>3. Slice(tokens, i, k) \o Slice(tokens, k, k + 1) = Slice(tokens, i, k + 1)
    <3>1. /\ tokens \in Seq(TokenSet) /\ i \in Nat /\ k \in Nat /\ k + 1 \in Nat
          /\ 1 <= i /\ i <= k /\ k <= k + 1 /\ k + 1 <= Len(tokens) + 1
      BY <1>2, <1>9, <2>2
    <3> QED BY <3>1, SliceJoin, ZenonT(60)
  <2>4. Slice(tokens, i, k + 1) \o Slice(tokens, k + 1, m) = Slice(tokens, i, m)
    <3>1. /\ tokens \in Seq(TokenSet) /\ i \in Nat /\ k + 1 \in Nat /\ m \in Nat
          /\ 1 <= i /\ i <= k + 1 /\ k + 1 <= m /\ m <= Len(tokens) + 1
      BY <1>2, <1>9, <2>2
    <3> QED BY <3>1, SliceJoin, ZenonT(60)
  <2> QED BY <2>1, <2>3, <2>4
<1> HIDE DEF body
<1>11. PICK l : Sits(tokens, side.st, l) /\ Piece(s, tokens, side.tree, m, l, side.st)
  BY <1>7 DEF Yields
<1>12. Part(tokens, i, m, body, side.st) /\ m <= m
  BY <1>2, <1>9, <1>10, SlicePart
<1>13. Fine(side.st) => Fine(st)
  BY <1>3, <1>7 DEF Yields
<1>14. Piece(s, tokens, ExpressionTree(left, body, side.tree), h, l, side.st)
  BY <1>9, <1>11, <1>12, <1>13, ExpressionPiece
<1> QED BY <1>5, <1>11, <1>13, <1>14 DEF Yields

\* An expression is the tree of its tokens.
LEMMA ExpressionYields ==
  ASSUME NEW s, NEW tokens, Lexed(s, tokens), NEW st, NEW k, Sits(tokens, st, k),
         TypeAt(tokens, k) \in Expr
  PROVE  Yields(s, tokens, k, st, Expression[st])
<1> DEFINE P(x) == \A i : Sits(tokens, x, i) /\ TypeAt(tokens, i) \in Expr =>
                     Yields(s, tokens, i, x, Expression[x])
           T == {x \in States : P(x)}
           len == [x \in States |-> Len(x.rest)]
<1>0. Ordered(tokens) /\ tokens \in Seq(TokenSet) /\ Len(tokens) \in Nat
  BY DEF Lexed, Ordered
<1>1. len \in [States -> Nat]
  BY StateParts
<1>2. ASSUME NEW x \in States, \A y \in States : len[y] < len[x] => y \in T
      PROVE  x \in T
  <2> SUFFICES ASSUME NEW i, Sits(tokens, x, i), TypeAt(tokens, i) \in Expr
               PROVE  Yields(s, tokens, i, x, Expression[x])
    OBVIOUS
  <2>1. Yielding(s, tokens, Expression, Len(x.rest)) /\ Len(x.rest) \in Nat
    <3>1. ASSUME NEW y \in States, Len(y.rest) < Len(x.rest) PROVE P(y)
      BY <3>1, <1>2
    <3> HIDE DEF T, len
    <3> QED BY <3>1, StateParts DEF Yielding
  <2> HIDE DEF T, len, P
  <2> DEFINE left == TermOrPhrase(x)
             y == SkipHidden(left.st)
             spaces == HiddenAt(left.st)
             r == AfterLeft(Expression, left.tree, spaces, y)
  <2>2. At(x, Expr)
    BY <1>0, SitsAt
  <2>3. Further(x, left.st) /\ left.st \in States
    BY <2>2, TermOrPhraseState DEF Further
  <2>4. PICK g \in i + 1 .. Len(tokens) + 1 :
          /\ Sits(tokens, left.st, g)
          /\ Leafy(tokens, left.tree, i, g, left.st)
          /\ Fine(left.st) => Fine(x)
    BY <1>0, TermLeaf
  <2>5. Expression[x] = r
    <3>1. Expression[x] = ExpressionRule(Expression, x)
      BY ExpressionIs
    <3> QED BY <3>1, <2>2 DEF ExpressionRule, AfterTerm
  <2> HIDE DEF left
  <2>6. PICK m \in g .. Len(tokens) + 1 :
          /\ Sits(tokens, y, m) /\ TypeAt(tokens, m) \notin Hidden
          /\ TypeAt(tokens, g) \notin Hidden => m = g
          /\ spaces = Slice(tokens, g, m)
          /\ Fine(y) => Fine(left.st) /\ \A j \in g .. m - 1 : TypeAt(tokens, j) = "WS"
    BY <1>0, <2>4, HiddenPart, Zenon
  <2>7. Later(left.st, y) /\ y \in States
    BY <2>3, SimplerStates DEF Later
  <2> HIDE DEF y, spaces
  <2>8. Len(y.rest) <= Len(x.rest)
    BY <2>3, <2>7, LaterStates, StateParts DEF Further, Later
  <2>9. i \in Nat /\ g \in Nat /\ m \in Nat /\ i <= g /\ g \in g .. m /\ g \in 1 .. Len(tokens) + 1
        /\ left.tree \in {Nothing} \cup LeafTrees
    <3>1. i \in Nat /\ 1 <= i
      BY <1>0, SitsAt
    <3> QED BY <1>0, <2>4, <2>6, <3>1 DEF Leafy
  <2>10. CASE TypeAt(tokens, m) \in Operator
    <3>1. Part(tokens, i, g, Dump(s, left.tree, Nothing), left.st) /\ Apart(s, tokens, left.tree, g)
      <4>1. /\ Apart(s, tokens, left.tree, g)
            /\ Dump(s, left.tree, Nothing) = left.tree.body \o left.tree.suffix
        BY <2>4, LeafApart
      <4> QED BY <4>1, <2>4 DEF Leafy
    <3>2. Yields(s, tokens, i, y, r)
      BY <2>1, <2>6, <2>8, <2>9, <2>10, <3>1, OperatorYields
    <3> QED BY <2>4, <2>5, <2>6, <3>2 DEF Yields
  <2>11. CASE TypeAt(tokens, m) \notin Operator
    <3>1. r = [tree |-> [left.tree EXCEPT !.suffix = @ \o spaces], st |-> y]
      <4>1. ~At(y, Operator)
        BY <1>0, <2>6, <2>11, SitsAt
      <4> QED BY <4>1 DEF AfterLeft, Result
    <3> HIDE DEF r
    <3>2. Part(tokens, g, m, spaces, y)
      BY <1>0, <2>6, <2>9, SlicePart
    <3>3. Leafy(tokens, [left.tree EXCEPT !.suffix = @ \o spaces], i, m, y)
      BY <1>0, <2>4, <2>6, <3>2, LeafSuffix
    <3>4. Piece(s, tokens, [left.tree EXCEPT !.suffix = @ \o spaces], i, m, y)
      BY <3>3, LeafPiece
    <3> QED BY <2>4, <2>5, <2>6, <3>1, <3>4 DEF Yields
  <2> QED BY <2>10, <2>11
<1>3. States \subseteq T
  <2> HIDE DEF T, len
  <2> QED BY <1>1, <1>2, SmallerFirst
<1>4. st \in States
  BY DEF Sits
<1> QED BY <1>3, <1>4

\* Expression always returns the tree of its tokens.
LEMMA YieldingExpression ==
  ASSUME NEW s, NEW tokens, Lexed(s, tokens), NEW n
  PROVE  Yielding(s, tokens, Expression, n)
BY ExpressionYields DEF Yielding

\* An expression without its left side.
LEMMA BareYields ==
  ASSUME NEW s, NEW tokens, Lexed(s, tokens), NEW st, NEW k, Sits(tokens, st, k),
         TypeAt(tokens, k) \in Operator
  PROVE  Yields(s, tokens, k, st, Expression[st])
<1>1. Ordered(tokens) /\ tokens \in Seq(TokenSet) /\ Len(tokens) \in Nat /\ Len(s) \in Nat
  BY DEF Lexed, Ordered
<1>2. st \in States /\ "noLeftSide" \in Messages /\ k \in 1 .. Len(tokens) + 1 /\ k \in Nat
  BY <1>1, SitsAt DEF Sits, Messages
<1>3. At(st, Operator) /\ ~At(st, Expr)
  BY <1>1, SitsAt, Disjoint
<1> DEFINE x == Recover(st, "expr", "noLeftSide")
           r == AfterLeft(Expression, Nothing, <<>>, x)
<1>4. At(x, Operator)
  BY <1>2, <1>3, StaysOnOperator
<1>5. PICK m \in k .. Len(tokens) + 1 : Sits(tokens, x, m) /\ ~Fine(x)
  BY <1>1, <1>2, RecoverSits
<1> HIDE DEF r
<1>50. /\ tokens \in Seq(TokenSet) /\ Len(tokens) \in Nat /\ k \in Nat /\ k <= Len(tokens) + 1
      /\ m \in Nat /\ k <= m
  <2>1. k \in Nat /\ k <= Len(tokens) + 1
    BY <1>1, SitsAt
  <2>2. m \in Nat /\ k <= m
    BY <2>1
  <2> QED BY <1>1, <2>1, <2>2
<1>6. Expression[st] = r
  <2>1. Expression[st] = ExpressionRule(Expression, st)
    BY <1>2, ExpressionIs
  <2> QED BY <2>1, <1>3 DEF ExpressionRule, r
<1> HIDE DEF x
<1>7. TypeAt(tokens, m) \in Operator /\ x \in States
  BY <1>1, <1>4, <1>5, SitsAt
<1>8. Len(x.rest) \in Nat /\ Len(x.rest) <= Len(x.rest)
  BY <1>7, StateParts
<1>9. Yielding(s, tokens, Expression, Len(x.rest))
  BY YieldingExpression
<1>10. Dump(s, Nothing, Nothing) = <<>>
  <2>1. Nothing \in TreesOf(s)
    BY <1>2, VisitedTrees
  <2>2. DumpRules(s, Nothing, Nothing)
    BY <1>1, <2>1, DumpIs
  <2> QED BY <2>2 DEF DumpRules
<1>11. Part(tokens, k, k, Dump(s, Nothing, Nothing), x)
  <2>1. k \in k .. Len(tokens) + 1
    BY <1>50
  <2>2. Part(tokens, k, k, <<>>, x)
    BY <1>1, <1>2, <2>1, NonePart
  <2> QED BY <1>10, <2>2
<1>12. <<>> = Slice(tokens, m, m) /\ m \in k .. m
  <2>1. m \in Nat /\ k <= m
    BY <1>50
  <2>2. \A i \in Nat : SubSeq(tokens, i, i - 1) = <<>>
    BY <1>50
  <2>3. m \in k .. m
    BY <1>50
  <2> QED BY <2>1, <2>2, <2>3 DEF Slice
<1>13. Yields(s, tokens, k, x, r)
  <2>1. Nothing \in {Nothing} \cup LeafTrees /\ (Fine(x) => Fine(x) /\ k = m /\ Apart(s, tokens, Nothing, k))
    BY <1>5
  <2> QED BY <1>5, <1>7, <1>8, <1>9, <1>11, <1>12, <2>1, OperatorYields DEF r
<1> QED BY <1>5, <1>6, <1>13 DEF Yields

\* The items that are returned are the trees of their tokens.
YieldsAll(s, tokens, k, x, res) ==
    /\ Fine(res.st) => Fine(x)
    /\ \E m : Sits(tokens, res.st, m) /\ Pieces(s, tokens, res.tree, k, m, res.st)

\* Items always returns the trees of its tokens.
LEMMA ItemsYield ==
  ASSUME NEW s, NEW tokens, Lexed(s, tokens), NEW st, NEW k, Sits(tokens, st, k)
  PROVE  YieldsAll(s, tokens, k, st, Items[st])
<1> DEFINE P(x) == \A i : Sits(tokens, x, i) => YieldsAll(s, tokens, i, x, Items[x])
           T == {x \in States : P(x)}
           len == [x \in States |-> Len(x.rest)]
<1>0. Ordered(tokens) /\ tokens \in Seq(TokenSet) /\ Len(tokens) \in Nat
  BY DEF Lexed, Ordered
<1>1. len \in [States -> Nat]
  BY StateParts
<1>2. ASSUME NEW x \in States, \A y \in States : len[y] < len[x] => y \in T
      PROVE  x \in T
  <2> SUFFICES ASSUME NEW i, Sits(tokens, x, i)
               PROVE  YieldsAll(s, tokens, i, x, Items[x])
    OBVIOUS
  <2>1. ASSUME NEW y, Further(x, y) PROVE P(y)
    BY <2>1, <1>2 DEF Further
  <2>2. ASSUME NEW item, Further(x, item.st), Yields(s, tokens, i, x, item),
               Items[x] = [tree |-> <<item.tree>> \o Items[item.st].tree, st |-> Items[item.st].st]
        PROVE  YieldsAll(s, tokens, i, x, Items[x])
    <3>1. PICK m : Sits(tokens, item.st, m) /\ Piece(s, tokens, item.tree, i, m, item.st)
      BY <2>2 DEF Yields
    <3>2. YieldsAll(s, tokens, m, item.st, Items[item.st])
      BY <2>1, <2>2, <3>1
    <3> HIDE DEF T, len, P
    <3> DEFINE rest == Items[item.st]
    <3> HIDE DEF rest
    <3>3. PICK l : Sits(tokens, rest.st, l) /\ Pieces(s, tokens, rest.tree, m, l, rest.st)
      BY <3>2 DEF YieldsAll, rest
    <3>4. Fine(rest.st) => Fine(item.st)
      BY <3>2 DEF YieldsAll, rest
    <3>5. Pieces(s, tokens, <<item.tree>> \o rest.tree, i, l, rest.st)
      BY <3>1, <3>3, <3>4, PiecesAfter
    <3> QED BY <2>2, <3>3, <3>4, <3>5 DEF YieldsAll, Yields, rest
  <2> HIDE DEF T, len, P
  <2>3. \A types : At(x, types) <=> TypeAt(tokens, i) \in types
    BY <1>0, SitsAt
  <2>4. Items[x] = ItemsRule(Items, x)
    BY ItemsIs
  <2>5. CASE TypeAt(tokens, i) \in Expr \cup Operator
    <3>1. Items[x] = Item(Items, Expression[x])
      <4>1. At(x, Expr \cup Operator) /\ ~At(x, Modifier)
        BY <2>3, <2>5, Disjoint
      <4> QED BY <2>4, <4>1 DEF ItemsRule
    <3>2. PICK item : item = Expression[x]
      OBVIOUS
    <3>3. Items[x] = [tree |-> <<item.tree>> \o Items[item.st].tree, st |-> Items[item.st].st]
      BY <3>1, <3>2 DEF Item, Before, Result
    <3>4. Further(x, item.st)
      BY <2>3, <2>5, <3>2, ExpressionState
    <3>5. Yields(s, tokens, i, x, item)
      BY <2>5, <3>2, ExpressionYields, BareYields
    <3> QED BY <3>3, <3>4, <3>5, <2>2
  <2>6. CASE TypeAt(tokens, i) \in Modifier
    <3>1. Items[x] = Item(Items, Modified(Expression, x))
      <4>1. At(x, Modifier) /\ ~At(x, Expr \cup Operator)
        BY <2>3, <2>6, Disjoint
      <4> QED BY <2>4, <4>1 DEF ItemsRule
    <3>2. PICK item : item = Modified(Expression, x)
      OBVIOUS
    <3>3. Items[x] = [tree |-> <<item.tree>> \o Items[item.st].tree, st |-> Items[item.st].st]
      BY <3>1, <3>2 DEF Item, Before, Result
    <3>4. Len(x.rest) \in Nat /\ Len(x.rest) + 1 \in Nat /\ Len(x.rest) < Len(x.rest) + 1
          /\ Len(x.rest) <= Len(x.rest)
      BY StateParts
    <3>5. Further(x, item.st)
      BY <2>3, <2>6, <3>2, <3>4, ExpressionMovesOn, ModifiedState
    <3>6. Yields(s, tokens, i, x, item)
      BY <2>6, <3>2, <3>4, YieldingExpression, ModifiedYields
    <3> QED BY <3>3, <3>5, <3>6, <2>2
  <2>7. CASE TypeAt(tokens, i) \notin Expr \cup Operator \cup Modifier
    <3>1. Items[x] = [tree |-> <<>>, st |-> x]
      <4>1. ~At(x, Modifier) /\ ~At(x, Expr \cup Operator)
        BY <2>3, <2>7
      <4> QED BY <2>4, <4>1 DEF ItemsRule, Result
    <3>2. i \in 1 .. Len(tokens) + 1
      BY DEF Sits
    <3>3. Pieces(s, tokens, <<>>, i, i, x)
      BY <3>2, NoPieces
    <3> QED BY <3>1, <3>3 DEF YieldsAll
  <2> QED BY <2>5, <2>6, <2>7
<1>3. States \subseteq T
  <2> HIDE DEF T, len
  <2> QED BY <1>1, <1>2, SmallerFirst
<1>4. st \in States
  BY DEF Sits
<1> QED BY <1>3, <1>4

-----------------------------------------------------------------------------
(* The tree of the whole query *)

\* The tree of the expressions, from the kth token up to the mth.
Top(s, tokens, t, k, m, st) ==
    /\ t \in Trees[Len(tokens) + 1] /\ t.kind # "null" /\ t.prefix = <<>>
    /\ Part(tokens, k, m, Dump(s, t, Nothing), st)
    /\ Fine(st) => \/ t = Missing /\ k = m
                   \/ \E c, j : Ending(s, tokens, t, k, m, st, c, j)

\* What the visitors return of a list.
LEMMA ListIs ==
  ASSUME NEW s, NEW tokens, Lexed(s, tokens), NEW items \in Seq(Trees[Len(tokens)])
  PROVE  /\ ListTree(items) \in Trees[Len(tokens) + 1] /\ ListTree(items) \in TreesOf(s)
         /\ ListTree(items).kind = "list" /\ ListTree(items).prefix = <<>>
         /\ ListTree(items) # Nothing /\ ListTree(items) \notin LeafTrees
         /\ \A c : c # ListTree(items) => Dump(s, ListTree(items), c) = DumpAll(s, items, c)
         /\ Serialize(s, ListTree(items)) = <<ListTree(items)>> \o SerializeAll(s, items)
<1> DEFINE t == ListTree(items)
<1>1. Len(tokens) \in Nat /\ Len(s) \in Nat
  BY DEF Lexed, Ordered
<1>2. /\ t.kind = "list" /\ t.prefix = <<>> /\ t.items = items /\ t.suffix = <<>>
      /\ t # Nothing /\ t \notin LeafTrees
  BY DEF ListTree, Nothing, LeafTrees
<1>3. t \in Trees[Len(tokens) + 1]
  <2>1. <<>> \in Seq(TokenSet)
    OBVIOUS
  <2>2. t \in Nested(Trees[Len(tokens)])
    BY <2>1 DEF ListTree, Nested, TokenSeq, TokenSet
  <2>3. Nested(Trees[Len(tokens)]) \subseteq Trees[Len(tokens) + 1]
    BY <1>1, NestedHigher
  <2> QED BY <2>2, <2>3
<1>4. t \in TreesOf(s) /\ items \in Seq(TreesOf(s))
  <2>1. 1 \in 1 .. Len(tokens) + 1
    BY <1>1
  <2>2. Trees[Len(tokens) + 1] \subseteq TreesOf(s)
    BY <2>1, VisitedTrees
  <2>3. Trees[Len(tokens)] \subseteq Trees[Len(tokens) + 1]
    <3>1. Len(tokens) + 1 \in Nat /\ Len(tokens) <= Len(tokens) + 1
      BY <1>1
    <3> QED BY <1>1, <3>1, TreesGrow
  <2>4. PICK S, T : S = Trees[Len(tokens)] /\ T = TreesOf(s)
    OBVIOUS
  <2>5. S \subseteq T /\ items \in Seq(S)
    BY <2>2, <2>3, <2>4
  <2>6. items \in Seq(T)
    BY <2>5
  <2> QED BY <1>3, <2>2, <2>4, <2>6
<1> HIDE DEF t
<1>5. ASSUME NEW c, c # t PROVE Dump(s, t, c) = DumpAll(s, items, c)
  <2>0. t # c /\ t.kind = "list" =>
          Dump(s, t, c) = t.prefix \o DumpAll(s, t.items, c) \o t.suffix
    <3>1. DumpRules(s, c, t)
      BY <1>1, <1>4, DumpIs
    <3> QED BY <3>1 DEF DumpRules
  <2>1. Dump(s, t, c) = t.prefix \o DumpAll(s, t.items, c) \o t.suffix
    BY <1>2, <1>5, <2>0
  <2>2. DumpAll(s, items, c) \in Seq(TokenSet)
    <3>1. 1 \in 1 .. Len(tokens) + 1
      BY DEF Lexed, Ordered
    <3>2. Nothing \in TreesOf(s)
      BY <3>1, VisitedTrees
    <3> QED BY <1>1, <1>4, <3>2, AllIs
  <2>3. PICK a : a = DumpAll(s, items, c)
    OBVIOUS
  <2>4. <<>> \o a \o <<>> = a
    BY <2>2, <2>3
  <2> QED BY <1>2, <2>1, <2>3, <2>4
<1>6. Serialize(s, t) = <<t>> \o SerializeAll(s, items)
  BY <1>1, <1>2, <1>4, SerializeIs
<1> QED BY <1>2, <1>3, <1>4, <1>5, <1>6 DEF t

\* A single tree may be the topmost.
LEMMA PieceTop ==
  ASSUME NEW s, NEW tokens, Lexed(s, tokens), NEW t, NEW k, NEW m, NEW st,
         Piece(s, tokens, t, k, m, st)
  PROVE  Top(s, tokens, t, k, m, st)
<1>1. Len(tokens) \in Nat /\ k \in Nat /\ 1 <= k /\ k <= Len(tokens) + 1
  BY PieceBounds
<1>2. PICK h : h = Len(tokens) + 1 - k
  OBVIOUS
<1>3. h \in Nat /\ h <= Len(tokens) + 1 /\ Len(tokens) + 1 \in Nat
  BY <1>1, <1>2
<1>4. Trees[h] \subseteq Trees[Len(tokens) + 1]
  BY <1>3, TreesGrow
<1> QED BY <1>2, <1>4 DEF Piece, Top

\* So may what the parser makes of the items.
LEMMA PiecesTop ==
  ASSUME NEW s, NEW tokens, Lexed(s, tokens), NEW items, NEW k, NEW m, NEW st,
         Pieces(s, tokens, items, k, m, st)
  PROVE  Top(s, tokens, TreeOf(items), k, m, st)
<1>1. /\ tokens \in Seq(TokenSet) /\ Len(tokens) \in Nat /\ k \in Nat /\ m \in Nat /\ 1 <= k /\ k <= m
      /\ m <= Len(tokens) + 1 /\ k \in 1 .. Len(tokens) + 1 /\ m \in k .. Len(tokens) + 1
      /\ items \in Seq(TreesOf(s)) /\ Len(s) \in Nat
  BY PiecesBounds
<1>2. items \in Seq(Trees[Len(tokens)]) /\ Ordered(tokens)
  BY DEF Pieces, Lexed
<1>3. CASE items = <<>>
  <2>1. TreeOf(items) = Missing
    BY <1>3 DEF TreeOf
  <2>2. /\ Missing \in LeafTrees /\ Missing.kind = "missing" /\ Missing.prefix = <<>>
        /\ Missing.body = <<>> /\ Missing.suffix = <<>> /\ Missing # Nothing
    BY DEF Missing, LeafTrees, TokenSeq, Nothing
  <2>3. Missing \in Trees[Len(tokens) + 1] /\ Missing \in TreesOf(s)
    <3>1. LeafTrees \subseteq TreesOf(s)
      BY <1>1, VisitedTrees
    <3>2. Len(tokens) + 1 \in Nat
      BY <1>1
    <3>3. LeafTrees \subseteq Trees[Len(tokens) + 1]
      BY <3>2, NestedHigher
    <3> QED BY <2>2, <3>1, <3>3
  <2>4. Dump(s, Missing, Nothing) = <<>>
    <3>1. Dump(s, Missing, Nothing) = Missing.prefix \o Missing.body \o Missing.suffix
      BY <1>1, <2>2, <2>3, LeafDump
    <3>2. <<>> \o <<>> \o <<>> = <<>>
      OBVIOUS
    <3> QED BY <2>2, <3>1, <3>2
  <2>5. DumpAll(s, items, Nothing) = <<>>
    <3>1. Nothing \in TreesOf(s)
      BY <1>1, VisitedTrees
    <3> QED BY <1>1, <1>3, <3>1, AllIs
  <2>6. Part(tokens, k, m, Dump(s, Missing, Nothing), st)
    BY <2>4, <2>5 DEF Pieces
  <2>7. Fine(st) => k = m
    <3>1. Fine(st) => Slice(tokens, k, m) = <<>>
      BY <2>4, <2>6 DEF Part
    <3>2. Len(Slice(tokens, k, m)) = m - k
      BY <1>1, SliceIs
    <3>3. Slice(tokens, k, m) = <<>> => k = m
      BY <1>1, <3>2
    <3> QED BY <3>1, <3>3
  <2>8. Missing.kind # "null"
    BY <2>2
  <2> QED BY <2>1, <2>2, <2>3, <2>6, <2>7, <2>8 DEF Top
<1>4. CASE Len(items) = 1
  <2>1. TreeOf(items) = items[1]
    BY <1>4 DEF TreeOf
  <2> QED BY <2>1, <1>4, PieceTop DEF Pieces
<1>5. CASE items # <<>> /\ Len(items) # 1
  <2>1. TreeOf(items) = ListTree(items)
    BY <1>5 DEF TreeOf
  <2> DEFINE t == ListTree(items)
  <2>2. /\ t \in Trees[Len(tokens) + 1] /\ t \in TreesOf(s)
        /\ t.kind = "list" /\ t.prefix = <<>>
        /\ t # Nothing /\ t \notin LeafTrees
        /\ \A c : c # t => Dump(s, t, c) = DumpAll(s, items, c)
        /\ Serialize(s, t) = <<t>> \o SerializeAll(s, items)
    BY <1>2, ListIs
  <2> HIDE DEF t
  <2>3. Part(tokens, k, m, Dump(s, t, Nothing), st)
    BY <2>2 DEF Pieces
  <2>4. ASSUME Fine(st) PROVE \E c, j : Ending(s, tokens, t, k, m, st, c, j)
    <3>1. PICK c, j : AllEnding(s, tokens, items, k, m, st, c, j)
      BY <1>5, <2>4 DEF Pieces
    <3>2. PICK before \in Seq(TreesOf(s)) : SerializeAll(s, items) = before \o <<c>>
      BY <3>1 DEF AllEnding
    <3>3. c \in LeafTrees /\ c # t /\ c \in TreesOf(s)
      <4>1. c \in LeafTrees
        BY <3>1 DEF AllEnding
      <4> QED BY <1>1, <2>2, <4>1, VisitedTrees
    <3>4. Dump(s, t, c) = DumpAll(s, items, c)
      BY <2>2, <3>3
    <3>5. \E more \in Seq(TreesOf(s)) : Serialize(s, t) = more \o <<c>>
      <4>1. PICK R : R = TreesOf(s)
        OBVIOUS
      <4>2. PICK a, b : a = <<t>> /\ b = <<c>>
        OBVIOUS
      <4>3. a \in Seq(R) /\ b \in Seq(R) /\ before \in Seq(R) /\ a \o before \in Seq(R)
        BY <2>2, <3>2, <3>3, <4>1, <4>2
      <4>4. (a \o before) \o b = a \o (before \o b)
        BY <4>3, ConcatAssociates, SMTT(40)
      <4>5. Serialize(s, t) = (a \o before) \o <<c>>
        BY <2>2, <3>2, <4>2, <4>4
      <4> QED BY <4>1, <4>3, <4>5
    <3>6. Ending(s, tokens, t, k, m, st, c, j)
      BY <3>1, <3>4, <3>5 DEF AllEnding, Ending
    <3> QED BY <3>6
  <2>5. t.kind # "null"
    BY <2>2
  <2>6. Top(s, tokens, t, k, m, st)
    BY <2>2, <2>3, <2>4, <2>5 DEF Top
  <2> QED BY <2>1, <2>6 DEF t
<1> QED BY <1>3, <1>4, <1>5

-----------------------------------------------------------------------------
(* The hidden tokens around the topmost tree *)

\* A tree with hidden tokens added around it.
Outer(t, pre, post) == [[t EXCEPT !.prefix = @ \o pre] EXCEPT !.suffix = @ \o post]

\* The rules of the visitor, without prefixes first.
LEMMA DumpCat ==
  ASSUME NEW s, Len(s) \in Nat, NEW c, NEW t, t \in TreesOf(s), t # c
  PROVE  /\ t.kind = "modifier" => Dump(s, t, c) = Cat(t.body, Dump(s, t.right, c))
         /\ t.kind = "expression" =>
              Dump(s, t, c) =
                Cat(Cat(Cat(Cat(t.prefix, Dump(s, t.left, c)), t.body), Dump(s, t.right, c)), t.suffix)
         /\ t.kind = "list" => Dump(s, t, c) = Cat(Cat(t.prefix, DumpAll(s, t.items, c)), t.suffix)
         /\ t.kind \in {"term", "field", "missing"} =>
              Dump(s, t, c) = Cat(Cat(t.prefix, t.body), t.suffix)
<1>1. DumpRules(s, c, t)
  BY DumpIs
<1> QED BY <1>1 DEF DumpRules, Cat

\* Its fields but the outermost tokens stay.
LEMMA OuterParts ==
  ASSUME NEW S, NEW t \in {Nothing} \cup LeafTrees \cup Nested(S), t.kind # "null", t.prefix = <<>>,
         NEW pre \in Seq(TokenSet), NEW post \in Seq(TokenSet)
  PROVE  LET o == Outer(t, pre, post)
         IN  /\ o \in LeafTrees \cup Nested(S) /\ (o \in LeafTrees <=> t \in LeafTrees)
             /\ o.kind = t.kind /\ o.prefix = pre /\ o.suffix = t.suffix \o post
             /\ t.kind # "list" => o.body = t.body
             /\ t.kind \in {"modifier", "expression"} => o.right = t.right
             /\ t.kind = "expression" => o.left = t.left
             /\ t.kind = "list" => o.items = t.items
<1> DEFINE o == Outer(t, pre, post)
<1>1. t.kind \in {"term", "field", "missing", "modifier", "expression", "list"}
  BY TreeKinds, ZenonT(60)
<1>2. <<>> \o pre = pre
  OBVIOUS
<1>3. CASE t \in LeafTrees
  <2>1. t.suffix \o post \in Seq(TokenSet)
    BY <1>3 DEF LeafTrees, TokenSeq, TokenSet
  <2>2. /\ o.kind = t.kind /\ o.prefix = pre /\ o.suffix = t.suffix \o post /\ o.body = t.body
    BY <1>2, <1>3 DEF LeafTrees, Outer
  <2>3. o \in LeafTrees
    BY <1>2, <1>3, <2>1 DEF LeafTrees, TokenSeq, TokenSet, Outer
  <2>4. t.kind \in {"term", "field", "missing"}
    BY <1>3 DEF LeafTrees
  <2> QED BY <1>3, <2>2, <2>3, <2>4
<1>4. CASE t.kind = "modifier"
  <2>1. t \in [kind : {"modifier"}, prefix : TokenSeq, body : TokenSeq, right : S, suffix : TokenSeq]
    BY <1>4 DEF Nothing, LeafTrees, Nested
  <2>2. t.suffix \o post \in TokenSeq /\ pre \in TokenSeq
    BY <2>1 DEF TokenSeq, TokenSet
  <2>3. /\ o.kind = t.kind /\ o.prefix = pre /\ o.suffix = t.suffix \o post /\ o.body = t.body
        /\ o.right = t.right
    BY <1>2, <2>1 DEF Outer
  <2>4. o \in [kind : {"modifier"}, prefix : TokenSeq, body : TokenSeq, right : S, suffix : TokenSeq]
    BY <1>2, <2>1, <2>2 DEF Outer
  <2>5. o \in Nested(S) /\ o \notin LeafTrees /\ t \notin LeafTrees
    BY <1>4, <2>3, <2>4 DEF Nested, LeafTrees
  <2> QED BY <1>4, <2>3, <2>5
<1>5. CASE t.kind = "expression"
  <2>1. t \in [kind : {"expression"}, prefix : TokenSeq, left : S, body : TokenSeq, right : S,
               suffix : TokenSeq]
    BY <1>5 DEF Nothing, LeafTrees, Nested
  <2>2. t.suffix \o post \in TokenSeq /\ pre \in TokenSeq
    BY <2>1 DEF TokenSeq, TokenSet
  <2>3. /\ o.kind = t.kind /\ o.prefix = pre /\ o.suffix = t.suffix \o post /\ o.body = t.body
        /\ o.right = t.right /\ o.left = t.left
    BY <1>2, <2>1 DEF Outer
  <2>4. o \in [kind : {"expression"}, prefix : TokenSeq, left : S, body : TokenSeq, right : S,
               suffix : TokenSeq]
    BY <1>2, <2>1, <2>2 DEF Outer
  <2>5. o \in Nested(S) /\ o \notin LeafTrees /\ t \notin LeafTrees
    BY <1>5, <2>3, <2>4 DEF Nested, LeafTrees
  <2> QED BY <1>5, <2>3, <2>5
<1>6. CASE t.kind = "list"
  <2>1. t \in [kind : {"list"}, prefix : TokenSeq, items : Seq(S), suffix : TokenSeq]
    BY <1>6 DEF Nothing, LeafTrees, Nested
  <2>2. t.suffix \o post \in TokenSeq /\ pre \in TokenSeq
    BY <2>1 DEF TokenSeq, TokenSet
  <2>3. /\ o.kind = t.kind /\ o.prefix = pre /\ o.suffix = t.suffix \o post
        /\ o.items = t.items
    BY <1>2, <2>1 DEF Outer
  <2>4. o \in [kind : {"list"}, prefix : TokenSeq, items : Seq(S), suffix : TokenSeq]
    BY <1>2, <2>1, <2>2 DEF Outer
  <2>5. o \in Nested(S) /\ o \notin LeafTrees /\ t \notin LeafTrees
    BY <1>6, <2>3, <2>4 DEF Nested, LeafTrees
  <2> QED BY <1>6, <2>3, <2>5
<1>7. t \in LeafTrees <=> t.kind \in {"term", "field", "missing"}
  BY TreeKinds
<1> QED BY <1>1, <1>3, <1>4, <1>5, <1>6, <1>7

\* What the visitors return of it.
LEMMA OuterIs ==
  ASSUME NEW s, NEW tokens, Lexed(s, tokens), NEW t \in Trees[Len(tokens) + 1],
         t.kind # "null", t.prefix = <<>>,
         NEW pre \in Seq(TokenSet), NEW post \in Seq(TokenSet)
  PROVE  LET o == Outer(t, pre, post)
         IN  /\ o \in Trees[Len(tokens) + 1] /\ o \in TreesOf(s) /\ t \in TreesOf(s)
             /\ o # Nothing /\ t # Nothing /\ o.kind = t.kind /\ (o \in LeafTrees <=> t \in LeafTrees)
             /\ \A c : t # c /\ o # c =>
                  /\ t.kind = "modifier" => Dump(s, o, c) = Dump(s, t, c)
                  /\ t.kind # "modifier" => Dump(s, o, c) = Cat(Cat(pre, Dump(s, t, c)), post)
<1> DEFINE o == Outer(t, pre, post)
           R == TreesOf(s)
<1>1. Len(tokens) \in Nat /\ Len(s) \in Nat /\ Len(tokens) + 1 \in Nat /\ 1 \in 1 .. Len(tokens) + 1
  <2>1. Len(tokens) \in Nat /\ Len(s) \in Nat
    BY DEF Lexed, Ordered
  <2> QED BY <2>1
<1>2. Trees[Len(tokens) + 1] \subseteq R
  BY <1>1, VisitedTrees
<1>3. PICK S : S = Trees[Len(tokens)]
  OBVIOUS
<1>4. t \in {Nothing} \cup LeafTrees \cup Nested(S) /\ LeafTrees \cup Nested(S) \subseteq Trees[Len(tokens) + 1]
  <2>1. PICK h : h = Len(tokens) + 1
    OBVIOUS
  <2>2. h \in Nat /\ h # 0 /\ h - 1 = Len(tokens)
    BY <1>1, <2>1
  <2>3. t \in {Nothing} \cup LeafTrees \cup Nested(Trees[h - 1])
    BY <2>1, <2>2, Inside
  <2>4. LeafTrees \subseteq Trees[h] /\ Nested(Trees[Len(tokens)]) \subseteq Trees[Len(tokens) + 1]
    BY <1>1, <2>2, NestedHigher
  <2> QED BY <1>3, <2>1, <2>2, <2>3, <2>4
<1>5. /\ o \in LeafTrees \cup Nested(S) /\ (o \in LeafTrees <=> t \in LeafTrees)
      /\ o.kind = t.kind /\ o.prefix = pre /\ o.suffix = Cat(t.suffix, post)
      /\ t.kind # "list" => o.body = t.body
      /\ t.kind \in {"modifier", "expression"} => o.right = t.right
      /\ t.kind = "expression" => o.left = t.left
      /\ t.kind = "list" => o.items = t.items
  <2>1. /\ o \in LeafTrees \cup Nested(S) /\ (o \in LeafTrees <=> t \in LeafTrees)
        /\ o.kind = t.kind /\ o.prefix = pre /\ o.suffix = t.suffix \o post
        /\ t.kind # "list" => o.body = t.body
        /\ t.kind \in {"modifier", "expression"} => o.right = t.right
        /\ t.kind = "expression" => o.left = t.left
        /\ t.kind = "list" => o.items = t.items
    BY <1>4, OuterParts
  <2> QED BY <2>1 DEF Cat
<1> HIDE DEF o
<1>6. o \in Trees[Len(tokens) + 1] /\ o \in R /\ t \in R /\ o # Nothing /\ t # Nothing
  BY <1>2, <1>4, <1>5 DEF Nothing
<1>7. /\ t.kind \in {"term", "field", "missing", "modifier", "expression", "list"}
      /\ t.prefix \in Seq(TokenSet) /\ t.suffix \in Seq(TokenSet)
      /\ t.kind # "list" => t.body \in Seq(TokenSet)
      /\ t.kind \in {"modifier", "expression"} => t.right \in S
      /\ t.kind = "expression" => t.left \in S
      /\ t.kind = "list" => t.items \in Seq(S)
  BY <1>4, TreeKinds
<1>8. S \subseteq R /\ Nothing \in R
  <2>1. Trees[Len(tokens)] \subseteq Trees[Len(tokens) + 1]
    <3>1. Len(tokens) <= Len(tokens) + 1
      BY <1>1
    <3> QED BY <1>1, <3>1, TreesGrow
  <2>2. Nothing \in R
    BY <1>1, VisitedTrees
  <2> QED BY <1>2, <1>3, <2>1, <2>2
<1>9. /\ \A p, q \in Seq(TokenSet) : Cat(p, q) \in Seq(TokenSet)
      /\ \A p, q, r \in Seq(TokenSet) : Cat(Cat(p, q), r) = Cat(p, Cat(q, r))
      /\ \A p \in Seq(TokenSet) : Cat(<<>>, p) = p /\ Cat(p, <<>>) = p
  BY CatLaws, Zenon
<1>10. ASSUME NEW c, t # c, o # c
       PROVE  /\ t.kind = "modifier" => Dump(s, o, c) = Dump(s, t, c)
              /\ t.kind # "modifier" => Dump(s, o, c) = Cat(Cat(pre, Dump(s, t, c)), post)
  <2>10. Len(s) \in Nat /\ t \in TreesOf(s) /\ o \in TreesOf(s)
    BY <1>1, <1>6
  <2>0. /\ t.kind = "modifier" => Dump(s, t, c) = Cat(t.body, Dump(s, t.right, c))
        /\ t.kind = "expression" =>
             Dump(s, t, c) =
               Cat(Cat(Cat(Cat(t.prefix, Dump(s, t.left, c)), t.body), Dump(s, t.right, c)), t.suffix)
        /\ t.kind = "list" => Dump(s, t, c) = Cat(Cat(t.prefix, DumpAll(s, t.items, c)), t.suffix)
        /\ t.kind \in {"term", "field", "missing"} =>
             Dump(s, t, c) = Cat(Cat(t.prefix, t.body), t.suffix)
    BY <1>10, <2>10, DumpCat
  <2>1. /\ o.kind = "modifier" => Dump(s, o, c) = Cat(o.body, Dump(s, o.right, c))
        /\ o.kind = "expression" =>
             Dump(s, o, c) =
               Cat(Cat(Cat(Cat(o.prefix, Dump(s, o.left, c)), o.body), Dump(s, o.right, c)), o.suffix)
        /\ o.kind = "list" => Dump(s, o, c) = Cat(Cat(o.prefix, DumpAll(s, o.items, c)), o.suffix)
        /\ o.kind \in {"term", "field", "missing"} =>
             Dump(s, o, c) = Cat(Cat(o.prefix, o.body), o.suffix)
    BY <1>10, <2>10, DumpCat
  <2>2. ASSUME NEW x \in Seq(TokenSet), Dump(s, t, c) = Cat(Cat(<<>>, x), t.suffix),
               Dump(s, o, c) = Cat(Cat(pre, x), Cat(t.suffix, post))
        PROVE  Dump(s, o, c) = Cat(Cat(pre, Dump(s, t, c)), post)
    <3>1. Dump(s, t, c) = Cat(x, t.suffix)
      BY <1>9, <2>2, Zenon
    <3>2. Cat(Cat(pre, x), Cat(t.suffix, post)) = Cat(Cat(pre, Cat(x, t.suffix)), post)
      <4>1. PICK f : f = t.suffix
        OBVIOUS
      <4>2. f \in Seq(TokenSet)
        BY <1>7, <4>1
      <4>3. Cat(Cat(pre, x), Cat(f, post)) = Cat(Cat(pre, Cat(x, f)), post)
        BY <4>2, Wrapped
      <4> QED BY <4>1, <4>3
    <3> QED BY <2>2, <3>1, <3>2, Zenon
  <2>3. CASE t.kind = "modifier"
    BY <1>5, <2>0, <2>1, <2>3
  <2>4. CASE t.kind = "expression"
    <3>1. t.left \in R /\ t.right \in R
      BY <1>7, <1>8, <2>4
    <3>2. Dump(s, t.left, c) \in Seq(TokenSet) /\ Dump(s, t.right, c) \in Seq(TokenSet)
      BY <1>1, <3>1, VisitorTypes
    <3>3. PICK l, b, r : l = Dump(s, t.left, c) /\ b = t.body /\ r = Dump(s, t.right, c)
      OBVIOUS
    <3>4. l \in Seq(TokenSet) /\ b \in Seq(TokenSet) /\ r \in Seq(TokenSet)
      BY <1>7, <2>4, <3>2, <3>3
    <3>5. Dump(s, t, c) = Cat(Cat(Cat(Cat(<<>>, l), b), r), t.suffix)
      BY <2>0, <2>4, <3>3
    <3>6. Dump(s, o, c) = Cat(Cat(Cat(Cat(pre, l), b), r), Cat(t.suffix, post))
      BY <1>5, <2>1, <2>4, <3>3
    <3>7. PICK x : x = Cat(Cat(l, b), r)
      OBVIOUS
    <3>8. x \in Seq(TokenSet)
      BY <1>9, <3>4, <3>7, Zenon
    <3>9. ASSUME NEW a \in Seq(TokenSet) PROVE Cat(Cat(Cat(a, l), b), r) = Cat(a, x)
      <4>1. Cat(Cat(a, l), b) = Cat(a, Cat(l, b))
        <5>1. a \in Seq(TokenSet) /\ l \in Seq(TokenSet) /\ b \in Seq(TokenSet)
          BY <3>4
        <5> QED BY <5>1, CatAssociates
      <4>2. Cat(l, b) \in Seq(TokenSet)
        BY <1>9, <3>4, Zenon
      <4>3. \A y \in Seq(TokenSet) : Cat(Cat(a, y), r) = Cat(a, Cat(y, r))
        BY <1>9, <3>4
      <4>4. Cat(Cat(a, Cat(l, b)), r) = Cat(a, Cat(Cat(l, b), r))
        BY <4>2, <4>3, Zenon
      <4> QED BY <3>7, <4>1, <4>4, Zenon
    <3>10. <<>> \in Seq(TokenSet)
      OBVIOUS
    <3>11. Cat(Cat(Cat(<<>>, l), b), r) = Cat(<<>>, x) /\ Cat(Cat(Cat(pre, l), b), r) = Cat(pre, x)
      BY <3>9, <3>10, Zenon
    <3>12. Dump(s, o, c) = Cat(Cat(pre, Dump(s, t, c)), post)
      BY <2>2, <3>5, <3>6, <3>8, <3>11, Zenon
    <3> QED BY <2>4, <3>12
  <2>5. CASE t.kind = "list"
    <3>1. t.items \in Seq(R)
      <4> HIDE DEF R
      <4> QED BY <1>7, <1>8, <2>5
    <3>2. DumpAll(s, t.items, c) \in Seq(TokenSet)
      BY <1>1, <1>8, <3>1, AllIs
    <3>3. Dump(s, o, c) = Cat(Cat(pre, Dump(s, t, c)), post)
      BY <1>5, <1>7, <2>0, <2>1, <2>2, <2>5, <3>2, Zenon
    <3> QED BY <2>5, <3>3
  <2>6. CASE t.kind \in {"term", "field", "missing"}
    <3>1. t.body \in Seq(TokenSet) /\ o.body = t.body
      BY <1>5, <1>7, <2>6
    <3>2. Dump(s, o, c) = Cat(Cat(pre, Dump(s, t, c)), post)
      BY <1>5, <1>7, <2>0, <2>1, <2>2, <2>6, <3>1, Zenon
    <3> QED BY <2>6, <3>2
  <2> QED BY <1>7, <2>3, <2>4, <2>5, <2>6
<1> QED BY <1>5, <1>6, <1>10 DEF o

-----------------------------------------------------------------------------
(* What the parser makes of a query *)

\* What is parsed: a topmost tree, with the hidden tokens before and behind it.
Shape(s, tokens, p, t, n, m, h, l, x) ==
    /\ Top(s, tokens, t, n, m, x)
    /\ n \in 1 .. Len(tokens) + 1 /\ h \in m .. Len(tokens) + 1 /\ l \in h .. Len(tokens) + 1
    /\ p.tree = Outer(t, Slice(tokens, 1, n), Slice(tokens, h, l))
    /\ p.errors = <<>> /\ ~p.thrown =>
         Fine(x) /\ m = Len(tokens) + 1 /\ \A i \in 1 .. n - 1 : TypeAt(tokens, i) = "WS"

\* What is parsed has some such shape.
Outcome(s, tokens, p) == \E t, n, m, h, l, x : Shape(s, tokens, p, t, n, m, h, l, x)

\* So it has, from the first token on.
LEMMA ParsedShape ==
  ASSUME NEW s, NEW tokens, Lexed(s, tokens), NEW st, Sits(tokens, st, 1)
  PROVE  Outcome(s, tokens, ParsedTokens(st))
<1> DEFINE start == SkipHidden(st)
           spaces == HiddenAt(st)
           list == Items[start]
           e == IF At(list.st, {"EOF"}) THEN list.st ELSE Recover(list.st, "parse", "unexpected")
           t == TreeOf(list.tree)
<1>1. Ordered(tokens) /\ tokens \in Seq(TokenSet) /\ Len(tokens) \in Nat
  BY SMTT(40) DEF Lexed, Ordered
<1>2. ParsedTokens(st) =
        [tree |-> Outer(t, spaces, HiddenAt(e)), errors |-> SkipHidden(e).errors,
         thrown |-> SkipHidden(e).thrown]
  BY DEF ParsedTokens, Parsed, Exprs, Result, AtEnd, Suffixed, Outer
<1>3. PICK n \in 1 .. Len(tokens) + 1 :
        /\ Sits(tokens, start, n) /\ TypeAt(tokens, n) \notin Hidden
        /\ TypeAt(tokens, 1) \notin Hidden => n = 1
        /\ spaces = Slice(tokens, 1, n)
        /\ Fine(start) => Fine(st) /\ \A i \in 1 .. n - 1 : TypeAt(tokens, i) = "WS"
  BY <1>1, HiddenPart, Zenon
<1> HIDE DEF start, spaces
<1>4. YieldsAll(s, tokens, n, start, list)
  BY <1>3, ItemsYield
<1> HIDE DEF list
<1>5. PICK m : Sits(tokens, list.st, m) /\ Pieces(s, tokens, list.tree, n, m, list.st)
  BY <1>4 DEF YieldsAll
<1>6. Top(s, tokens, t, n, m, list.st)
  BY <1>5, PiecesTop
<1> HIDE DEF t
<1>7. m \in Nat /\ 1 <= m /\ m <= Len(tokens) + 1
  BY <1>1, <1>5, SitsAt
<1>8. PICK h \in m .. Len(tokens) + 1 :
        Sits(tokens, e, h) /\ (Fine(e) => Fine(list.st) /\ m = Len(tokens) + 1)
  <2>1. CASE At(list.st, {"EOF"})
    <3>1. TypeAt(tokens, m) = "EOF"
      BY <1>1, <1>5, <2>1, SitsAt
    <3>2. m = Len(tokens) + 1
      BY <1>1, <1>5, <3>1, SitsAt
    <3>3. e = list.st /\ m \in m .. Len(tokens) + 1
      BY <1>7, <2>1
    <3> QED BY <1>5, <3>2, <3>3
  <2>2. CASE ~At(list.st, {"EOF"})
    <3>1. e = Recover(list.st, "parse", "unexpected") /\ "unexpected" \in Messages
      BY <2>2 DEF Messages
    <3>2. \E h \in m .. Len(tokens) + 1 : Sits(tokens, e, h) /\ ~Fine(e)
      <4> HIDE DEF e
      <4> QED BY <1>1, <1>5, <3>1, RecoverSits
    <3> HIDE DEF e
    <3> QED BY <3>2
  <2> QED BY <2>1, <2>2
<1> HIDE DEF e
<1>9. PICK l \in h .. Len(tokens) + 1 :
        /\ Sits(tokens, SkipHidden(e), l) /\ TypeAt(tokens, l) \notin Hidden
        /\ TypeAt(tokens, h) \notin Hidden => l = h
        /\ HiddenAt(e) = Slice(tokens, h, l)
        /\ Fine(SkipHidden(e)) => Fine(e) /\ \A i \in h .. l - 1 : TypeAt(tokens, i) = "WS"
  BY <1>1, <1>8, HiddenPart, Zenon
<1>10. PICK p : p = ParsedTokens(st)
  OBVIOUS
<1>11. /\ p.tree = Outer(t, Slice(tokens, 1, n), Slice(tokens, h, l))
       /\ p.errors = SkipHidden(e).errors /\ p.thrown = SkipHidden(e).thrown
  BY <1>2, <1>3, <1>9, <1>10
<1>12. p.errors = <<>> /\ ~p.thrown => Fine(SkipHidden(e))
  BY <1>11 DEF Fine
<1>13. Fine(list.st) => Fine(start)
  BY <1>4 DEF YieldsAll
<1>14. p.errors = <<>> /\ ~p.thrown =>
         Fine(list.st) /\ m = Len(tokens) + 1 /\ \A i \in 1 .. n - 1 : TypeAt(tokens, i) = "WS"
  BY <1>3, <1>8, <1>9, <1>12, <1>13
<1>15. Shape(s, tokens, p, t, n, m, h, l, list.st)
  BY <1>3, <1>6, <1>8, <1>9, <1>11, <1>14 DEF Shape
<1> QED BY <1>10, <1>15 DEF Outcome

\* So it has for every text.
LEMMA ParseShape ==
  ASSUME NEW s \in Seq(Characters)
  PROVE  Lexed(s, Tokens(s)) /\ Outcome(s, Tokens(s), Parse(s))
<1> DEFINE st == [rest |-> Tokens(s), errors |-> <<>>, eof |-> Len(s), thrown |-> FALSE]
           tokens == Tokens(s)
<1>1. Ordered(tokens) /\ Len(tokens) <= Len(s) + 1
  BY TokensOrdered
<1>2. Len(s) \in Nat
  OBVIOUS
<1>3. Lexed(s, tokens)
  BY <1>1, <1>2 DEF Lexed
<1>4. tokens \in Seq(TokenSet)
  BY <1>1 DEF Ordered
<1> HIDE DEF tokens
<1>5. st \in States /\ st.rest = tokens
  <2>1. States = [rest : Seq(TokenSet), errors : Seq(ErrorSet), eof : Nat, thrown : BOOLEAN]
    BY DEF States, TokenSet, ErrorSet
  <2>2. <<>> \in Seq(ErrorSet)
    OBVIOUS
  <2> QED BY <1>2, <1>4, <2>1, <2>2 DEF tokens
<1>6. Parse(s) = ParsedTokens(st)
  BY DEF Parse
<1> HIDE DEF st
<1>7. Sits(tokens, st, 1)
  <2>1. Len(tokens) \in Nat
    BY <1>4
  <2>2. Len(st.rest) = Len(tokens) + 1 - 1 /\ 1 \in 1 .. Len(tokens) + 1
    BY <1>5, <2>1
  <2>3. \A i \in 1 .. Len(st.rest) : st.rest[i] = tokens[1 + i - 1]
    BY <1>5, <2>1
  <2> QED BY <1>5, <2>2, <2>3 DEF Sits
<1>8. Outcome(s, tokens, ParsedTokens(st))
  BY <1>3, <1>7, ParsedShape
<1> QED BY <1>3, <1>6, <1>8 DEF tokens

\* What is dumped of a shape.
LEMMA ShapeDump ==
  ASSUME NEW s, NEW tokens, Lexed(s, tokens), NEW p, NEW t, NEW n, NEW m, NEW h, NEW l, NEW x,
         Shape(s, tokens, p, t, n, m, h, l, x)
  PROVE  /\ InOrder(tokens, 1, Len(tokens) + 1, Dump(s, p.tree, Nothing))
         /\ p.errors = <<>> /\ ~p.thrown =>
              /\ t.kind = "modifier" =>
                   Dump(s, p.tree, Nothing) = Slice(tokens, n, Len(tokens) + 1)
              /\ t.kind # "modifier" =>
                   Dump(s, p.tree, Nothing) = Slice(tokens, 1, Len(tokens) + 1)
         /\ p.tree.kind = t.kind
<1> DEFINE pre == Slice(tokens, 1, n)
           post == Slice(tokens, h, l)
           d == Dump(s, t, Nothing)
           N == Len(tokens) + 1
<1>1. Ordered(tokens) /\ tokens \in Seq(TokenSet) /\ Len(tokens) \in Nat
  BY DEF Lexed, Ordered
<1>2. /\ t \in Trees[Len(tokens) + 1] /\ t.kind # "null" /\ t.prefix = <<>>
      /\ Part(tokens, n, m, Dump(s, t, Nothing), x)
  BY DEF Shape, Top
<1>3. /\ n \in Nat /\ 1 <= n /\ m \in Nat /\ n <= m /\ m <= N /\ d \in Seq(TokenSet) /\ N \in Nat
      /\ InOrder(tokens, n, m, d)
  <2>1. InOrder(tokens, n, m, d)
    BY <1>2 DEF Part
  <2> HIDE DEF d
  <2>2. n \in Nat /\ 1 <= n /\ m \in Nat /\ n <= m /\ m <= N /\ d \in Seq(TokenSet)
    BY <1>1, <2>1, PartBounds
  <2> QED BY <1>1, <2>1, <2>2
<1>4. /\ h \in Nat /\ l \in Nat /\ m <= h /\ h <= l /\ l <= N
      /\ 1 \in 1 .. Len(tokens) + 1 /\ n \in 1 .. Len(tokens) + 1 /\ h \in 1 .. Len(tokens) + 1
      /\ l \in h .. Len(tokens) + 1
  BY <1>1, <1>3 DEF Shape
<1>5. pre \in Seq(TokenSet) /\ post \in Seq(TokenSet) /\ InOrder(tokens, 1, n, pre) /\ InOrder(tokens, h, l, post)
  <2>1. pre \in Seq(TokenSet) /\ post \in Seq(TokenSet)
    BY <1>1, <1>3, <1>4, SliceIs
  <2>2. InOrder(tokens, 1, n, pre) /\ InOrder(tokens, h, l, post)
    BY <1>1, <1>4, SliceInOrder
  <2> QED BY <2>1, <2>2
<1> DEFINE o == Outer(t, pre, post)
<1>6. p.tree = o
  BY DEF Shape
<1> HIDE DEF pre, post
<1>7. /\ o # Nothing /\ t # Nothing /\ o.kind = t.kind
      /\ \A c : t # c /\ o # c =>
           /\ t.kind = "modifier" => Dump(s, o, c) = Dump(s, t, c)
           /\ t.kind # "modifier" => Dump(s, o, c) = Cat(Cat(pre, Dump(s, t, c)), post)
  BY <1>2, <1>5, OuterIs
<1> HIDE DEF o, d
<1>8. /\ t.kind = "modifier" => Dump(s, o, Nothing) = d
      /\ t.kind # "modifier" => Dump(s, o, Nothing) = (pre \o d) \o post
  BY <1>7 DEF Cat, d
<1>9. InOrder(tokens, 1, N, Dump(s, o, Nothing))
  <2>1. InOrder(tokens, 1, N, d)
    <3>1. 1 \in 1 .. n /\ N \in m .. Len(tokens) + 1
      BY <1>1, <1>3
    <3> QED BY <1>1, <1>3, <3>1, InOrderBetween
  <2>2. InOrder(tokens, 1, N, (pre \o d) \o post)
    <3>1. InOrder(tokens, 1, m, pre \o d)
      <4>1. n <= n
        BY <1>3
      <4> QED BY <1>1, <1>3, <1>5, <4>1, InOrderJoins
    <3>2. PICK a : a = pre \o d
      OBVIOUS
    <3>3. InOrder(tokens, 1, l, a \o post)
      BY <1>1, <1>4, <1>5, <3>1, <3>2, InOrderJoins
    <3>4. N \in l .. Len(tokens) + 1 /\ 1 \in 1 .. 1
      BY <1>1, <1>4
    <3>5. PICK b : b = a \o post
      OBVIOUS
    <3>6. InOrder(tokens, 1, N, b)
      BY <1>1, <3>3, <3>4, <3>5, InOrderBetween
    <3> QED BY <3>2, <3>5, <3>6
  <2> QED BY <1>8, <2>1, <2>2
<1>10. ASSUME p.errors = <<>>, ~p.thrown
       PROVE  /\ t.kind = "modifier" => Dump(s, o, Nothing) = Slice(tokens, n, N)
              /\ t.kind # "modifier" => Dump(s, o, Nothing) = Slice(tokens, 1, N)
  <2>1. Fine(x) /\ m = N
    BY <1>10 DEF Shape
  <2>2. d = Slice(tokens, n, N)
    BY <1>2, <2>1 DEF Part, d
  <2>3. h = N /\ l = N
    BY <1>3, <1>4, <2>1
  <2>4. post = <<>>
    <3>1. 1 <= N /\ N <= N /\ N \in Nat /\ N <= Len(tokens) + 1
      BY <1>1
    <3>2. Slice(tokens, N, N) = <<>>
      BY <1>1, <3>1, SliceIs
    <3> QED BY <2>3, <3>2 DEF post
  <2>5. pre \o d = Slice(tokens, 1, N)
    <3>1. Slice(tokens, 1, n) \o Slice(tokens, n, N) = Slice(tokens, 1, N)
      <4>1. 1 \in Nat /\ 1 <= 1 /\ 1 <= n /\ n <= N /\ N <= Len(tokens) + 1
        BY <1>3
      <4> QED BY <1>1, <1>3, <4>1, SliceJoin, ZenonT(60)
    <3> QED BY <2>2, <3>1 DEF pre
  <2>6. (pre \o d) \o <<>> = pre \o d
    <3>1. pre \o d \in Seq(TokenSet)
      BY <1>3, <1>5
    <3>2. PICK a : a = pre \o d
      OBVIOUS
    <3> QED BY <3>1, <3>2
  <2> QED BY <1>8, <2>2, <2>4, <2>5, <2>6
<1> QED BY <1>6, <1>7, <1>9, <1>10

-----------------------------------------------------------------------------
(* What is written of the tokens *)

\* The character that the ith token starts with: the last is followed by the end.
From(s, tokens, i) == IF i <= Len(tokens) THEN tokens[i].begin + 1 ELSE Len(s) + 1

\* The characters of a token are those from its beginning to that of the next.
LEMMA FromIs ==
  ASSUME NEW s \in Seq(Characters), Escape \notin ToSet(s), NEW tokens, Tiled(s, 0, tokens)
  PROVE  /\ Len(tokens) \in Nat /\ Len(s) \in Nat
         /\ \A i \in 1 .. Len(tokens) + 1 :
              From(s, tokens, i) \in Nat /\ 1 <= From(s, tokens, i) /\ From(s, tokens, i) <= Len(s) + 1
         /\ \A i \in 1 .. Len(tokens) :
              /\ From(s, tokens, i) <= From(s, tokens, i + 1)
              /\ Text(s, tokens[i]) = Slice(s, From(s, tokens, i), From(s, tokens, i + 1))
         /\ From(s, tokens, 1) = 1 /\ From(s, tokens, Len(tokens) + 1) = Len(s) + 1
<1>1. tokens \in Seq(TokenSet) /\ Len(tokens) \in Nat /\ Len(s) \in Nat
  BY DEF Tiled
<1>2. \A i \in 1 .. Len(tokens) :
        /\ tokens[i].begin \in Nat /\ tokens[i].end \in Nat
        /\ End(tokens, i, 0) = tokens[i].begin /\ tokens[i].begin < tokens[i].end
        /\ tokens[i].begin <= Len(s)
  <2>1. \A i \in 1 .. Len(tokens) : tokens[i] \in TokenSet
    BY <1>1
  <2>2. \A t \in TokenSet : t.begin \in Nat /\ t.end \in Nat
    BY DEF TokenSet
  <2> QED BY <2>1, <2>2 DEF Tiled
<1>3. \A i \in 1 .. Len(tokens) : From(s, tokens, i) = tokens[i].begin + 1
  BY <1>1 DEF From
<1>4. From(s, tokens, Len(tokens) + 1) = Len(s) + 1
  BY <1>1 DEF From
<1>5. ASSUME NEW i \in 1 .. Len(tokens) + 1
      PROVE  From(s, tokens, i) \in Nat /\ 1 <= From(s, tokens, i) /\ From(s, tokens, i) <= Len(s) + 1
  <2>1. CASE i \in 1 .. Len(tokens)
    <3>1. PICK b : b = tokens[i].begin
      OBVIOUS
    <3>2. b \in Nat /\ b <= Len(s) /\ From(s, tokens, i) = b + 1
      BY <1>2, <1>3, <2>1, <3>1
    <3> QED BY <1>1, <3>2
  <2>2. CASE i = Len(tokens) + 1
    BY <1>1, <1>4, <2>2
  <2> QED BY <1>1, <2>1, <2>2
<1>6. ASSUME NEW i \in 1 .. Len(tokens)
      PROVE  /\ From(s, tokens, i) <= From(s, tokens, i + 1)
             /\ Text(s, tokens[i]) = Slice(s, From(s, tokens, i), From(s, tokens, i + 1))
  <2>1. PICK b, e, j, f, n : b = tokens[i].begin /\ e = tokens[i].end /\ j = i + 1
                             /\ f = From(s, tokens, i + 1) /\ n = Len(s)
    OBVIOUS
  <2>2. b \in Nat /\ e \in Nat /\ b < e /\ b <= n /\ n \in Nat /\ From(s, tokens, i) = b + 1
    BY <1>1, <1>2, <1>3, <2>1
  <2>3. f \in Nat /\ f <= n + 1 /\ (f = (IF e <= n THEN e ELSE n) + 1)
    <3>1. CASE i < Len(tokens)
      <4>1. j \in 1 .. Len(tokens) /\ j # 1 /\ j - 1 = i
        BY <1>1, <2>1, <3>1
      <4>2. tokens[j].begin = tokens[i].end
        BY <1>2, <4>1 DEF End
      <4>3. f = e + 1 /\ e <= n
        BY <1>2, <1>3, <2>1, <4>1, <4>2
      <4> QED BY <2>2, <4>3
    <3>2. CASE i = Len(tokens)
      <4>1. f = n + 1
        BY <1>4, <2>1, <3>2
      <4>2. tokens # <<>>
        BY <1>1, <3>2
      <4>3. e = n \/ e = n + 1
        BY <2>1, <3>2, <4>2 DEF Tiled
      <4> QED BY <2>2, <4>1, <4>3
    <3> QED BY <1>1, <3>1, <3>2
  <2>4. Min({e, n}) = f - 1
    <3>1. MinIs(e, n)
      BY <2>2, MinOfTwo
    <3> QED BY <2>2, <2>3, <3>1 DEF MinIs
  <2>5. b + 1 <= f
    BY <2>2, <2>3
  <2>6. Text(s, tokens[i]) = SubSeq(s, b + 1, f - 1)
    BY <2>1, <2>4 DEF Text
  <2> QED BY <2>1, <2>2, <2>5, <2>6 DEF Slice
<1>7. From(s, tokens, 1) = 1
  <2>1. CASE tokens = <<>>
    <3>1. 0 >= Len(s) /\ Len(tokens) = 0
      BY <2>1 DEF Tiled
    <3> QED BY <1>1, <1>4, <3>1
  <2>2. CASE tokens # <<>>
    <3>1. 1 \in 1 .. Len(tokens)
      BY <1>1, <2>2
    <3>2. tokens[1].begin = 0
      BY <1>2, <3>1 DEF End
    <3> QED BY <1>3, <3>1, <3>2
  <2> QED BY <2>1, <2>2
<1> QED BY <1>1, <1>4, <1>5, <1>6, <1>7

\* What is written of a slice of the tokens is a slice of the text.
LEMMA WrittenSlice ==
  ASSUME NEW s \in Seq(Characters), Escape \notin ToSet(s), NEW tokens, Tiled(s, 0, tokens),
         NEW k, NEW m, k \in 1 .. Len(tokens) + 1, m \in k .. Len(tokens) + 1
  PROVE  /\ Written(s, Slice(tokens, k, m)) = Slice(s, From(s, tokens, k), From(s, tokens, m))
         /\ From(s, tokens, k) <= From(s, tokens, m)
<1> DEFINE from(i) == From(s, tokens, i)
           d == Slice(tokens, k, m)
           texts == [i \in DOMAIN d |-> Text(s, d[i])]
<1>1. tokens \in Seq(TokenSet) /\ Len(tokens) \in Nat /\ Len(s) \in Nat
  BY DEF Tiled
<1>2. /\ \A i \in 1 .. Len(tokens) + 1 : from(i) \in Nat /\ 1 <= from(i) /\ from(i) <= Len(s) + 1
      /\ \A i \in 1 .. Len(tokens) :
           /\ from(i) <= from(i + 1)
           /\ Text(s, tokens[i]) = Slice(s, from(i), from(i + 1))
  BY FromIs
<1>3. /\ k \in Nat /\ 1 <= k /\ m \in Nat /\ k <= m /\ m <= Len(tokens) + 1
  BY <1>1
<1> HIDE DEF from
<1>4. PICK n : n = m - k
  OBVIOUS
<1>5. n \in Nat /\ k + n = m
  BY <1>3, <1>4
<1>6. /\ d \in Seq(TokenSet) /\ Len(d) = n
      /\ \A i \in 1 .. n : d[i] = tokens[k + i - 1] /\ k + i - 1 \in k .. m - 1
  BY <1>1, <1>3, <1>4, SliceIs
<1> HIDE DEF d
<1>7. DOMAIN d = 1 .. n
  BY <1>6
<1>8. ASSUME NEW i \in 1 .. n
      PROVE  /\ texts[i] = Slice(s, from(k + i - 1), from(k + i)) /\ texts[i] \in Seq(Characters)
             /\ from(k + i - 1) <= from(k + i)
             /\ k + i - 1 \in 1 .. Len(tokens)
  <2>1. PICK j : j = k + i - 1
    OBVIOUS
  <2>2. j \in 1 .. Len(tokens) /\ j \in 1 .. Len(tokens) + 1 /\ j + 1 \in 1 .. Len(tokens) + 1 /\ j + 1 = k + i
    BY <1>1, <1>3, <1>5, <2>1
  <2>3. texts[i] = Text(s, tokens[j])
    BY <1>6, <1>7, <2>1
  <2>4. texts[i] = Slice(s, from(j), from(j + 1))
    BY <1>2, <2>2, <2>3
  <2>5. PICK a, b : a = from(j) /\ b = from(j + 1)
    OBVIOUS
  <2>6. a \in Nat /\ b \in Nat /\ 1 <= a /\ a <= b /\ b <= Len(s) + 1
    BY <1>2, <2>2, <2>5
  <2>7. Slice(s, a, b) \in Seq(Characters)
    BY <2>6, SliceIs
  <2> QED BY <2>1, <2>2, <2>4, <2>5, <2>6, <2>7
<1>9. texts \in Seq(Seq(Characters)) /\ Len(texts) = n
  BY <1>5, <1>7, <1>8
<1>10. Written(s, d) = FlattenSeq(texts)
  BY DEF Written
<1> HIDE DEF texts
<1>11. PICK g \in [Nat -> Seq(Characters)] : Gathers(g, texts) /\ FlattenSeq(texts) = g[Len(texts)]
  BY <1>9, FlattenGathers
<1> DEFINE T == {i \in Nat : i <= n => g[i] = Slice(s, from(k), from(k + i)) /\ from(k) <= from(k + i)}
<1>12. from(k) \in Nat /\ 1 <= from(k) /\ from(k) <= Len(s) + 1
  BY <1>2
<1>13. 0 \in T
  <2>1. k + 0 = k
    BY <1>3
  <2>2. g[0] = <<>>
    BY <1>11 DEF Gathers
  <2>3. PICK a : a = from(k)
    OBVIOUS
  <2>4. Slice(s, a, a) = <<>>
    BY <1>12, <2>3, SliceIs, SMTT(40)
  <2> QED BY <1>12, <2>1, <2>2, <2>3, <2>4
<1>14. ASSUME NEW i \in Nat, i \in T PROVE i + 1 \in T
  <2>1. i \in T /\ i + 1 \in Nat
    BY <1>14
  <2>2. i <= n => g[i] = Slice(s, from(k), from(k + i)) /\ from(k) <= from(k + i)
    BY <2>1
  <2> HIDE DEF T
  <2>3. ASSUME i + 1 <= n
        PROVE  g[i + 1] = Slice(s, from(k), from(k + (i + 1))) /\ from(k) <= from(k + (i + 1))
    <3>1. PICK h : h = i + 1
      OBVIOUS
    <3>2. /\ i <= n /\ h \in 1 .. n /\ h - 1 = i /\ k + h - 1 = k + i
          /\ k + i \in 1 .. Len(tokens) + 1 /\ k + h \in 1 .. Len(tokens) + 1
      <4>1. h \in Nat /\ h <= n /\ 1 <= h /\ i <= n /\ h - 1 = i
        BY <1>5, <2>3, <3>1
      <4>2. k + h - 1 = k + i
        BY <1>3, <3>1
      <4>3. PICK a, b, N : a = k + i /\ b = k + h /\ N = Len(tokens)
        OBVIOUS
      <4>4. a \in 1 .. N + 1 /\ b \in 1 .. N + 1
        <5>1. N \in Nat /\ k \in Nat /\ n \in Nat /\ 1 <= k /\ k + n <= N + 1 /\ i \in Nat
          BY <1>1, <1>3, <1>5, <4>3
        <5>2. a \in Nat /\ 1 <= a /\ a <= N + 1
          BY <4>1, <4>3, <5>1
        <5>3. b \in Nat /\ 1 <= b /\ b <= N + 1
          BY <4>1, <4>3, <5>1
        <5> QED BY <5>1, <5>2, <5>3
      <4> QED BY <1>5, <4>1, <4>2, <4>3, <4>4
    <3>3. texts[h] = Slice(s, from(k + i), from(k + h)) /\ from(k + i) <= from(k + h)
      BY <1>8, <3>2
    <3>4. g[h] = g[i] \o texts[h]
      BY <1>9, <1>11, <3>2 DEF Gathers
    <3>5. PICK a, b, c : a = from(k) /\ b = from(k + i) /\ c = from(k + h)
      OBVIOUS
    <3>6. a \in Nat /\ b \in Nat /\ c \in Nat /\ 1 <= a /\ a <= b /\ b <= c /\ c <= Len(s) + 1
      BY <1>2, <1>12, <2>2, <3>2, <3>3, <3>5
    <3>7. Slice(s, a, b) \o Slice(s, b, c) = Slice(s, a, c)
      BY <3>6, SliceJoin
    <3>8. g[h] = Slice(s, a, c)
      BY <2>2, <3>2, <3>3, <3>4, <3>5, <3>7
    <3>9. a <= c
      BY <3>6
    <3> QED BY <3>1, <3>5, <3>8, <3>9
  <2> QED BY <2>1, <2>3 DEF T
<1>15. Nat \subseteq T
  <2> HIDE DEF T
  <2> QED BY <1>13, <1>14, NatSetInduction
<1>16. g[n] = Slice(s, from(k), from(m)) /\ from(k) <= from(m)
  <2>1. n \in T
    <3> HIDE DEF T
    <3> QED BY <1>5, <1>15
  <2>2. n <= n
    BY <1>5
  <2>3. g[n] = Slice(s, from(k), from(k + n)) /\ from(k) <= from(k + n)
    BY <2>1, <2>2
  <2> QED BY <1>5, <2>3
<1> QED BY <1>9, <1>10, <1>11, <1>16 DEF from, d

-----------------------------------------------------------------------------
(* What is dumped of a query *)

\* DumpInOrder, of what is parsed.
DumpedInOrder(s, p) ==
    LET dumped == Dump(s, p.tree, Nothing)
    IN  \A i \in DOMAIN dumped : dumped[i] \in ToSet(Tokens(s))
                                 /\ (i > 1 => dumped[i - 1].end <= dumped[i].begin)

\* DumpInOrder, of what is parsed of every text.
LEMMA ParseInOrder ==
  ASSUME NEW s \in Seq(Characters)
  PROVE  DumpedInOrder(s, Parse(s))
<1>1. PICK tokens, p : tokens = Tokens(s) /\ p = Parse(s)
  OBVIOUS
<1>2. Lexed(s, tokens) /\ Outcome(s, tokens, p)
  BY <1>1, ParseShape
<1>3. PICK t, n, m, h, l, x : Shape(s, tokens, p, t, n, m, h, l, x)
  BY <1>2 DEF Outcome
<1>4. PICK d : d = Dump(s, p.tree, Nothing)
  OBVIOUS
<1>5. InOrder(tokens, 1, Len(tokens) + 1, d)
  BY <1>2, <1>3, <1>4, ShapeDump
<1>6. Ordered(tokens) /\ tokens \in Seq(TokenSet) /\ Len(tokens) \in Nat
  BY <1>2 DEF Lexed, Ordered
<1>7. d \in Seq(TokenSet) /\ DOMAIN d = 1 .. Len(d) /\ Len(d) \in Nat
  BY <1>5 DEF InOrder
<1>8. ASSUME NEW i \in 1 .. Len(d)
      PROVE  d[i] \in ToSet(tokens) /\ (i > 1 => d[i - 1].end <= d[i].begin)
  <2>1. PICK j \in 1 .. Len(tokens) + 1 - 1 : d[i] = tokens[j]
    BY <1>5 DEF InOrder
  <2>2. j \in DOMAIN tokens
    BY <1>6, <2>1
  <2>3. d[i] \in ToSet(tokens)
    BY <2>1, <2>2 DEF ToSet
  <2>4. i > 1 => i # 1
    BY <1>7
  <2>5. i > 1 => d[i - 1].end <= d[i].begin
    BY <1>5, <2>4 DEF InOrder
  <2> QED BY <2>3, <2>5
<1> QED BY <1>1, <1>4, <1>7, <1>8 DEF DumpedInOrder

\* LosslessDump, of what is parsed.
WrittenAsTyped(s, p) ==
    LET dumped == Dump(s, p.tree, Nothing) IN
    Escape \notin ToSet(s) /\ p.errors = <<>> /\ ~p.thrown =>
        Written(s, dumped) =
            IF p.tree.kind = "modifier" THEN SubSeq(s, dumped[1].begin + 1, Len(s)) ELSE s

\* LosslessDump, of what is parsed of every text.
LEMMA ParseLossless ==
  ASSUME NEW s \in Seq(Characters)
  PROVE  WrittenAsTyped(s, Parse(s))
<1>1. PICK tokens, p : tokens = Tokens(s) /\ p = Parse(s)
  OBVIOUS
<1>2. Lexed(s, tokens) /\ Outcome(s, tokens, p) /\ Tiled(s, 0, tokens)
  BY <1>1, ParseShape, TokensTiled
<1>3. PICK t, n, m, h, l, x : Shape(s, tokens, p, t, n, m, h, l, x)
  BY <1>2 DEF Outcome
<1>4. PICK d : d = Dump(s, p.tree, Nothing)
  OBVIOUS
<1> DEFINE N == Len(tokens) + 1
<1>5. /\ p.tree.kind = t.kind
      /\ p.errors = <<>> /\ ~p.thrown =>
           /\ t.kind = "modifier" => d = Slice(tokens, n, N)
           /\ t.kind # "modifier" => d = Slice(tokens, 1, N)
  BY <1>2, <1>3, <1>4, ShapeDump
<1> SUFFICES ASSUME Escape \notin ToSet(s), p.errors = <<>>, ~p.thrown
             PROVE  Written(s, d) = IF t.kind = "modifier" THEN SubSeq(s, d[1].begin + 1, Len(s)) ELSE s
  BY <1>1, <1>4, <1>5 DEF WrittenAsTyped
<1>6. tokens \in Seq(TokenSet) /\ Len(tokens) \in Nat /\ N \in Nat /\ Len(s) \in Nat
  BY <1>2 DEF Tiled
<1>7. From(s, tokens, 1) = 1 /\ From(s, tokens, Len(tokens) + 1) = Len(s) + 1
  BY <1>2, FromIs
<1>8. /\ Top(s, tokens, t, n, m, x) /\ n \in 1 .. Len(tokens) + 1
      /\ Fine(x) /\ m = Len(tokens) + 1
  BY <1>3 DEF Shape
<1>9. CASE t.kind = "modifier"
  <2>1. t # Missing
    BY <1>9 DEF Missing, Leaf
  <2>2. PICK c, j : Ending(s, tokens, t, n, m, x, c, j)
    BY <1>8, <2>1 DEF Top
  <2>3. j \in n .. m - 1
    BY <2>2 DEF Ending
  <2>4. n \in Nat /\ 1 <= n /\ n < N /\ N <= Len(tokens) + 1
    BY <1>6, <1>8, <2>3
  <2>5. d = Slice(tokens, n, N)
    BY <1>5, <1>9
  <2>6. d[1] = tokens[n]
    BY <1>6, <2>4, <2>5, SliceFirst
  <2>7. n \in 1 .. Len(tokens) + 1 /\ N \in n .. Len(tokens) + 1 /\ n <= Len(tokens)
    BY <1>6, <2>4
  <2>8. Written(s, d) = Slice(s, From(s, tokens, n), From(s, tokens, N))
    BY <1>2, <2>5, <2>7, WrittenSlice
  <2>9. From(s, tokens, n) = d[1].begin + 1
    BY <2>6, <2>7 DEF From
  <2>10. Slice(s, d[1].begin + 1, Len(s) + 1) = SubSeq(s, d[1].begin + 1, Len(s))
    <3>1. PICK a, b : a = d[1].begin + 1 /\ b = Len(s) + 1
      OBVIOUS
    <3>2. b - 1 = Len(s)
      BY <1>6, <3>1
    <3>3. Slice(s, a, b) = SubSeq(s, a, b - 1)
      BY DEF Slice
    <3> QED BY <3>1, <3>2, <3>3, Zenon
  <2> QED BY <1>7, <1>9, <2>8, <2>9, <2>10
<1>10. CASE t.kind # "modifier"
  <2>1. d = Slice(tokens, 1, N)
    BY <1>5, <1>10
  <2>2. 1 \in 1 .. Len(tokens) + 1 /\ N \in 1 .. Len(tokens) + 1
    BY <1>6
  <2>3. Written(s, d) = Slice(s, From(s, tokens, 1), From(s, tokens, N))
    BY <1>2, <2>1, <2>2, WrittenSlice
  <2>4. Written(s, d) = SubSeq(s, 1, Len(s))
    BY <1>6, <1>7, <2>3 DEF Slice
  <2> QED BY <1>10, <2>4
<1> QED BY <1>9, <1>10

-----------------------------------------------------------------------------
(* The spaces of a query *)

\* A token of spaces holds nothing else.
LEMMA ScanWhite ==
  ASSUME NEW s \in Seq(Characters), Escape \notin ToSet(s), NEW p \in Nat
  PROVE  \A q \in Nat : p <= q /\ q < Scan(s, "WS", p) => Char(s, q) \in Whitespace
<1> DEFINE Go == {i \in Nat : GoesOn("WS", Char(s, i))}
           Then == [i \in Nat |-> i + 1]
           Good(i) == \A q \in Nat : i <= q /\ q < Scan(s, "WS", i) => Char(s, q) \in Whitespace
           T == {i \in Nat : Good(i)}
<1>1. ASSUME NEW i \in Nat
      PROVE  Scan(s, "WS", i) = IF GoesOn("WS", Char(s, i)) THEN Scan(s, "WS", i + 1) ELSE i
  <2>1. Peek(s, i, 0) = i
    BY Stays
  <2> QED BY <2>1, ScanUnfolds
<1>2. ASSUME NEW i \in Go
      PROVE  i < Len(s) /\ i < Then[i] /\ (Then[i] \in T => i \in T)
  <2>1. i < Len(s) /\ i \in Nat /\ Then[i] = i + 1 /\ Char(s, i) \in Whitespace
    BY GoesOnInside DEF GoesOn
  <2>2. Scan(s, "WS", i) = Scan(s, "WS", i + 1)
    BY <1>1
  <2>3. ASSUME Good(i + 1) PROVE Good(i)
    <3> SUFFICES ASSUME NEW q \in Nat, i <= q, q < Scan(s, "WS", i) PROVE Char(s, q) \in Whitespace
      OBVIOUS
    <3>1. CASE q = i
      BY <2>1, <3>1
    <3>2. CASE q # i
      <4>1. i + 1 <= q
        BY <2>1, <3>2
      <4>2. q < Scan(s, "WS", i + 1)
        BY <2>2
      <4> QED BY <2>3, <4>1, <4>2
    <3> QED BY <3>1, <3>2
  <2> HIDE DEF Good, Go
  <2> QED BY <2>1, <2>3
<1>3. ASSUME NEW i \in Nat, i \notin Go PROVE i \in T
  <2>1. Scan(s, "WS", i) = i
    BY <1>1, <1>3
  <2> QED BY <2>1
<1>4. Nat \subseteq T
  <2>1. Go \in SUBSET Nat /\ Then \in [Nat -> Nat] /\ Len(s) \in Nat
    OBVIOUS
  <2> HIDE DEF Go, Then, T
  <2> QED BY <1>2, <1>3, <2>1, LaterFirst
<1> QED BY <1>4

\* No symbol is a space.
LEMMA SymbolVisible ==
  ASSUME NEW s, NEW p, NEW la
  PROVE  SymbolAt(s, p, la).type # "WS"
<1>1. \A begin, end, type : Token(type, begin, end).type = type
  BY DEF Token
<1>2. phrase(s, p).type = "PHRASE" /\ range(s, p).type \in {"ERROR", "TERM"} /\ term(s, p).type = "TERM"
  BY <1>1 DEF phrase, range, term
<1> QED BY <1>1, <1>2 DEF SymbolAt

\* A token of spaces is white, any other does not begin with a space.
LEMMA NextWhite ==
  ASSUME NEW s \in Seq(Characters), Escape \notin ToSet(s), NEW p \in Nat, p < Len(s)
  PROVE  LET t == next(s, p)
         IN  /\ t.begin = p
             /\ t.type # "WS" => s[p + 1] \notin Whitespace
             /\ t.type = "WS" => \A q \in p + 1 .. t.end : s[q] \in Whitespace
<1> DEFINE la == Char(s, p)
           word == FirstWord(s, Peek(s, p, 0))
<1>1. next(s, p) = TokenAt(s, p, la, word)
  BY DEF next
<1>2. Found(s, p, next(s, p))
  BY NextToken
<1>3. next(s, p).begin = p /\ (next(s, p).type = "WS" => next(s, p).end <= Len(s)) /\ next(s, p).end \in Nat
  BY <1>2 DEF Found, TokenSet
<1>4. la = s[p + 1] /\ la # None /\ Len(s) \in Nat
  BY CharInside DEF Char
<1>5. Attempted(s, p, word)
  BY Stays, FirstWordAttempted
<1>6. CASE la \in Whitespace
  <2>1. next(s, p) = Token("WS", p, Scan(s, "WS", p))
    BY <1>1, <1>4, <1>6 DEF TokenAt
  <2>2. next(s, p).type = "WS" /\ next(s, p).end = Scan(s, "WS", p)
    BY <2>1 DEF Token
  <2>3. ASSUME NEW q \in p + 1 .. next(s, p).end PROVE s[q] \in Whitespace
    <3>1. PICK r : r = q - 1
      OBVIOUS
    <3>2. r \in Nat /\ p <= r /\ r < next(s, p).end /\ q = r + 1 /\ r < Len(s)
      BY <1>3, <1>4, <2>2, <3>1
    <3>3. Char(s, r) \in Whitespace
      BY <2>2, <3>2, ScanWhite
    <3>4. Char(s, r) = s[q]
      BY <3>2 DEF Char
    <3> QED BY <3>3, <3>4
  <2> QED BY <1>3, <2>2, <2>3
<1>7. CASE la \notin Whitespace
  <2>1. next(s, p) = VisibleAt(s, la, word)
    BY <1>1, <1>4, <1>7 DEF TokenAt
  <2> HIDE DEF word, la
  <2>2. VisibleAt(s, la, word).type # "WS"
    <3>1. CASE word.hit
      <4>1. word.type \in WordTypes
        BY <1>5, <3>1 DEF Attempted
      <4>2. word.type # "WS"
        BY <4>1 DEF WordTypes, Operator, Modifier
      <4> QED BY <3>1, <4>2 DEF VisibleAt, Token
    <3>2. CASE ~word.hit
      BY <3>2, SymbolVisible DEF VisibleAt
    <3> QED BY <3>1, <3>2
  <2> QED BY <1>3, <1>4, <1>7, <2>1, <2>2
<1> QED BY <1>6, <1>7

\* Each of the tokens is what the lexer finds at some position.
Drawn(s, tokens) == \A i \in 1 .. Len(tokens) : \E p \in Nat : p < Len(s) /\ tokens[i] = next(s, p)

\* Each token is the next one somewhere.
LEMMA TokensDrawn ==
  ASSUME NEW s \in Seq(Characters)
  PROVE  Drawn(s, Tokens(s))
<1> DEFINE from == CHOOSE f : TokensFrom(s, f)
           Go == {p \in Nat : next(s, p).type # "EOF"}
           Then == [p \in Nat |-> IF p \in Go THEN next(s, p).end ELSE 0]
           T == {p \in Nat : from[p] \in Seq(TokenSet) /\ Drawn(s, from[p])}
<1>1. Tokens(s) = from[0]
  BY DEF Tokens, TokensFrom
<1>2. TokensFrom(s, from)
  BY TokensFromExists
<1> HIDE DEF from
<1>3. ASSUME NEW p \in Nat
      PROVE  from[p] = IF next(s, p).type = "EOF" THEN <<>> ELSE <<next(s, p)>> \o from[next(s, p).end]
  BY <1>2 DEF TokensFrom
<1>4. ASSUME NEW p \in Go PROVE p < Len(s) /\ p < Then[p] /\ (Then[p] \in T => p \in T)
  <2>1. p < Len(s) /\ next(s, p) \in TokenSet /\ p < next(s, p).end /\ p \in Nat
    BY NextType
  <2>2. Then[p] = next(s, p).end
    OBVIOUS
  <2>3. from[p] = <<next(s, p)>> \o from[next(s, p).end]
    BY <1>3
  <2> HIDE DEF Go, Then
  <2>4. ASSUME Then[p] \in T PROVE p \in T
    <3>1. PICK e, t : e = next(s, p) /\ t = from[next(s, p).end]
      OBVIOUS
    <3>2. t \in Seq(TokenSet) /\ Drawn(s, t) /\ e \in TokenSet
      BY <2>1, <2>2, <2>4, <3>1
    <3>3. /\ <<e>> \o t \in Seq(TokenSet) /\ Len(<<e>> \o t) = Len(t) + 1 /\ (<<e>> \o t)[1] = e
          /\ \A i \in 2 .. Len(t) + 1 : (<<e>> \o t)[i] = t[i - 1] /\ i - 1 \in 1 .. Len(t)
          /\ Len(t) \in Nat
      BY <3>2, OneMore
    <3>4. ASSUME NEW i \in 1 .. Len(t) + 1
          PROVE  \E q \in Nat : q < Len(s) /\ (<<e>> \o t)[i] = next(s, q)
      <4>1. CASE i = 1
        BY <2>1, <3>1, <3>3, <4>1
      <4>2. CASE i # 1
        <5>1. i \in 2 .. Len(t) + 1
          BY <3>3, <4>2
        <5> QED BY <3>2, <3>3, <5>1 DEF Drawn
      <4> QED BY <4>1, <4>2
    <3>5. Drawn(s, <<e>> \o t)
      BY <3>3, <3>4 DEF Drawn
    <3>6. from[p] = <<e>> \o t
      BY <2>3, <3>1
    <3> QED BY <2>1, <3>3, <3>5, <3>6
  <2> QED BY <2>1, <2>2, <2>4
<1>5. ASSUME NEW p \in Nat, p \notin Go PROVE p \in T
  <2>1. from[p] = <<>>
    BY <1>3, <1>5
  <2>2. <<>> \in Seq(TokenSet) /\ 1 .. Len(<<>>) = {}
    OBVIOUS
  <2> QED BY <2>1, <2>2 DEF Drawn
<1>6. Nat \subseteq T
  <2>1. Go \in SUBSET Nat /\ Then \in [Nat -> Nat] /\ Len(s) \in Nat
    BY NextType
  <2> HIDE DEF Go, Then, T
  <2> QED BY <1>4, <1>5, <2>1, LaterFirst
<1> QED BY <1>1, <1>6

-----------------------------------------------------------------------------
(* What is trimmed *)

\* There are spaces only.
White(x) == \A i \in 1 .. Len(x) : x[i] \in Whitespace

\* Spaces aside, the sequence is from a to z.
Spans(x, a, z) ==
    /\ a \in 1 .. Len(x) /\ z \in a .. Len(x) /\ x[a] \notin Whitespace /\ x[z] \notin Whitespace
    /\ \A i \in 1 .. Len(x) : x[i] \notin Whitespace => a <= i /\ i <= z

\* A sequence that is not white spans something.
LEMMA DarkSpans ==
  ASSUME NEW S, NEW x \in Seq(S)
  PROVE  White(x) \/ \E a, z : Spans(x, a, z)
<1> DEFINE D == {i \in DOMAIN x : x[i] \notin Whitespace}
<1>1. DOMAIN x = 1 .. Len(x) /\ Len(x) \in Nat
  OBVIOUS
<1>2. CASE D = {}
  BY <1>1, <1>2 DEF White
<1>3. CASE D # {}
  <2>1. D \subseteq 1 .. Len(x) /\ D \subseteq Nat
    BY <1>1
  <2>2. \A i \in 1 .. Len(x) : x[i] \notin Whitespace => i \in D
    BY <1>1
  <2>3. \A i \in D : x[i] \notin Whitespace
    OBVIOUS
  <2> HIDE DEF D
  <2>4. PICK a \in D : \A i \in D : a <= i
    BY <1>3, <2>1, LeastNat
  <2>5. PICK z \in D : \A i \in D : i <= z
    BY <1>1, <1>3, <2>1, GreatestOf
  <2>6. Spans(x, a, z)
    BY <1>1, <2>1, <2>2, <2>3, <2>4, <2>5 DEF Spans
  <2> QED BY <2>6
<1> QED BY <1>2, <1>3

\* Trimming leaves what is spanned.
LEMMA TrimmedIs ==
  ASSUME NEW S, NEW x \in Seq(S)
  PROVE  /\ White(x) => Trimmed(x) = <<>>
         /\ \A a, z : Spans(x, a, z) => Trimmed(x) = Slice(x, a, z + 1)
         /\ Trimmed(x) \in Seq(S)
<1> DEFINE D == {i \in DOMAIN x : x[i] \notin Whitespace}
<1>1. DOMAIN x = 1 .. Len(x) /\ Len(x) \in Nat
  OBVIOUS
<1>2. Trimmed(x) = IF D = {} THEN <<>> ELSE SubSeq(x, Min(D), Max(D))
  BY DEF Trimmed
<1>3. White(x) => D = {}
  BY <1>1 DEF White
<1>4. ASSUME NEW a, NEW z, Spans(x, a, z)
      PROVE  Trimmed(x) = Slice(x, a, z + 1) /\ Trimmed(x) \in Seq(S)
  <2>1. a \in D /\ z \in D /\ (\A i \in D : a <= i /\ i <= z) /\ D \subseteq Nat
    BY <1>1, <1>4 DEF Spans
  <2> HIDE DEF D
  <2>2. \A y \in D : (\A i \in D : y <= i) => y = a
    BY <2>1
  <2>3. \A y \in D : (\A i \in D : y >= i) => y = z
    BY <2>1
  <2>4. Min(D) = CHOOSE y \in D : \A i \in D : y <= i
    BY DEF Min
  <2>5. Max(D) = CHOOSE y \in D : \A i \in D : y >= i
    BY DEF Max
  <2>6. Min(D) = a
    BY <2>1, <2>2, <2>4
  <2>7. Max(D) = z
    <3>1. \A i \in D : z >= i
      BY <2>1
    <3> QED BY <2>1, <2>3, <2>5, <3>1
  <2>8. Trimmed(x) = SubSeq(x, a, z)
    BY <1>2, <2>1, <2>6, <2>7
  <2>9. a \in Nat /\ z \in Nat /\ 1 <= a /\ a <= z + 1 /\ z + 1 <= Len(x) + 1 /\ z + 1 - 1 = z /\ z + 1 \in Nat
    BY <1>1, <1>4 DEF Spans
  <2>10. Trimmed(x) = Slice(x, a, z + 1)
    <3>1. PICK e : e = z + 1
      OBVIOUS
    <3>2. Slice(x, a, e) = SubSeq(x, a, e - 1) /\ e - 1 = z
      BY <2>9, <3>1 DEF Slice
    <3> QED BY <2>8, <3>1, <3>2
  <2>11. Slice(x, a, z + 1) \in Seq(S)
    BY <2>9, SliceIs
  <2> QED BY <2>10, <2>11
<1>5. White(x) => Trimmed(x) = <<>> /\ Trimmed(x) \in Seq(S)
  BY <1>2, <1>3
<1>6. Trimmed(x) \in Seq(S)
  BY <1>4, <1>5, DarkSpans
<1> QED BY <1>4, <1>5, <1>6

\* Spaces in front are trimmed away.
LEMMA TrimmedFront ==
  ASSUME NEW S, NEW w \in Seq(S), NEW x \in Seq(S), White(w)
  PROVE  Trimmed(w \o x) = Trimmed(x)
<1>1. PICK y, n : y = w \o x /\ n = Len(w)
  OBVIOUS
<1>2. /\ y \in Seq(S) /\ Len(y) = n + Len(x) /\ n \in Nat /\ Len(x) \in Nat
      /\ \A i \in 1 .. n : y[i] = w[i]
      /\ \A i \in n + 1 .. n + Len(x) : y[i] = x[i - n]
  BY <1>1, ConcatIs
<1>3. \A i \in 1 .. Len(y) : y[i] \notin Whitespace => i \in n + 1 .. n + Len(x)
  BY <1>1, <1>2, SMTT(40) DEF White
<1>4. CASE White(x)
  <2>1. ASSUME NEW i \in 1 .. Len(y), y[i] \notin Whitespace PROVE FALSE
    <3>1. PICK k : k = i - n
      OBVIOUS
    <3>2. i \in n + 1 .. n + Len(x) /\ k \in 1 .. Len(x)
      BY <1>2, <1>3, <2>1, <3>1
    <3> QED BY <1>2, <1>4, <2>1, <3>1, <3>2 DEF White
  <2>2. White(y)
    BY <2>1 DEF White
  <2>3. Trimmed(y) = <<>> /\ Trimmed(x) = <<>>
    BY <1>2, <1>4, <2>2, TrimmedIs
  <2> QED BY <1>1, <2>3
<1>5. ASSUME NEW a, NEW z, Spans(x, a, z) PROVE Trimmed(y) = Trimmed(x)
  <2>1. /\ a \in Nat /\ z \in Nat /\ 1 <= a /\ a <= z /\ z <= Len(x)
        /\ x[a] \notin Whitespace /\ x[z] \notin Whitespace
    BY <1>2, <1>5 DEF Spans
  <2>2. PICK b, e : b = n + a /\ e = n + z
    OBVIOUS
  <2>3. b \in n + 1 .. n + Len(x) /\ e \in n + 1 .. n + Len(x) /\ b - n = a /\ e - n = z /\ b <= e /\ e <= Len(y)
        /\ b \in 1 .. Len(y) /\ e \in b .. Len(y) /\ b \in Nat /\ e \in Nat
    BY <1>2, <2>1, <2>2, SMTT(40)
  <2>4. y[b] \notin Whitespace /\ y[e] \notin Whitespace
    BY <1>2, <2>1, <2>3
  <2>5. ASSUME NEW i \in 1 .. Len(y), y[i] \notin Whitespace PROVE b <= i /\ i <= e
    <3>1. PICK k : k = i - n
      OBVIOUS
    <3>2. i \in n + 1 .. n + Len(x) /\ k \in 1 .. Len(x) /\ i = n + k
      BY <1>2, <1>3, <2>5, <3>1
    <3>3. x[k] \notin Whitespace
      BY <1>2, <2>5, <3>1, <3>2
    <3>4. a <= k /\ k <= z
      BY <1>5, <3>2, <3>3 DEF Spans
    <3> QED BY <1>2, <2>1, <2>2, <3>2, <3>4, SMTT(40)
  <2>6. Spans(y, b, e)
    BY <2>3, <2>4, <2>5 DEF Spans
  <2>7. Trimmed(y) = Slice(y, b, e + 1) /\ Trimmed(x) = Slice(x, a, z + 1)
    BY <1>2, <1>5, <2>6, TrimmedIs
  <2>8. Slice(y, b, e + 1) = Slice(x, a, z + 1)
    <3>1. PICK u, v, l, d, f : u = Slice(y, b, d) /\ v = Slice(x, a, f) /\ l = f - a /\ d = e + 1 /\ f = z + 1
      OBVIOUS
    <3>2. /\ d \in Nat /\ f \in Nat /\ l \in Nat /\ d - b = l /\ f - a = l
          /\ 1 <= b /\ b <= d /\ d <= Len(y) + 1 /\ a <= f /\ f <= Len(x) + 1
      BY <1>2, <2>1, <2>2, <2>3, <3>1
    <3>3. u \in Seq(S) /\ Len(u) = l /\ \A i \in 1 .. l : u[i] = y[b + i - 1]
      <4>1. Slice(y, b, d) \in Seq(S) /\ Len(Slice(y, b, d)) = d - b
            /\ \A i \in 1 .. d - b : Slice(y, b, d)[i] = y[b + i - 1]
        <5>1. y \in Seq(S) /\ b \in Nat /\ d \in Nat /\ 1 <= b /\ b <= d /\ d <= Len(y) + 1
          BY <1>2, <2>3, <3>2
        <5> QED BY <5>1, SliceIs, SMTT(40)
      <4> QED BY <3>1, <3>2, <4>1
    <3>4. v \in Seq(S) /\ Len(v) = l /\ \A i \in 1 .. l : v[i] = x[a + i - 1]
      <4>1. Slice(x, a, f) \in Seq(S) /\ Len(Slice(x, a, f)) = f - a
            /\ \A i \in 1 .. f - a : Slice(x, a, f)[i] = x[a + i - 1]
        BY <2>1, <3>2, SliceIs
      <4> QED BY <3>1, <3>2, <4>1
    <3>5. ASSUME NEW i \in 1 .. l PROVE u[i] = v[i]
      <4>1. PICK q, r : q = b + i - 1 /\ r = a + i - 1
        OBVIOUS
      <4>2. q \in n + 1 .. n + Len(x) /\ q - n = r
        BY <1>2, <2>1, <2>2, <3>1, <3>2, <4>1
      <4>3. y[q] = x[r]
        BY <1>2, <4>2
      <4>4. u[i] = y[q] /\ v[i] = x[r]
        BY <3>3, <3>4, <4>1
      <4> QED BY <4>3, <4>4
    <3>6. u = v
      BY <3>3, <3>4, <3>5, SameElements
    <3> QED BY <3>1, <3>6
  <2> QED BY <2>7, <2>8
<1>6. White(x) \/ \E a, z : Spans(x, a, z)
  BY DarkSpans
<1> QED BY <1>1, <1>4, <1>5, <1>6

-----------------------------------------------------------------------------
(* What is kept of a query *)

\* The text before a segment, with what precedes it trimmed away.
UpToSegment(s, current) == SubSeq(Trimmed(s), 1, Len(Trimmed(s)) - Len(Trimmed(current)))

\* What comes before a segment at the end, trimmed in front.
LEMMA BeforeIs ==
  ASSUME NEW S, NEW s \in Seq(S), NEW f \in Nat, 1 <= f, f <= Len(s), s[f] \notin Whitespace,
         NEW a, NEW z, Spans(s, a, z)
  PROVE  /\ UpToSegment(s, Slice(s, f, Len(s) + 1)) = Slice(s, a, f)
         /\ a \in Nat /\ 1 <= a /\ a <= f
<1> DEFINE N == Len(s) + 1
           current == Slice(s, f, N)
           whole == Trimmed(s)
<1>1. Len(s) \in Nat /\ N \in Nat /\ f \in 1 .. Len(s)
  OBVIOUS
<1>2. /\ a \in Nat /\ z \in Nat /\ 1 <= a /\ a <= f /\ f <= z /\ z <= Len(s)
      /\ s[z] \notin Whitespace
  BY <1>1 DEF Spans
<1>3. /\ current \in Seq(S) /\ Len(current) = N - f
      /\ \A i \in 1 .. N - f : current[i] = s[f + i - 1]
  <2>1. PICK m : m = N
    OBVIOUS
  <2>2. m \in Nat /\ f <= m /\ m <= Len(s) + 1
    BY <1>1, <2>1
  <2>3. /\ Slice(s, f, m) \in Seq(S) /\ Len(Slice(s, f, m)) = m - f
        /\ \A i \in 1 .. m - f : Slice(s, f, m)[i] = s[f + i - 1]
    BY <2>2, SliceIs
  <2> QED BY <2>1, <2>3
<1>4. PICK e : e = z + 1 - f
  OBVIOUS
<1>5. e \in Nat /\ e \in 1 .. N - f /\ 1 \in 1 .. N - f /\ f + e - 1 = z /\ f + 1 - 1 = f
  BY <1>1, <1>2, <1>4
<1> HIDE DEF current
<1>6. Spans(current, 1, e)
  <2>1. current[1] = s[f] /\ current[e] = s[z]
    BY <1>3, <1>5
  <2>2. ASSUME NEW i \in 1 .. Len(current), current[i] \notin Whitespace PROVE 1 <= i /\ i <= e
    <3>1. PICK q : q = f + i - 1
      OBVIOUS
    <3>2. q \in 1 .. Len(s) /\ i \in 1 .. N - f
      BY <1>1, <1>3, <3>1
    <3>3. s[q] \notin Whitespace
      BY <1>3, <2>2, <3>1, <3>2
    <3>4. q <= z
      BY <3>2, <3>3 DEF Spans
    <3> QED BY <1>1, <1>2, <1>4, <3>1, <3>2, <3>4
  <2>3. 1 \in 1 .. Len(current) /\ e \in 1 .. Len(current)
    BY <1>1, <1>3, <1>5
  <2> QED BY <1>2, <2>1, <2>2, <2>3 DEF Spans
<1>7. Trimmed(current) = Slice(current, 1, e + 1)
  BY <1>3, <1>6, TrimmedIs
<1>8. Len(Trimmed(current)) = e
  <2>1. PICK d : d = e + 1
    OBVIOUS
  <2>2. 1 <= 1 /\ 1 <= d /\ d <= Len(current) + 1 /\ d \in Nat /\ d - 1 = e /\ 1 \in Nat
    BY <1>1, <1>3, <1>5, <2>1
  <2>3. current \in Seq(S)
    BY <1>3
  <2>4. Len(Slice(current, 1, d)) = d - 1
    BY <2>2, <2>3, SliceIs
  <2> QED BY <1>7, <2>1, <2>2, <2>4
<1>9. whole = Slice(s, a, z + 1)
  BY TrimmedIs
<1>10. PICK l, y : l = z + 1 - a /\ y = z + 1
  OBVIOUS
<1>11. whole \in Seq(S) /\ Len(whole) = l /\ \A i \in 1 .. l : whole[i] = s[a + i - 1]
  <2>1. y \in Nat /\ a <= y /\ y <= Len(s) + 1 /\ y - a = l
    BY <1>1, <1>2, <1>10
  <2>2. Slice(s, a, y) \in Seq(S) /\ Len(Slice(s, a, y)) = y - a
        /\ \A i \in 1 .. y - a : Slice(s, a, y)[i] = s[a + i - 1]
    BY <1>2, <2>1, SliceIs
  <2> HIDE DEF whole
  <2> QED BY <1>9, <1>10, <2>1, <2>2
<1> HIDE DEF whole
<1>12. PICK r : r = f - a
  OBVIOUS
<1>13. r \in Nat /\ r <= l /\ l - e = r /\ l \in Nat /\ r + 1 - 1 = r
  BY <1>1, <1>2, <1>4, <1>10, <1>12
<1>14. UpToSegment(s, current) = Slice(whole, 1, r + 1)
  <2>1. UpToSegment(s, current) = SubSeq(whole, 1, l - e)
    BY <1>8, <1>11 DEF UpToSegment, whole
  <2>2. PICK d : d = r + 1
    OBVIOUS
  <2>3. Slice(whole, 1, d) = SubSeq(whole, 1, d - 1) /\ d - 1 = r
    BY <1>13, <2>2 DEF Slice
  <2> QED BY <1>13, <2>1, <2>2, <2>3
<1>15. Slice(whole, 1, r + 1) = Slice(s, a, f)
  <2>1. PICK d, u, v : d = r + 1 /\ u = Slice(whole, 1, d) /\ v = Slice(s, a, f)
    OBVIOUS
  <2>2. d \in Nat /\ 1 <= 1 /\ 1 <= d /\ d <= Len(whole) + 1 /\ d - 1 = r
    BY <1>11, <1>13, <2>1
  <2>3. u \in Seq(S) /\ Len(u) = r /\ \A i \in 1 .. r : u[i] = whole[1 + i - 1]
    <3>1. /\ Slice(whole, 1, d) \in Seq(S) /\ Len(Slice(whole, 1, d)) = d - 1
          /\ \A i \in 1 .. d - 1 : Slice(whole, 1, d)[i] = whole[1 + i - 1]
      <4>1. whole \in Seq(S) /\ 1 \in Nat
        BY <1>11
      <4> QED BY <2>2, <4>1, SliceIs
    <3> QED BY <2>1, <2>2, <3>1
  <2>4. v \in Seq(S) /\ Len(v) = r /\ \A i \in 1 .. r : v[i] = s[a + i - 1]
    <3>1. f <= Len(s) + 1
      BY <1>1
    <3>2. /\ Slice(s, a, f) \in Seq(S) /\ Len(Slice(s, a, f)) = f - a
          /\ \A i \in 1 .. f - a : Slice(s, a, f)[i] = s[a + i - 1]
      BY <1>2, <3>1, SliceIs
    <3> QED BY <1>12, <2>1, <3>2
  <2>5. ASSUME NEW i \in 1 .. r PROVE u[i] = v[i]
    <3>1. i \in 1 .. l /\ 1 + i - 1 = i
      BY <1>13
    <3> QED BY <1>11, <2>3, <2>4, <3>1, SMTT(40)
  <2>6. u = v
    BY <2>3, <2>4, <2>5, SameElements
  <2> QED BY <2>1, <2>6
<1> QED BY <1>2, <1>14, <1>15 DEF current

\* Keeping less in front changes nothing if it is spaces.
LEMMA KeptBefore ==
  ASSUME NEW S, NEW s \in Seq(S), NEW k \in Nat, NEW f \in Nat, 1 <= k, k <= f, f <= Len(s),
         s[f] \notin Whitespace, \A i \in 1 .. k - 1 : s[i] \in Whitespace, NEW o \in Seq(S)
  PROVE  Trimmed(Slice(s, k, f) \o o) = Trimmed(UpToSegment(s, Slice(s, f, Len(s) + 1)) \o o)
<1>1. Len(s) \in Nat /\ f \in 1 .. Len(s)
  OBVIOUS
<1>2. ~White(s)
  BY <1>1 DEF White
<1>3. PICK a, z : Spans(s, a, z)
  BY <1>2, DarkSpans
<1>4. UpToSegment(s, Slice(s, f, Len(s) + 1)) = Slice(s, a, f) /\ a \in Nat /\ 1 <= a /\ a <= f
  BY <1>3, BeforeIs
<1>5. k <= a
  <2>1. a \in 1 .. Len(s) /\ s[a] \notin Whitespace
    BY <1>3 DEF Spans
  <2>2. a \notin 1 .. k - 1
    BY <2>1
  <2> QED BY <1>4, <2>2
<1>6. a <= Len(s) + 1 /\ f <= Len(s) + 1 /\ a <= Len(s)
  BY <1>1, <1>4
<1>7. PICK w, x : w = Slice(s, k, a) /\ x = Slice(s, a, f)
  OBVIOUS
<1>8. w \o x = Slice(s, k, f)
  BY <1>4, <1>5, <1>6, <1>7, SliceJoin
<1>9. w \in Seq(S) /\ Len(w) = a - k /\ \A i \in 1 .. a - k : w[i] = s[k + i - 1]
  <2>1. /\ Slice(s, k, a) \in Seq(S) /\ Len(Slice(s, k, a)) = a - k
        /\ \A i \in 1 .. a - k : Slice(s, k, a)[i] = s[k + i - 1]
    <3>1. a \in Nat /\ k <= a /\ a <= Len(s) + 1
      BY <1>4, <1>5, <1>6
    <3> QED BY <3>1, SliceIs, SMTT(40)
  <2> QED BY <1>7, <2>1
<1>10. x \in Seq(S)
  BY <1>4, <1>6, <1>7, SliceIs
<1>11. White(w)
  <2>1. ASSUME NEW i \in 1 .. Len(w) PROVE w[i] \in Whitespace
    <3>1. PICK q : q = k + i - 1
      OBVIOUS
    <3>2. q \in 1 .. Len(s) /\ q < a /\ i \in 1 .. a - k
      BY <1>1, <1>4, <1>5, <1>6, <1>9, <3>1
    <3>3. s[q] \in Whitespace
      <4>1. s[q] \notin Whitespace => a <= q
        BY <1>3, <3>2 DEF Spans
      <4> QED BY <1>4, <3>2, <4>1
    <3> QED BY <1>9, <3>1, <3>2, <3>3
  <2> QED BY <2>1 DEF White
<1>12. (w \o x) \o o = w \o (x \o o)
  <2>1. w \in Seq(S)
    BY <1>9
  <2> QED BY <1>10, <2>1, ConcatAssociates, SMTT(40)
<1>13. PICK y : y = x \o o
  OBVIOUS
<1>14. y \in Seq(S)
  BY <1>10, <1>13
<1>15. Trimmed(w \o y) = Trimmed(y)
  BY <1>9, <1>11, <1>14, TrimmedFront
<1> QED BY <1>4, <1>7, <1>8, <1>12, <1>13, <1>15, Zenon

-----------------------------------------------------------------------------
(* Where the spaces are *)

\* Which of the characters of a token are spaces.
LEMMA TokenWhite ==
  ASSUME NEW s \in Seq(Characters), Escape \notin ToSet(s), NEW i \in 1 .. Len(Tokens(s))
  PROVE  LET tokens == Tokens(s)
         IN  /\ From(s, tokens, i) <= Len(s)
             /\ TypeAt(tokens, i) # "WS" => s[From(s, tokens, i)] \notin Whitespace
             /\ TypeAt(tokens, i) = "WS" =>
                  \A q \in From(s, tokens, i) .. From(s, tokens, i + 1) - 1 : s[q] \in Whitespace
<1>1. PICK tokens : tokens = Tokens(s)
  OBVIOUS
<1>2. Tiled(s, 0, tokens) /\ Drawn(s, tokens)
  BY <1>1, TokensTiled, TokensDrawn
<1>3. tokens \in Seq(TokenSet) /\ Len(tokens) \in Nat /\ Len(s) \in Nat /\ DOMAIN tokens = 1 .. Len(tokens)
  BY <1>2 DEF Tiled
<1>4. i \in 1 .. Len(tokens) /\ i \in DOMAIN tokens
  BY <1>1, <1>3
<1>5. PICK p \in Nat : p < Len(s) /\ tokens[i] = next(s, p)
  BY <1>2, <1>4 DEF Drawn
<1>6. /\ tokens[i].begin = p
      /\ tokens[i].type # "WS" => s[p + 1] \notin Whitespace
      /\ tokens[i].type = "WS" => \A q \in p + 1 .. tokens[i].end : s[q] \in Whitespace
  BY <1>5, NextWhite
<1>7. From(s, tokens, i) = p + 1 /\ TypeAt(tokens, i) = tokens[i].type
  BY <1>3, <1>4, <1>6 DEF From, TypeAt
<1>8. ASSUME tokens[i].type = "WS"
      PROVE  tokens[i].end \in Nat /\ From(s, tokens, i + 1) = tokens[i].end + 1
  <2>1. tokens[i].end \in Nat
    <3>1. tokens[i] \in TokenSet
      BY <1>3, <1>4
    <3> QED BY <3>1 DEF TokenSet
  <2>2. CASE i = Len(tokens)
    <3>1. tokens[i].end = Len(s)
      <4>1. tokens # <<>>
        BY <1>3, <1>4
      <4>2. tokens[i].type # "PHRASE"
        BY <1>8
      <4> QED BY <1>2, <2>2, <4>1, <4>2 DEF Tiled
    <3>2. From(s, tokens, i + 1) = Len(s) + 1
      <4>1. ~(i + 1 <= Len(tokens))
        BY <1>3, <2>2
      <4> QED BY <4>1 DEF From
    <3> QED BY <2>1, <3>1, <3>2
  <2>3. CASE i < Len(tokens)
    <3>1. PICK j : j = i + 1
      OBVIOUS
    <3>2. j \in 1 .. Len(tokens) /\ j # 1 /\ j - 1 = i
      BY <1>3, <1>4, <2>3, <3>1
    <3>3. End(tokens, j, 0) = tokens[j].begin
      BY <1>2, <3>2 DEF Tiled
    <3>4. tokens[j].begin = tokens[i].end
      BY <3>2, <3>3 DEF End
    <3>5. From(s, tokens, j) = tokens[i].end + 1
      BY <3>2, <3>4 DEF From
    <3> QED BY <2>1, <3>1, <3>5
  <2> QED BY <1>3, <1>4, <2>2, <2>3
<1>9. ASSUME tokens[i].type = "WS"
      PROVE  \A q \in From(s, tokens, i) .. From(s, tokens, i + 1) - 1 : s[q] \in Whitespace
  <2>1. PICK f : f = From(s, tokens, i + 1)
    OBVIOUS
  <2>2. f = tokens[i].end + 1 /\ f - 1 = tokens[i].end
    BY <1>8, <1>9, <2>1
  <2>3. \A q \in p + 1 .. tokens[i].end : s[q] \in Whitespace
    BY <1>6, <1>9
  <2> QED BY <1>7, <2>1, <2>2, <2>3
<1>10. p + 1 <= Len(s)
  BY <1>3, <1>5
<1>11. tokens[i].type # "WS" => s[From(s, tokens, i)] \notin Whitespace
  BY <1>6, <1>7
<1> QED BY <1>1, <1>7, <1>9, <1>10, <1>11

\* Leading tokens of spaces are spaces only.
LEMMA SpacesWhite ==
  ASSUME NEW s \in Seq(Characters), Escape \notin ToSet(s), NEW n \in 1 .. Len(Tokens(s)) + 1,
         \A i \in 1 .. n - 1 : TypeAt(Tokens(s), i) = "WS"
  PROVE  \A q \in 1 .. From(s, Tokens(s), n) - 1 : s[q] \in Whitespace
<1>1. PICK tokens : tokens = Tokens(s)
  OBVIOUS
<1> DEFINE from(i) == From(s, tokens, i)
           Good(i) == \A q \in Nat : 1 <= q /\ q < from(i) => s[q] \in Whitespace
           T == {i \in Nat : i + 1 <= n => Good(i + 1)}
<1>2. Tiled(s, 0, tokens)
  BY <1>1, TokensTiled
<1>3. /\ Len(tokens) \in Nat /\ from(1) = 1
      /\ \A i \in 1 .. Len(tokens) + 1 : from(i) \in Nat
  BY <1>2, FromIs
<1>4. n \in Nat /\ 1 <= n /\ n <= Len(tokens) + 1 /\ \A i \in 1 .. n - 1 : TypeAt(tokens, i) = "WS"
  BY <1>1, <1>3
<1>5. ASSUME NEW i \in 1 .. Len(tokens), TypeAt(tokens, i) = "WS"
      PROVE  \A q \in from(i) .. from(i + 1) - 1 : s[q] \in Whitespace
  <2>1. i \in 1 .. Len(Tokens(s)) /\ TypeAt(Tokens(s), i) = "WS"
    BY <1>1, <1>5
  <2>2. \A q \in From(s, Tokens(s), i) .. From(s, Tokens(s), i + 1) - 1 : s[q] \in Whitespace
    BY <2>1, TokenWhite
  <2> QED BY <1>1, <2>2
<1> HIDE DEF from
<1>6. 0 \in T
  <2>1. Good(0 + 1)
    BY <1>3
  <2> QED BY <2>1
<1>7. ASSUME NEW i \in Nat, i \in T PROVE i + 1 \in T
  <2>1. i + 1 <= n => Good(i + 1)
    BY <1>7
  <2> SUFFICES ASSUME (i + 1) + 1 <= n PROVE Good((i + 1) + 1)
    OBVIOUS
  <2>2. PICK j, k : j = i + 1 /\ k = j + 1
    OBVIOUS
  <2>3. j \in 1 .. Len(tokens) /\ j \in 1 .. n - 1 /\ j <= n /\ k \in 1 .. Len(tokens) + 1
        /\ j \in 1 .. Len(tokens) + 1
    BY <1>3, <1>4, <2>2
  <2>4. Good(j)
    BY <2>1, <2>2, <2>3
  <2>5. \A q \in from(j) .. from(k) - 1 : s[q] \in Whitespace
    BY <1>4, <1>5, <2>2, <2>3
  <2>6. from(j) \in Nat /\ from(k) \in Nat
    BY <1>3, <2>3
  <2>7. ASSUME NEW q \in Nat, 1 <= q, q < from(k) PROVE s[q] \in Whitespace
    <3>1. CASE q < from(j)
      BY <2>4, <2>7, <3>1
    <3>2. CASE ~(q < from(j))
      <4>1. q \in from(j) .. from(k) - 1
        BY <2>6, <2>7, <3>2
      <4> QED BY <2>5, <4>1
    <3> QED BY <3>1, <3>2
  <2> QED BY <2>2, <2>7
<1>8. Nat \subseteq T
  <2> HIDE DEF T
  <2> QED BY <1>6, <1>7, NatSetInduction
<1>9. PICK i : i = n - 1
  OBVIOUS
<1>10. i \in Nat /\ i + 1 = n
  BY <1>4, <1>9
<1>11. Good(n)
  <2>1. i \in T
    <3> HIDE DEF T
    <3> QED BY <1>8, <1>10
  <2>2. n <= n
    BY <1>4
  <2> QED BY <1>10, <2>1, <2>2
<1>12. from(n) \in Nat
  BY <1>3, <1>4
<1>13. \A q \in 1 .. from(n) - 1 : s[q] \in Whitespace
  BY <1>11, <1>12
<1> QED BY <1>1, <1>13 DEF from

-----------------------------------------------------------------------------
(* The segment that is completed *)

\* Trees that differ in the hidden tokens around them end with the same one.
LEMMA LastSerialized ==
  ASSUME NEW s, NEW tokens, Lexed(s, tokens), NEW t \in Trees[Len(tokens) + 1],
         t.kind # "null", t.prefix = <<>>, t \notin LeafTrees,
         NEW pre \in Seq(TokenSet), NEW post \in Seq(TokenSet),
         NEW c \in LeafTrees, NEW before \in Seq(TreesOf(s)), Serialize(s, t) = before \o <<c>>
  PROVE  LET trees == Serialize(s, Outer(t, pre, post))
         IN  trees \in Seq(TreesOf(s)) /\ trees # <<>> /\ Last(trees) = c
<1> DEFINE T == TreesOf(s)
           n == Len(tokens)
<1>1. n \in Nat /\ Len(s) \in Nat /\ n + 1 \in Nat /\ n + 1 - 1 = n /\ n + 1 # 0
  BY DEF Lexed, Ordered
<1>2. Trees[n + 1] \subseteq T /\ LeafTrees \subseteq T /\ Trees[n] \subseteq T
  <2>1. 1 \in 1 .. Len(tokens) + 1
    BY <1>1
  <2>2. Len(tokens) + 1 - 1 = Len(tokens)
    BY <1>1
  <2>3. Trees[Len(tokens) + 1] \subseteq T /\ LeafTrees \subseteq T /\ Trees[Len(tokens) + 1 - 1] \subseteq T
    BY <2>1, VisitedTrees
  <2> QED BY <2>2, <2>3
<1>3. t \in {Nothing} \cup LeafTrees \cup Nested(Trees[n])
  <2>1. PICK h : h = n + 1
    OBVIOUS
  <2>2. h \in Nat /\ h # 0 /\ h - 1 = n
    BY <1>1, <2>1
  <2>3. t \in {Nothing} \cup LeafTrees \cup Nested(Trees[h - 1])
    BY <2>1, <2>2, Inside
  <2> QED BY <2>2, <2>3
<1>4. PICK o : o = Outer(t, pre, post)
  OBVIOUS
<1>5. /\ o.kind = t.kind
      /\ t.kind \in {"modifier", "expression"} => o.right = t.right
      /\ t.kind = "expression" => o.left = t.left
      /\ t.kind = "list" => o.items = t.items
  <2>1. PICK S : S = Trees[n]
    OBVIOUS
  <2>2. t \in {Nothing} \cup LeafTrees \cup Nested(S)
    BY <1>3, <2>1
  <2>3. /\ Outer(t, pre, post).kind = t.kind
        /\ t.kind \in {"modifier", "expression"} => Outer(t, pre, post).right = t.right
        /\ t.kind = "expression" => Outer(t, pre, post).left = t.left
        /\ t.kind = "list" => Outer(t, pre, post).items = t.items
    BY <2>2, OuterParts
  <2> QED BY <1>4, <2>3
<1>6. o \in T /\ t \in T
  BY <1>4, OuterIs
<1>7. /\ t.kind \in {"modifier", "expression", "list"}
      /\ t.kind \in {"modifier", "expression"} => t.right \in T
      /\ t.kind = "expression" => t.left \in T
      /\ t.kind = "list" => t.items \in Seq(T)
  <2>1. /\ t.kind \in {"null", "term", "field", "missing", "modifier", "expression", "list"}
        /\ t \in LeafTrees <=> t.kind \in {"term", "field", "missing"}
        /\ t.kind \in {"modifier", "expression"} => t.right \in Trees[n]
        /\ t.kind = "expression" => t.left \in Trees[n]
        /\ t.kind = "list" => t.items \in Seq(Trees[n])
    BY <1>3, TreeKinds
  <2>2. Seq(Trees[n]) \subseteq Seq(T)
    BY <1>2
  <2> QED BY <1>2, <2>1, <2>2
<1>8. c # t /\ c \in T
  BY <1>2
<1> HIDE DEF T, n
<1>9. ASSUME NEW front, NEW other, NEW rest, front \in Seq(T), other \in Seq(T), rest \in Seq(T),
             Serialize(s, t) = (front \o <<t>>) \o rest,
             Serialize(s, o) = other \o rest
      PROVE  Serialize(s, o) # <<>> /\ Last(Serialize(s, o)) = c
  <2>1. Last(Serialize(s, t)) = c
    <3>1. before \in Seq(T)
      BY DEF T
    <3>2. Last(before \o <<c>>) = c
      BY <1>8, <3>1, LastAppended
    <3> QED BY <3>2
  <2>2. <<t>> \in Seq(T)
    BY <1>6
  <2>3. PICK f : f = front \o <<t>>
    OBVIOUS
  <2>4. f \in Seq(T)
    BY <1>9, <2>2, <2>3, ConcatIs
  <2>5. CASE rest = <<>>
    <3>1. Serialize(s, t) = front \o <<t>>
      BY <1>9, <2>3, <2>4, <2>5, LastIs
    <3>2. Last(Serialize(s, t)) = t
      BY <1>6, <1>9, <3>1, LastAppended
    <3> QED BY <1>8, <2>1, <3>2
  <2>6. CASE rest # <<>>
    <3>1. Last(f \o rest) = Last(rest)
      BY <1>9, <2>4, <2>6, LastIs
    <3>2. other \o rest # <<>> /\ Last(other \o rest) = Last(rest)
      BY <1>9, <2>6, LastIs
    <3> QED BY <1>9, <2>1, <2>3, <3>1, <3>2
  <2> QED BY <2>5, <2>6
<1>10. <<t>> \in Seq(T) /\ <<o>> \in Seq(T) /\ <<>> \in Seq(T)
  BY <1>6
<1>11. Serialize(s, o) \in Seq(T)
  BY <1>1, <1>6, VisitorTypes DEF T
<1>12. ASSUME NEW x, x \in T PROVE Serialize(s, x) \in Seq(T)
  BY <1>1, <1>12, VisitorTypes DEF T
<1>13. <<>> \o <<t>> = <<t>>
  OBVIOUS
<1>14. CASE t.kind = "modifier"
  <2>1. PICK r : r = Serialize(s, t.right)
    OBVIOUS
  <2>2. Serialize(s, t) = <<t>> \o r
    BY <1>1, <1>6, <1>14, <2>1, SerializeIs DEF T
  <2>3. Serialize(s, o) = <<o>> \o r
    BY <1>1, <1>5, <1>6, <1>14, <2>1, SerializeIs DEF T
  <2>4. r \in Seq(T)
    BY <1>7, <1>12, <1>14, <2>1
  <2>5. Serialize(s, t) = (<<>> \o <<t>>) \o r
    BY <1>13, <2>2
  <2> QED BY <1>4, <1>9, <1>10, <1>11, <2>3, <2>4, <2>5 DEF T
<1>15. CASE t.kind = "expression"
  <2>1. PICK l, r : l = Serialize(s, t.left) /\ r = Serialize(s, t.right)
    OBVIOUS
  <2>2. Serialize(s, t) = l \o <<t>> \o r
    BY <1>1, <1>6, <1>15, <2>1, SerializeIs DEF T
  <2>3. Serialize(s, o) = l \o <<o>> \o r
    BY <1>1, <1>5, <1>6, <1>15, <2>1, SerializeIs DEF T
  <2>4. r \in Seq(T) /\ l \in Seq(T)
    BY <1>7, <1>12, <1>15, <2>1
  <2>5. PICK other : other = l \o <<o>>
    OBVIOUS
  <2>6. other \in Seq(T)
    BY <1>10, <2>4, <2>5, ConcatIs
  <2>7. Serialize(s, o) = other \o r /\ Serialize(s, t) = (l \o <<t>>) \o r
    BY <2>2, <2>3, <2>5
  <2> QED BY <1>4, <1>9, <1>11, <2>4, <2>6, <2>7 DEF T
<1>16. CASE t.kind = "list"
  <2>1. PICK r : r = SerializeAll(s, t.items)
    OBVIOUS
  <2>2. Serialize(s, t) = <<t>> \o r
    BY <1>1, <1>6, <1>16, <2>1, SerializeIs DEF T
  <2>3. Serialize(s, o) = <<o>> \o r
    BY <1>1, <1>5, <1>6, <1>16, <2>1, SerializeIs DEF T
  <2>4. r \in Seq(T)
    BY <1>1, <1>6, <1>7, <1>16, <2>1, AllIs DEF T
  <2>5. Serialize(s, t) = (<<>> \o <<t>>) \o r
    BY <1>13, <2>2
  <2> QED BY <1>4, <1>9, <1>10, <1>11, <2>3, <2>4, <2>5 DEF T
<1> QED BY <1>7, <1>14, <1>15, <1>16

-----------------------------------------------------------------------------
(* The completions of a query *)

\* The segment is the whole query, and nothing but a space is kept, or it is
\* what is behind f, and what is kept begins at k, behind the leading spaces.
Alone(s, split, kept) == split.current = s /\ kept \in {<<>>, <<" ">>}
Behind(s, split, kept, k, f) ==
    /\ k \in Nat /\ f \in Nat /\ 1 <= k /\ k <= f /\ f <= Len(s)
    /\ s[f] \notin Whitespace /\ \A i \in 1 .. k - 1 : s[i] \in Whitespace
    /\ split.current = Slice(s, f, Len(s) + 1)
    /\ kept = Slice(s, k, f)

\* What the query is split into.
LEMMA SplitIs ==
  ASSUME NEW s, NEW tree
  PROVE  /\ splitQuery(s, tree).current = Written(s, Dump(s, Last(Serialize(s, tree)), Nothing))
         /\ splitQuery(s, tree).prefix = Written(s, Dump(s, tree, Last(Serialize(s, tree))))
BY DEF splitQuery

\* Only before a missing term is a space added.
LEMMA KeptIs ==
  ASSUME NEW trees, NEW prefix
  PROVE  /\ Kept(trees, <<>>) \in {<<>>, <<" ">>}
         /\ FromEnd(trees, 0) # "missing" => Kept(trees, prefix) = prefix
<1>1. Append(<<>>, " ") = <<" ">>
  OBVIOUS
<1>2. Kept(trees, <<>>) \in {<<>>, Append(<<>>, " ")}
  BY DEF Kept
<1>3. FromEnd(trees, 0) # "missing" => Kept(trees, prefix) = prefix
  BY DEF Kept
<1> QED BY <1>1, <1>2, <1>3

\* A query of one term or field is replaced as a whole.
LEMMA LeafAlone ==
  ASSUME NEW s \in Seq(Characters), Escape \notin ToSet(s), NEW tokens, tokens = Tokens(s),
         Lexed(s, tokens), NEW o \in LeafTrees, o \in TreesOf(s),
         Dump(s, o, Nothing) = Slice(tokens, 1, Len(tokens) + 1)
  PROVE  Alone(s, splitQuery(s, o), Kept(Serialize(s, o), splitQuery(s, o).prefix))
<1>1. Tiled(s, 0, tokens)
  BY TokensTiled
<1>2. /\ Len(s) \in Nat /\ Len(tokens) \in Nat /\ 1 \in 1 .. Len(tokens) + 1 /\ tokens \in Seq(TokenSet)
      /\ Len(tokens) + 1 \in 1 .. Len(tokens) + 1 /\ 1 \in 1 .. Len(tokens) + 1
      /\ From(s, tokens, 1) = 1 /\ From(s, tokens, Len(tokens) + 1) = Len(s) + 1
  <2>1. /\ Len(s) \in Nat /\ Len(tokens) \in Nat
        /\ From(s, tokens, 1) = 1 /\ From(s, tokens, Len(tokens) + 1) = Len(s) + 1
    BY <1>1, FromIs
  <2> QED BY <1>1, <2>1 DEF Tiled
<1>3. o.kind \in {"term", "field", "missing"}
  BY DEF LeafTrees
<1>4. Serialize(s, o) = <<o>>
  BY <1>2, <1>3, SerializeIs
<1>5. Last(Serialize(s, o)) = o
  BY <1>4 DEF Last
<1>6. Dump(s, o, o) = <<>>
  <2>1. DumpRules(s, o, o)
    BY <1>2, DumpIs
  <2> QED BY <2>1 DEF DumpRules
<1>7. Written(s, Dump(s, o, Nothing)) = s
  <2>1. Written(s, Slice(tokens, 1, Len(tokens) + 1)) = Slice(s, 1, Len(s) + 1)
    BY <1>1, <1>2, WrittenSlice
  <2>2. Slice(s, 1, Len(s) + 1) = s
    <3>1. PICK b : b = Len(s) + 1
      OBVIOUS
    <3>2. Slice(s, 1, b) = SubSeq(s, 1, b - 1) /\ b - 1 = Len(s)
      BY <1>2, <3>1 DEF Slice
    <3>3. SubSeq(s, 1, Len(s)) = s
      OBVIOUS
    <3> QED BY <3>1, <3>2, <3>3
  <2> QED BY <2>1, <2>2
<1>8. Written(s, <<>>) = <<>>
  <2>1. Written(s, Slice(tokens, 1, 1)) = Slice(s, 1, 1)
    <3>1. 1 \in 1 .. Len(tokens) + 1 /\ 1 \in 1 .. Len(tokens) + 1
      BY <1>2
    <3> QED BY <1>1, <1>2, <3>1, WrittenSlice
  <2>2. 1 <= 1 /\ 1 <= Len(tokens) + 1 /\ 1 <= Len(s) + 1 /\ 1 \in Nat
    BY <1>2
  <2>3. Slice(tokens, 1, 1) = <<>>
    BY <1>2, <2>2, SliceIs
  <2>4. Slice(s, 1, 1) = <<>>
    BY <2>2, SliceIs
  <2> QED BY <2>1, <2>3, <2>4
<1>9. splitQuery(s, o).current = s /\ splitQuery(s, o).prefix = <<>>
  BY <1>5, <1>6, <1>7, <1>8, SplitIs
<1> QED BY <1>9, KeptIs DEF Alone

\* A term or field at the end is replaced alone.
LEMMA SegmentBehind ==
  ASSUME NEW s \in Seq(Characters), Escape \notin ToSet(s), NEW tokens, tokens = Tokens(s),
         Lexed(s, tokens), NEW tree, NEW c \in LeafTrees, NEW j, NEW x, Leafy(tokens, c, j, Len(tokens) + 1, x),
         Serialize(s, tree) \in Seq(TreesOf(s)), Last(Serialize(s, tree)) = c, Dump(s, c, Nothing) = Slice(tokens, j, Len(tokens) + 1),
         NEW n, n \in 1 .. j, \A i \in 1 .. n - 1 : TypeAt(tokens, i) = "WS",
         Dump(s, tree, c) = Slice(tokens, n, j)
  PROVE  \E k, f : Behind(s, splitQuery(s, tree), Kept(Serialize(s, tree), splitQuery(s, tree).prefix), k, f)
<1> DEFINE N == Len(tokens) + 1
<1>1. Tiled(s, 0, tokens)
  BY TokensTiled
<1>2. /\ Len(s) \in Nat /\ Len(tokens) \in Nat
      /\ From(s, tokens, N) = Len(s) + 1
      /\ \A i \in 1 .. Len(tokens) + 1 : From(s, tokens, i) \in Nat /\ 1 <= From(s, tokens, i)
  BY <1>1, FromIs
<1>3. j \in 1 .. Len(tokens) /\ TypeAt(tokens, j) \in Expr /\ c.kind \in TermKinds
  BY DEF Leafy
<1>4. n \in 1 .. Len(tokens) + 1 /\ j \in n .. Len(tokens) + 1 /\ j \in 1 .. Len(tokens) + 1 /\ N \in j .. Len(tokens) + 1
  BY <1>2, <1>3
<1>5. PICK k, f : k = From(s, tokens, n) /\ f = From(s, tokens, j)
  OBVIOUS
<1>6. k \in Nat /\ f \in Nat /\ 1 <= k
  BY <1>2, <1>4, <1>5
<1>7. splitQuery(s, tree).prefix = Slice(s, k, f) /\ k <= f
  <2>1. Written(s, Slice(tokens, n, j)) = Slice(s, k, f) /\ k <= f
    BY <1>1, <1>4, <1>5, WrittenSlice
  <2> QED BY <2>1, SplitIs
<1>8. splitQuery(s, tree).current = Slice(s, f, Len(s) + 1)
  <2>1. Written(s, Slice(tokens, j, N)) = Slice(s, f, Len(s) + 1)
    BY <1>1, <1>2, <1>4, <1>5, WrittenSlice, SMTT(40)
  <2> QED BY <2>1, SplitIs
<1>9. f <= Len(s) /\ s[f] \notin Whitespace
  <2>1. j \in 1 .. Len(Tokens(s)) /\ TypeAt(Tokens(s), j) # "WS"
    BY <1>3 DEF Expr
  <2>2. From(s, Tokens(s), j) <= Len(s) /\ s[From(s, Tokens(s), j)] \notin Whitespace
    BY <2>1, TokenWhite
  <2> QED BY <1>5, <2>2
<1>10. \A i \in 1 .. k - 1 : s[i] \in Whitespace
  <2>1. n \in 1 .. Len(Tokens(s)) + 1 /\ \A i \in 1 .. n - 1 : TypeAt(Tokens(s), i) = "WS"
    BY <1>4
  <2>2. \A q \in 1 .. From(s, Tokens(s), n) - 1 : s[q] \in Whitespace
    BY <2>1, SpacesWhite
  <2> QED BY <1>5, <2>2
<1>11. FromEnd(Serialize(s, tree), 0) # "missing"
  <2>1. PICK trees, l : trees = Serialize(s, tree) /\ l = Len(trees)
    OBVIOUS
  <2>2. c = trees[l] /\ c.kind # "missing"
    BY <1>3, <2>1 DEF Last, TermKinds
  <2>3. l \in Nat /\ l - 0 = l
    BY <2>1
  <2>4. FromEnd(trees, 0) = IF 0 < l THEN trees[l].kind ELSE "undefined"
    BY <2>1, <2>3 DEF FromEnd
  <2> QED BY <2>1, <2>2, <2>4
<1>12. Kept(Serialize(s, tree), splitQuery(s, tree).prefix) = Slice(s, k, f)
  BY <1>7, <1>11, KeptIs
<1> QED BY <1>6, <1>7, <1>8, <1>9, <1>10, <1>12 DEF Behind

\* How a query without errors is split.
LEMMA ParseSplit ==
  ASSUME NEW s \in Seq(Characters), Escape \notin ToSet(s), NEW p, p = Parse(s),
         p.errors = <<>>, ~p.thrown,
         NEW split, split = splitQuery(s, p.tree),
         NEW kept, kept = Kept(Serialize(s, p.tree), split.prefix)
  PROVE  Alone(s, split, kept) \/ \E k, f : Behind(s, split, kept, k, f)
<1>1. PICK tokens : tokens = Tokens(s)
  OBVIOUS
<1>2. Lexed(s, tokens) /\ Outcome(s, tokens, p)
  BY <1>1, ParseShape
<1>3. PICK t, n, m, h, l, x : Shape(s, tokens, p, t, n, m, h, l, x)
  BY <1>2 DEF Outcome
<1> DEFINE N == Len(tokens) + 1
<1>4. Ordered(tokens) /\ tokens \in Seq(TokenSet) /\ Len(tokens) \in Nat /\ N \in Nat /\ Len(s) \in Nat
  BY <1>2 DEF Lexed, Ordered
<1>5. /\ Top(s, tokens, t, n, m, x) /\ n \in 1 .. Len(tokens) + 1
      /\ Fine(x) /\ m = N /\ (\A i \in 1 .. n - 1 : TypeAt(tokens, i) = "WS")
      /\ h = N /\ l = N
      /\ p.tree = Outer(t, Slice(tokens, 1, n), Slice(tokens, h, l))
  <2>1. h \in m .. Len(tokens) + 1 /\ l \in h .. Len(tokens) + 1 /\ m = Len(tokens) + 1
    BY <1>3 DEF Shape
  <2>2. h = N /\ l = N
    BY <1>4, <2>1
  <2> QED BY <1>3, <2>2 DEF Shape
<1>6. t \in Trees[Len(tokens) + 1] /\ t.kind # "null" /\ t.prefix = <<>>
  BY <1>5 DEF Top
<1>7. PICK pre, post, o : pre = Slice(tokens, 1, n) /\ post = Slice(tokens, h, l) /\ o = Outer(t, pre, post)
  OBVIOUS
<1>8. n \in Nat /\ 1 <= n /\ n <= Len(tokens) + 1 /\ 1 \in Nat /\ 1 <= 1
  BY <1>4, <1>5
<1>9. pre \in Seq(TokenSet) /\ post \in Seq(TokenSet) /\ post = <<>>
  <2>1. pre \in Seq(TokenSet)
    BY <1>4, <1>7, <1>8, SliceIs
  <2>2. PICK e : e = N
    OBVIOUS
  <2>3. e \in Nat /\ 1 <= e /\ e <= e /\ e <= Len(tokens) + 1
    BY <1>4, <2>2
  <2>4. Slice(tokens, e, e) = <<>> /\ Slice(tokens, e, e) \in Seq(TokenSet)
    BY <1>4, <2>3, SliceIs
  <2> QED BY <1>5, <1>7, <2>1, <2>2, <2>4
<1>10. /\ o \in TreesOf(s) /\ o # Nothing /\ t # Nothing /\ (o \in LeafTrees <=> t \in LeafTrees) /\ o.kind = t.kind
       /\ \A c : t # c /\ o # c =>
            /\ t.kind = "modifier" => Dump(s, o, c) = Dump(s, t, c)
            /\ t.kind # "modifier" => Dump(s, o, c) = Cat(Cat(pre, Dump(s, t, c)), post)
  <2>1. pre \in Seq(TokenSet) /\ post \in Seq(TokenSet)
    BY <1>9
  <2> DEFINE q == Outer(t, pre, post)
  <2>2. /\ q \in TreesOf(s) /\ q # Nothing /\ t # Nothing
        /\ (q \in LeafTrees <=> t \in LeafTrees) /\ q.kind = t.kind
        /\ \A c : t # c /\ q # c =>
             /\ t.kind = "modifier" => Dump(s, q, c) = Dump(s, t, c)
             /\ t.kind # "modifier" => Dump(s, q, c) = Cat(Cat(pre, Dump(s, t, c)), post)
    BY <1>2, <1>6, <2>1, OuterIs
  <2> QED BY <1>7, <2>2
<1>11. p.tree = o
  BY <1>5, <1>7
<1>12. CASE t \in LeafTrees
  <2>1. t.kind # "modifier"
    BY <1>12 DEF LeafTrees
  <2>2. Dump(s, o, Nothing) = Slice(tokens, 1, Len(tokens) + 1)
    BY <1>2, <1>3, <1>11, <2>1, ShapeDump
  <2>3. Alone(s, splitQuery(s, o), Kept(Serialize(s, o), splitQuery(s, o).prefix))
    BY <1>1, <1>2, <1>10, <1>12, <2>2, LeafAlone
  <2> QED BY <1>11, <2>3
<1>13. CASE t \notin LeafTrees
  <2>1. t # Missing
    <3>1. Missing \in LeafTrees
      <4>1. <<>> \in TokenSeq
        BY DEF TokenSeq
      <4> QED BY <4>1 DEF Missing, Leaf, LeafTrees
    <3> QED BY <1>13, <3>1
  <2>2. PICK c, j : Ending(s, tokens, t, n, m, x, c, j)
    BY <1>5, <2>1 DEF Top
  <2>3. /\ c \in LeafTrees /\ j \in n .. N - 1 /\ Leafy(tokens, c, j, N, x)
        /\ Dump(s, t, c) = Slice(tokens, n, j)
    BY <1>5, <2>2 DEF Ending
  <2>4. PICK before \in Seq(TreesOf(s)) : Serialize(s, t) = before \o <<c>>
    BY <2>2 DEF Ending
  <2>5. Serialize(s, o) \in Seq(TreesOf(s)) /\ Last(Serialize(s, o)) = c
    BY <1>2, <1>6, <1>7, <1>9, <1>13, <2>3, <2>4, LastSerialized, ZenonT(60)
  <2>6. Dump(s, c, Nothing) = Slice(tokens, j, Len(tokens) + 1)
    <3>1. Dump(s, c, Nothing) = c.body \o c.suffix
      BY <1>2, <2>3, LeafApart
    <3>2. Part(tokens, j, N, c.body \o c.suffix, x)
      BY <2>3 DEF Leafy
    <3> QED BY <1>5, <3>1, <3>2 DEF Part
  <2>7. j \in Nat /\ n <= j /\ j <= Len(tokens) /\ 1 \in 1 .. j /\ n \in 1 .. j
    BY <1>4, <1>8, <2>3
  <2>8. t # c /\ o # c
    BY <1>10, <1>13, <2>3
  <2>9. CASE t.kind = "modifier"
    <3>1. Dump(s, o, c) = Slice(tokens, n, j)
      BY <1>10, <2>3, <2>8, <2>9
    <3>2. \E k, f : Behind(s, splitQuery(s, o), Kept(Serialize(s, o), splitQuery(s, o).prefix), k, f)
      BY <1>1, <1>2, <1>5, <2>3, <2>5, <2>6, <2>7, <3>1, SegmentBehind, Zenon
    <3> QED BY <1>11, <3>2
  <2>10. CASE t.kind # "modifier"
    <3>1. Dump(s, o, c) = Slice(tokens, 1, j)
      <4>1. pre \o Slice(tokens, n, j) = Slice(tokens, 1, j)
        <5>1. j <= Len(tokens) + 1
          BY <1>4, <2>7
        <5> QED BY <1>4, <1>7, <1>8, <2>7, <5>1, SliceJoin, ZenonT(60)
      <4>2. Dump(s, o, c) = Cat(Cat(pre, Slice(tokens, n, j)), <<>>)
        BY <1>9, <1>10, <2>3, <2>8, <2>10
      <4>3. Slice(tokens, 1, j) \in Seq(TokenSet)
        <5>1. j <= Len(tokens) + 1 /\ 1 <= j
          BY <1>4, <1>8, <2>7
        <5> QED BY <1>4, <1>8, <2>7, <5>1, SliceIs
      <4>4. PICK d : d = Slice(tokens, 1, j)
        OBVIOUS
      <4>5. Dump(s, o, c) = d \o <<>>
        BY <4>1, <4>2, <4>4 DEF Cat
      <4> QED BY <4>3, <4>4, <4>5
    <3>2. \A i \in 1 .. 1 - 1 : TypeAt(tokens, i) = "WS"
      OBVIOUS
    <3>3. \E k, f : Behind(s, splitQuery(s, o), Kept(Serialize(s, o), splitQuery(s, o).prefix), k, f)
      BY <1>1, <1>2, <2>3, <2>5, <2>6, <2>7, <3>1, <3>2, SegmentBehind, Zenon
    <3> QED BY <1>11, <3>3
  <2> QED BY <2>9, <2>10
<1> QED BY <1>12, <1>13

-----------------------------------------------------------------------------
(* The queries offered *)

\* What is written of tokens is text.
LEMMA WrittenType ==
  ASSUME NEW s \in Seq(Characters), NEW d \in Seq(TokenSet)
  PROVE  Written(s, d) \in Seq(Characters)
<1> DEFINE texts == [h \in DOMAIN d |-> Text(s, d[h])]
<1>1. Len(s) \in Nat /\ DOMAIN d = 1 .. Len(d) /\ Len(d) \in Nat
  OBVIOUS
<1>2. ASSUME NEW j \in 1 .. Len(d) PROVE Text(s, d[j]) \in Seq(Characters)
  <2>1. PICK b, e, n, q : b = d[j].begin + 1 /\ e = d[j].end /\ n = Len(s) /\ q = Min({e, n})
    OBVIOUS
  <2>2. d[j] \in TokenSet
    OBVIOUS
  <2>3. b \in Nat /\ 1 <= b /\ e \in Nat /\ n \in Nat
    BY <1>1, <2>1, <2>2 DEF TokenSet
  <2>4. MinIs(e, n)
    BY <2>3, MinOfTwo
  <2>5. q \in Nat /\ q <= n
    BY <2>1, <2>3, <2>4 DEF MinIs
  <2>6. Text(s, d[j]) = SubSeq(s, b, q)
    BY <2>1 DEF Text
  <2>7. SubSeq(s, b, q) \in Seq(Characters)
    <3>1. q <= Len(s)
      BY <2>1, <2>5
    <3>2. \A i \in b .. q : i \in 1 .. Len(s)
      BY <1>1, <2>3, <2>5, <3>1
    <3>3. CASE b <= q
      BY <1>1, <2>3, <2>5, <3>1, <3>2, <3>3
    <3>4. CASE q < b
      BY <2>3, <2>5, <3>4
    <3> QED BY <2>3, <2>5, <3>3, <3>4
  <2> QED BY <2>6, <2>7
<1>3. texts \in Seq(Seq(Characters))
  BY <1>1, <1>2
<1>4. Written(s, d) = FlattenSeq(texts)
  BY DEF Written
<1> HIDE DEF texts
<1> QED BY <1>3, <1>4, FlattenType

\* What a completion offers.
LEMMA CompletionIs ==
  ASSUME NEW s, NEW tree, NEW m \in codeCompletionProvider(s, tree)
  PROVE  LET split == splitQuery(s, tree)
             trees == Serialize(s, tree)
         IN  /\ m.match \in Offered(trees) /\ m.current = split.current
             /\ m.value = Trimmed(Kept(trees, split.prefix) \o m.match)
BY DEF codeCompletionProvider, CompletionsOf, Completions

\* The names and operators offered are text.
LEMMA OfferedType == \A trees : Offered(trees) \subseteq Seq(Characters)
<1> SUFFICES ASSUME NEW trees PROVE Offered(trees) \subseteq completions
  BY QueryInputAssumption
<1> QED BY DEF Offered, completions

\* What is parsed is a tree of the visitors.
LEMMA ParsedTree ==
  ASSUME NEW s \in Seq(Characters)
  PROVE  Parse(s).tree \in TreesOf(s)
<1>1. PICK tokens, p : tokens = Tokens(s) /\ p = Parse(s)
  OBVIOUS
<1>2. Lexed(s, tokens) /\ Outcome(s, tokens, p)
  BY <1>1, ParseShape
<1>3. PICK t, n, m, h, l, x : Shape(s, tokens, p, t, n, m, h, l, x)
  BY <1>2 DEF Outcome
<1>4. tokens \in Seq(TokenSet) /\ Len(tokens) \in Nat /\ Ordered(tokens)
  BY <1>2 DEF Lexed, Ordered
<1>5. Top(s, tokens, t, n, m, x)
  BY <1>3 DEF Shape
<1>6. t \in Trees[Len(tokens) + 1] /\ t.kind # "null" /\ t.prefix = <<>>
  BY <1>5 DEF Top
<1>7. PICK pre, post : pre = Slice(tokens, 1, n) /\ post = Slice(tokens, h, l)
  OBVIOUS
<1>8. m \in Nat /\ 1 <= m
  <2>1. InOrder(tokens, n, m, Dump(s, t, Nothing))
    BY <1>5 DEF Top, Part
  <2>2. n \in Nat /\ 1 <= n /\ n <= m /\ m \in Nat
    BY <1>4, <2>1, PartBounds
  <2> QED BY <2>2
<1>9. /\ n \in Nat /\ 1 <= n /\ n <= Len(tokens) + 1 /\ 1 \in Nat /\ 1 <= 1
      /\ h \in Nat /\ 1 <= h /\ l \in Nat /\ h <= l /\ l <= Len(tokens) + 1
  <2>1. n \in 1 .. Len(tokens) + 1 /\ h \in m .. Len(tokens) + 1 /\ l \in h .. Len(tokens) + 1
    BY <1>3 DEF Shape
  <2> QED BY <1>4, <1>8, <2>1
<1>10. pre \in Seq(TokenSet)
  BY <1>4, <1>7, <1>9, SliceIs
<1>11. post \in Seq(TokenSet)
  BY <1>4, <1>7, <1>9, SliceIs
<1> DEFINE q == Outer(t, pre, post)
<1>12. q \in TreesOf(s)
  BY <1>2, <1>6, <1>10, <1>11, OuterIs
<1> HIDE DEF q
<1>13. p.tree = q
  BY <1>3, <1>7 DEF Shape, q
<1> QED BY <1>1, <1>12, <1>13

\* A completion is text.
LEMMA CompletionType ==
  ASSUME NEW s \in Seq(Characters), NEW m \in codeCompletionProvider(s, Parse(s).tree)
  PROVE  m.value \in Seq(Characters) /\ m.match \in Seq(Characters)
<1>1. PICK tree, split, trees : tree = Parse(s).tree /\ split = splitQuery(s, tree) /\ trees = Serialize(s, tree)
  OBVIOUS
<1>2. /\ m.match \in Offered(trees) /\ m.current = split.current
      /\ m.value = Trimmed(Kept(trees, split.prefix) \o m.match)
  BY <1>1, CompletionIs
<1>3. m.match \in Seq(Characters)
  BY <1>2, OfferedType
<1>4. PICK d : d = Dump(s, tree, Last(Serialize(s, tree)))
  OBVIOUS
<1>5. d \in Seq(TokenSet)
  <2>1. tree \in TreesOf(s) /\ Len(s) \in Nat
    BY <1>1, ParsedTree
  <2> QED BY <1>4, <2>1, VisitorTypes
<1>6. split.prefix \in Seq(Characters)
  BY <1>1, <1>4, <1>5, SplitIs, WrittenType
<1>7. PICK kept : kept = Kept(trees, split.prefix)
  OBVIOUS
<1>8. kept \in Seq(Characters)
  <2>1. kept \in {split.prefix, Append(split.prefix, " ")}
    BY <1>7 DEF Kept
  <2>2. " " \in Characters
    BY QueryInputAssumption
  <2>3. \A a \in Seq(Characters), c \in Characters : Append(a, c) \in Seq(Characters)
    OBVIOUS
  <2>4. Append(split.prefix, " ") \in Seq(Characters)
    BY <1>6, <2>2, <2>3
  <2> QED BY <1>6, <2>1, <2>4
<1>9. PICK y : y = kept \o m.match
  OBVIOUS
<1>10. y \in Seq(Characters)
  BY <1>3, <1>8, <1>9, ConcatIs
<1>11. Trimmed(y) \in Seq(Characters)
  BY <1>10, TrimmedIs
<1> QED BY <1>2, <1>3, <1>7, <1>9, <1>11

\* A completion keeps what is before the segment it replaces.
LEMMA CompletionKeeps ==
  ASSUME NEW s \in Seq(Characters), Escape \notin ToSet(s), NEW p, p = Parse(s),
         p.errors = <<>>, ~p.thrown, NEW m \in codeCompletionProvider(s, p.tree)
  PROVE  m.value = Trimmed(UpToSegment(s, m.current) \o m.match)
<1>1. PICK split, trees, kept : /\ split = splitQuery(s, p.tree) /\ trees = Serialize(s, p.tree)
                                /\ kept = Kept(trees, split.prefix)
  OBVIOUS
<1>2. m.match \in Offered(trees) /\ m.current = split.current /\ m.value = Trimmed(kept \o m.match)
  BY <1>1, CompletionIs
<1>3. PICK o : o = m.match
  OBVIOUS
<1>4. o \in Seq(Characters)
  BY <1>2, <1>3, OfferedType
<1>5. CASE Alone(s, split, kept)
  <2>1. split.current = s /\ kept \in {<<>>, <<" ">>}
    BY <1>5 DEF Alone
  <2>2. UpToSegment(s, s) = <<>>
    <3>1. PICK w : w = Trimmed(s)
      OBVIOUS
    <3>2. w \in Seq(Characters)
      BY <3>1, TrimmedIs
    <3>3. UpToSegment(s, s) = SubSeq(w, 1, Len(w) - Len(w))
      BY <3>1 DEF UpToSegment
    <3>4. Len(w) - Len(w) = 0
      BY <3>2
    <3>5. SubSeq(w, 1, 0) = <<>>
      BY <3>2
    <3> QED BY <3>3, <3>4, <3>5
  <2>3. <<>> \o o = o
    BY <1>4
  <2>4. kept \in Seq(Characters) /\ White(kept)
    <3>1. " " \in Characters
      BY QueryInputAssumption
    <3>2. CASE kept = <<>>
      BY <3>2 DEF White
    <3>3. CASE kept = <<" ">>
      <4>1. PICK e : e = " "
        OBVIOUS
      <4>2. kept = <<e>> /\ e \in Characters
        BY <3>1, <3>3, <4>1
      <4>3. kept \in Seq(Characters) /\ Len(kept) = 1 /\ kept[1] = e
        BY <4>2
      <4>4. \A i \in 1 .. Len(kept) : i = 1
        BY <4>3
      <4>5. e \in Whitespace
        BY <4>1 DEF Whitespace
      <4> QED BY <4>3, <4>4, <4>5 DEF White
    <3> QED BY <2>1, <3>2, <3>3
  <2>5. Trimmed(kept \o o) = Trimmed(o)
    BY <1>4, <2>4, TrimmedFront
  <2> QED BY <1>2, <1>3, <2>1, <2>2, <2>3, <2>5
<1>6. ASSUME NEW k, NEW f, Behind(s, split, kept, k, f)
      PROVE  Trimmed(kept \o o) = Trimmed(UpToSegment(s, split.current) \o o)
  <2>1. /\ k \in Nat /\ f \in Nat /\ 1 <= k /\ k <= f /\ f <= Len(s)
        /\ s[f] \notin Whitespace /\ \A i \in 1 .. k - 1 : s[i] \in Whitespace
        /\ split.current = Slice(s, f, Len(s) + 1) /\ kept = Slice(s, k, f)
    BY <1>6 DEF Behind
  <2>2. Trimmed(Slice(s, k, f) \o o) = Trimmed(UpToSegment(s, Slice(s, f, Len(s) + 1)) \o o)
    BY <1>4, <2>1, KeptBefore
  <2> QED BY <2>1, <2>2
<1>7. Alone(s, split, kept) \/ \E k, f : Behind(s, split, kept, k, f)
  BY <1>1, ParseSplit
<1> QED BY <1>2, <1>3, <1>5, <1>6, <1>7

-----------------------------------------------------------------------------
(* The search bar *)

\* The query is text and parsed, and the matches are completions of it.
InputInv ==
    /\ query \in Seq(Characters) /\ parsed = Parse(query)
    /\ matches \subseteq IF parsed.thrown THEN {} ELSE codeCompletionProvider(query, parsed.tree)

\* Showing a query establishes the invariant, whatever was shown.
LEMMA ShowStep ==
  ASSUME NEW s \in Seq(Characters), Show(s)
  PROVE  InputInv' /\ Edit
<1>1. query' = s /\ parsed' = Parse(s) /\ Parses(s)
  BY DEF Show, Parses
<1>2. matches' = IF parsed'.thrown THEN {} ELSE codeCompletionProvider(s, parsed'.tree)
  BY DEF Show
<1>3. matches' \subseteq IF parsed'.thrown THEN {} ELSE codeCompletionProvider(query', parsed'.tree)
  BY <1>1, <1>2
<1>4. Edit
  BY <1>1 DEF Edit
<1> QED BY <1>1, <1>3, <1>4 DEF InputInv

\* Every step of the search bar preserves it and edits the text.
LEMMA InputStep ==
  ASSUME InputInv, [Next]_vars
  PROVE  InputInv' /\ [Edit]_text
<1>1. CASE UNCHANGED vars
  BY <1>1 DEF vars, text, InputInv
<1>2. ASSUME NEW chunk \in Chunks, Type(chunk) PROVE InputInv' /\ Edit
  <2>1. chunk \in Seq(Characters)
    BY QueryInputAssumption
  <2>2. query \o chunk \in Seq(Characters)
    BY <2>1 DEF InputInv
  <2> QED BY <1>2, <2>2, ShowStep DEF Type
<1>3. ASSUME NEW m \in matches, Take(m) PROVE InputInv' /\ Edit
  <2>1. m \in codeCompletionProvider(query, Parse(query).tree)
    BY DEF InputInv
  <2>2. m.value \in Seq(Characters)
    BY <2>1, CompletionType DEF InputInv
  <2> QED BY <1>3, <2>2, ShowStep DEF Take
<1> QED BY <1>1, <1>2, <1>3 DEF Next

\* InputInv is an invariant.
LEMMA InputInvariant == Spec => []InputInv
<1>1. Init => InputInv
  BY DEF Init, TextInit, InputInv
<1>2. InputInv /\ [Next]_vars => InputInv'
  BY InputStep
<1> QED BY <1>1, <1>2, PTL DEF Spec

\* Whatever is typed or taken, the search bar edits the text and parses the
\* whole of it anew (codeCompletionProvider of QueryInput.ts).
THEOREM SearchBarEdits == Spec => TextSpec
<1>1. Init => TextInit
  BY DEF Init
<1>2. InputInv /\ [Next]_vars => [Edit]_text
  BY InputStep
<1> QED BY <1>1, <1>2, InputInvariant, PTL DEF Spec, TextSpec

\* DumpInOrder: whatever the query, its tree holds tokens of it, each once and
\* in order (the rules of QueryParser, and syncWhile, that recovers).
THEOREM DumpInOrderAlways == Spec => []DumpInOrder
<1>1. InputInv => DumpInOrder
  <2> SUFFICES ASSUME InputInv PROVE DumpInOrder
    OBVIOUS
  <2>1. DumpedInOrder(query, parsed)
    BY ParseInOrder DEF InputInv
  <2> QED BY <2>1 DEF DumpInOrder, DumpedInOrder
<1> QED BY <1>1, InputInvariant, PTL

\* LosslessDump: a query without errors is dumped as it was typed, but for
\* spaces before a leading modifier (DumpVisitor of queryParser.ts).
THEOREM LosslessDumpAlways == Spec => []LosslessDump
<1>1. InputInv => LosslessDump
  <2> SUFFICES ASSUME InputInv PROVE LosslessDump
    OBVIOUS
  <2>1. WrittenAsTyped(query, parsed)
    BY ParseLossless DEF InputInv
  <2> QED BY <2>1 DEF LosslessDump, WrittenAsTyped, EscapeFree, ErrorFree
<1> QED BY <1>1, InputInvariant, PTL

\* CompletionKeepsQuery: a completion replaces the segment being typed and
\* keeps everything before it (splitQuery and formatMatch of QueryInput.ts).
THEOREM CompletionKeepsQueryAlways == Spec => []CompletionKeepsQuery
<1>1. InputInv => CompletionKeepsQuery
  <2> SUFFICES ASSUME InputInv, EscapeFree, ErrorFree, NEW m \in matches
               PROVE  m.value = Trimmed(UpToSegment(query, m.current) \o m.match)
    BY DEF CompletionKeepsQuery, UpToSegment
  <2>1. /\ query \in Seq(Characters) /\ parsed = Parse(query) /\ Escape \notin ToSet(query)
        /\ parsed.errors = <<>> /\ ~parsed.thrown
        /\ m \in codeCompletionProvider(query, parsed.tree)
    BY DEF InputInv, EscapeFree, ErrorFree
  <2> QED BY <2>1, CompletionKeeps
<1> QED BY <1>1, InputInvariant, PTL
=============================================================================
