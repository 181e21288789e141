----------------------------- MODULE QueryLexer -----------------------------
(***************************************************************************)
(* The lexer of the search bar (QueryLexer in queryParser.ts).  A query is *)
(* a sequence of characters, positions count from 0 as they do there.      *)
(*                                                                         *)
(* lookAhead(la) moves the position by one whenever it meets a backslash,  *)
(* wherever la points: every test of a character may skip one.             *)
(***************************************************************************)
EXTENDS Naturals, SequencesExt

Escape == "\\"
Quote == "\""
None == "none"  \* null: past the end

Whitespace == {" "}
Special == {"+", "-", "!", "(", ")", ":", "^", "[", "]", Quote, "{", "}",
            "~", "*", "?", Escape, "/"}
RangeStart == {"[", "{"}
RangeEnd(start) == IF start = "{" THEN "}" ELSE "]"

isTermStart(c) == c # None /\ c \notin Whitespace /\ c \notin Special \ RangeStart
isTerm(c) == isTermStart(c) \/ c \in {"+", "-"}

Char(s, p) == IF p < Len(s) THEN s[p + 1] ELSE None

\* The position after lookAhead(la) at p; what it returns is Char(s, p + la).
Peek(s, p, la) == IF Char(s, p + la) = Escape THEN p + 1 ELSE p

\* Whether a token of this type, or a range that starts so, goes on with c.
GoesOn(type, c) ==
    CASE type = "WS"     -> c \in Whitespace
      [] type = "TERM"   -> isTerm(c)
      [] type = "PHRASE" -> c \notin {None, Quote}
      [] OTHER           -> c \notin {None, RangeEnd(type)}

\* Where the token ends that goes on from p.
Scan(s, type, p) ==
    LET end[i \in Nat] == IF GoesOn(type, Char(s, i)) THEN end[Peek(s, i, 0) + 1]
                          ELSE Peek(s, i, 0)
    IN  end[p]

-----------------------------------------------------------------------------
(* Keywords stand alone, a prefix is followed by something. *)

Keyword(type, text) == [type |-> type, text |-> text, alone |-> TRUE]
Prefix(type, text) == [type |-> type, text |-> text, alone |-> FALSE]

Words == << Keyword("OR", <<"O", "R">>), Keyword("OR", <<"|", "|">>),
            Keyword("AND", <<"A", "N", "D">>), Keyword("AND", <<"&", "&">>),
            Keyword("NOT", <<"N", "O", "T">>), Prefix("NOT", <<"!">>),
            Prefix("MUST", <<"+">>), Prefix("MUST_NOT", <<"-">>) >>

\* isKeyword and isPrefix: whether the word is at p, and where the test for
\* it leaves the position.
Tried(word, hit, pos) == [type |-> word.type, hit |-> hit, pos |-> pos]
Recognise(s, p, word) ==
    LET n == Len(word.text)
        differs == {i \in 0 .. n - 1 : Char(s, p + i) # word.text[i + 1]}
        peeked == Peek(s, p, n)
    IN  CASE differs # {} -> Tried(word, FALSE, Peek(s, p, Min(differs)))
          [] differs = {} /\ Char(s, p + n) \in Whitespace -> Tried(word, word.alone, p)
          [] OTHER ->
               Tried(word, (Char(s, peeked + n) = None) = word.alone, Peek(s, peeked, n))

OrElse(before, s, word) == IF before.hit THEN before ELSE Recognise(s, before.pos, word)
FirstWord(s, p) ==
    LET after[i \in Nat] == IF i = 0 THEN [type |-> "NONE", hit |-> FALSE, pos |-> p]
                            ELSE OrElse(after[i - 1], s, Words[i])
    IN  after[Len(Words)]

\* or, and, not, must, mustNot: what they consume depends on the character at
\* the position.  (WordEndByType is a fault: it depends on the type alone.)
WordEndByType(s, type, p) == p + (CASE type = "OR" -> 2 [] type \in {"AND", "NOT"} -> 3 [] OTHER -> 1)
WordEnd(s, type, p) ==
    CASE type = "OR"  -> p + 2
      [] type = "AND" -> Peek(s, p, 0) + (IF Char(s, p) = "&" THEN 2 ELSE 3)
      [] type = "NOT" -> Peek(s, p, 0) + (IF Char(s, p) = "!" THEN 1 ELSE 3)
      [] OTHER        -> p + 1

-----------------------------------------------------------------------------
Token(type, begin, end) == [type |-> type, begin |-> begin, end |-> end]

phrase(s, p) == Token("PHRASE", p, Scan(s, "PHRASE", p + 1) + 1)

range(s, p) ==
    LET end == Scan(s, Char(s, p), p + 1)
    IN  IF Char(s, end) = None THEN Token("ERROR", p, end) ELSE Token("TERM", p, end + 1)

term(s, p) == Token("TERM", p, Scan(s, "TERM", p + 1))

\* The token that starts with la, at p, and is no word.
SymbolAt(s, p, la) ==
    CASE la = Quote         -> phrase(s, p)
      [] la = ":"           -> Token("COLON", p, p + 1)
      [] la \in RangeStart  -> range(s, p)
      [] la = Escape        -> Token("ERROR", p - 1, p)
      [] isTermStart(la) /\ la \notin RangeStart -> term(s, p)
      [] OTHER              -> Token("ERROR", p, p + 1)

\* The word looked for leaves the position at word.pos.
VisibleAt(s, la, word) ==
    IF word.hit THEN Token(word.type, word.pos, WordEnd(s, word.type, word.pos))
    ELSE SymbolAt(s, word.pos, la)

TokenAt(s, p, la, word) ==
    CASE la = None         -> Token("EOF", Len(s), Len(s))
      [] la \in Whitespace -> Token("WS", p, Scan(s, "WS", p))
      [] OTHER             -> VisibleAt(s, la, word)

\* next: the token at p.  Its end is the position after it.
next(s, p) == TokenAt(s, p, Char(s, p), FirstWord(s, Peek(s, p, 0)))

Tokens(s) ==
    LET from[p \in Nat] ==
          LET t == next(s, p) IN IF t.type = "EOF" THEN <<>> ELSE <<t>> \o from[t.end]
    IN  from[0]

\* asString
Text(s, t) == SubSeq(s, t.begin + 1, Min({t.end, Len(s)}))
=============================================================================
