------------------------------ MODULE QueryText ------------------------------
(***************************************************************************)
(* The text in the search bar and what the parser makes of it: whatever    *)
(* the user does to it, each time the whole of it is parsed anew           *)
(* (codeCompletionProvider of QueryInput.ts).                              *)
(***************************************************************************)
EXTENDS QueryParser

CONSTANT Characters

\* None is what lies behind the last character.
ASSUME CharactersAssumption == None \notin Characters

VARIABLES
    query,    \* a sequence of characters
    parsed    \* its tree and errors

text == <<query, parsed>>

Parses(s) ==
    /\ query' = s
    /\ parsed' = Parse(s)

Edit == \E s \in Seq(Characters) : Parses(s)

TextInit ==
    /\ query = <<>>
    /\ parsed = Parse(<<>>)

TextSpec == TextInit /\ [][Edit]_text

-----------------------------------------------------------------------------
(* Properties *)

\* Every error is at a character of the query or at its end.
TypeOK ==
    /\ query \in Seq(Characters)
    /\ parsed.errors \in Seq([position : 0 .. Len(query), message : Messages])
    /\ parsed.thrown \in BOOLEAN

EscapeFree == Escape \notin ToSet(query)
ErrorFree == parsed.errors = <<>> /\ ~parsed.thrown

\* The tokens are in order, none is empty and none overlaps another; without
\* escapes, every character of the query is in exactly one of them, the quote
\* that an unfinished phrase lacks aside.
TokensTile ==
    LET tokens == Tokens(query)
        before(i) == IF i = 1 THEN 0 ELSE tokens[i - 1].end
    IN  /\ \A i \in DOMAIN tokens :
             /\ before(i) <= tokens[i].begin /\ tokens[i].begin < tokens[i].end
             /\ EscapeFree => before(i) = tokens[i].begin
        /\ EscapeFree /\ tokens # <<>> =>
             \/ Last(tokens).end = Len(query)
             \/ Last(tokens).type = "PHRASE" /\ Last(tokens).end = Len(query) + 1

\* The type of the token at i, and the next one that is not hidden.
TypeAt(tokens, i) == IF i \in DOMAIN tokens THEN tokens[i].type ELSE "EOF"
Following(tokens, i) == Min({j \in i + 1 .. Len(tokens) + 1 : TypeAt(tokens, j) \notin Hidden})

\* "MUST as modifier when followed by whitespace": a sign that modifies nothing.
LoneSign(s, p) == Char(s, p) \in {"+", "-", "!"} /\ Char(s, p + 1) \in Whitespace

\* The language of the parser, as a condition on neighbours: terms, fields
\* with their terms, operators between and modifiers before them.  Lone signs
\* may stand anywhere, like spaces.
Grammatical(s) ==
    LET tokens == Tokens(s)
    IN  /\ TypeAt(tokens, Following(tokens, 0)) \in Expr \cup Modifier \cup {"EOF"}
        /\ \A i \in DOMAIN tokens :
             LET type == tokens[i].type
                 next1 == Following(tokens, i)
             IN  /\ type = "ERROR" => LoneSign(s, tokens[i].begin)
                 /\ type \in Modifier \cup {"COLON"} => TypeAt(tokens, next1) \in Expr
                 /\ type \in Operator => TypeAt(tokens, next1) \in Expr \cup Modifier
                 /\ type = "COLON" => TypeAt(tokens, Following(tokens, next1)) # "COLON"

\* Nothing but lone signs is reported.
Ignorable(e) == e.message = "noToken" /\ LoneSign(query, e.position)
Accepted == ~parsed.thrown /\ \A i \in DOMAIN parsed.errors : Ignorable(parsed.errors[i])

\* The recursive descent has an error to report, or throws, exactly for the
\* queries outside of that language.  It reports lone signs as well
\* (skipHidden), though "this kind of query should not create any errors"
\* (queryParserTests.js:480): what is reported of them does not count here.
AcceptsTheLanguage == Accepted <=> Grammatical(query)
=============================================================================
