----------------------------- MODULE QueryInput -----------------------------
(***************************************************************************)
(* The search bar: the user types a query or takes one of the completions  *)
(* offered for it (QueryInput.ts).  Each time the query is parsed anew,    *)
(* and cut into the segment under completion and what is before it.        *)
(***************************************************************************)
EXTENDS QueryText, QueryVisitors

CONSTANTS
    Chunks,   \* what is typed at a time: sequences of characters
    Fields,   \* the names of message fields, likewise
    MaxTyped  \* bound: chunks typed and completions taken

VARIABLES
    matches,  \* the completions offered for the query
    typed     \* the bound's counter

vars == <<query, parsed, matches, typed>>

-----------------------------------------------------------------------------
fieldsCompletions ==
    UNION {{f \o <<":">>, <<"_exists_", ":">> \o f, <<"_missing_", ":">> \o f} : f \in Fields}
unaryOperatorsCompletions == {<<"+">>, <<"-">>, <<"!">>, <<"N", "O", "T">>}
binaryOperatorsCompletions ==
    {<<"&", "&">>, <<"A", "N", "D">>, <<"!">>, <<"N", "O", "T">>, <<"|", "|">>, <<"O", "R">>}
completions == fieldsCompletions \cup unaryOperatorsCompletions \cup binaryOperatorsCompletions

\* What is typed or taken is text.
ASSUME QueryInputAssumption ==
    /\ Chunks \cup completions \subseteq Seq(Characters)
    /\ " " \in Characters
    /\ MaxTyped \in Nat

Trimmed(s) ==
    LET dark == {i \in DOMAIN s : s[i] \notin Whitespace}
    IN  IF dark = {} THEN <<>> ELSE SubSeq(s, Min(dark), Max(dark))

FromEnd(trees, n) == IF n < Len(trees) THEN trees[Len(trees) - n].kind ELSE "undefined"

\* splitQuery: the last tree visited is completed, the rest is kept.
\* (SplitTwice is a fault: the segment is kept as well.)
SplitTwice(s, tree) ==
    [current |-> Written(s, Dump(s, Last(Serialize(s, tree)), Nothing)),
     prefix |-> Written(s, Dump(s, tree, Nothing))]
splitQuery(s, tree) ==
    LET current == Last(Serialize(s, tree))
    IN  [current |-> Written(s, Dump(s, current, Nothing)),
         prefix |-> Written(s, Dump(s, tree, current))]

TermKinds == {"term", "field"}

\* What may follow: fields and operators where a term is being typed or is
\* missing.  None is offered for a query that starts with an operator, or
\* misses two terms in a row.
Offered(trees) ==
    LET previous == FromEnd(trees, 1) IN
    CASE FromEnd(trees, 0) \in TermKinds ->
           fieldsCompletions
             \cup (IF previous = "modifier" THEN {} ELSE unaryOperatorsCompletions)
             \cup (IF previous \in {"undefined", "modifier", "expression"} THEN {}
                   ELSE binaryOperatorsCompletions)
      [] FromEnd(trees, 0) = "missing" /\ FromEnd(trees, 2) # "missing"
                                       /\ trees[1].kind # "expression" ->
           fieldsCompletions \cup unaryOperatorsCompletions
      [] OTHER -> {}

\* A missing term is set off by a space, unless a sign precedes it.
Kept(trees, prefix) ==
    LET dark == Trimmed(prefix)
        spaced == prefix # <<>> /\ Last(prefix) = " "
        signed == dark # <<>> /\ Last(dark) \in {"+", "-", "!"}
    IN  IF FromEnd(trees, 0) = "missing" /\ Offered(trees) # {} /\ ~spaced /\ ~signed
        THEN Append(prefix, " ") ELSE prefix

Occurs(s, t) == \E i \in 0 .. Len(t) - Len(s) : SubSeq(t, i + 1, i + Len(s)) = s

\* codeCompletionProvider: the queries offered.  (The ten that are shown, and
\* their order, are left out.)
Completions(current, kept, offered) ==
    {[value |-> Trimmed(kept \o m), match |-> m, current |-> current] :
       m \in {o \in offered : Occurs(current, o)}}
CompletionsOf(trees, split) == Completions(split.current, Kept(trees, split.prefix), Offered(trees))
codeCompletionProvider(s, tree) == CompletionsOf(Serialize(s, tree), splitQuery(s, tree))

-----------------------------------------------------------------------------
\* An exception of the parser leaves no completions.
Show(s) ==
    /\ typed < MaxTyped
    /\ Parses(s)
    /\ matches' = IF parsed'.thrown THEN {} ELSE codeCompletionProvider(s, parsed'.tree)
    /\ typed' = typed + 1

\* minLength: nothing is offered before the first character is typed.
Init ==
    /\ TextInit
    /\ matches = {}
    /\ typed = 0

Type(chunk) == Show(query \o chunk)
Take(m) == Show(m.value)

Next == (\E chunk \in Chunks : Type(chunk)) \/ (\E m \in matches : Take(m))

Spec == Init /\ [][Next]_vars

-----------------------------------------------------------------------------
(* Properties *)

\* Whatever the query, the tree it is parsed into holds tokens of it, each
\* once and in order: recovering from an error neither repeats nor reorders
\* what was typed.
DumpInOrder ==
    LET dumped == Dump(query, parsed.tree, Nothing)
        tokens == ToSet(Tokens(query))
    IN  ~parsed.thrown => \A i \in DOMAIN dumped :
        /\ dumped[i] \in tokens
        /\ i > 1 => dumped[i - 1].end <= dumped[i].begin

\* A query without errors is dumped as it was typed, but for spaces before a
\* leading modifier.
LosslessDump ==
    LET dumped == Dump(query, parsed.tree, Nothing) IN
    EscapeFree /\ ErrorFree =>
        Written(query, dumped) =
            IF parsed.tree.kind = "modifier"
            THEN SubSeq(query, dumped[1].begin + 1, Len(query)) ELSE query

\* A completion of a query without errors replaces the segment being typed by
\* one that contains it, and keeps everything before it.
CompletionKeepsQuery ==
    LET typedQuery == Trimmed(query) IN
    EscapeFree /\ ErrorFree =>
        \A m \in matches :
            LET before == SubSeq(typedQuery, 1, Len(typedQuery) - Len(Trimmed(m.current)))
            IN  m.value = Trimmed(before \o m.match)

\* "reports an error when field is missing term": the parser reports it.
ErrorsAreReported == ~parsed.thrown
=============================================================================
