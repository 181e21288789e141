---------------------------- MODULE QueryParser -----------------------------
(***************************************************************************)
(* The parser of the search bar (QueryParser in queryParser.ts).  A rule   *)
(* is an operator, or a recursive function, from what is left of the       *)
(* tokens to a tree and what is left after it.                             *)
(*                                                                         *)
(* A tree keeps its own tokens, the hidden ones among them, in "body", in  *)
(* the order they are dumped in; "prefix" and "suffix" are the hidden ones *)
(* around it.                                                              *)
(***************************************************************************)
EXTENDS QueryLexer

Hidden == {"WS", "ERROR"}
Expr == {"TERM", "PHRASE"}
Operator == {"OR", "AND"}
Modifier == {"NOT", "MUST", "MUST_NOT"}
AllTypes == Hidden \cup Expr \cup Operator \cup Modifier \cup {"COLON"}

\* followSets has no entry for the rule "term".
Follow(rule) == IF rule = "parse" THEN Expr ELSE Expr \cup Operator \cup Modifier
HasFollow(rule) == rule # "term"

-----------------------------------------------------------------------------
(* The tokens that are left, the errors so far, and whether the parser threw:
   then nothing is left to parse. *)

\* "noToken" is "Unexpected input" with the text that the lexer could not place.
Messages == {"noToken", "unexpected", "noTerm", "noLeftSide", "noRightSide"}
States == [rest : Seq([type : AllTypes, begin : Nat, end : Nat]),
           errors : Seq([position : Nat, message : Messages]), eof : Nat, thrown : BOOLEAN]

\* (LookPastEnd is a fault: the end is one too far.)
LookPastEnd(st) == IF st.rest = <<>> THEN Token("EOF", st.eof + 1, st.eof + 1) ELSE Head(st.rest)
LookAhead(st) == IF st.rest = <<>> THEN Token("EOF", st.eof, st.eof) ELSE Head(st.rest)
At(st, types) == LookAhead(st).type \in types
Consume(st) == IF st.rest = <<>> THEN st ELSE [st EXCEPT !.rest = Tail(@)]

Report(st, position, message) ==
    [st EXCEPT !.errors = Append(@, [position |-> position, message |-> message])]

\* syncWhile, and syncTo: the tokens up to the first that is not of these
\* types, and the state after them.
Leading(st, types) ==
    LET others == {i \in DOMAIN st.rest : st.rest[i].type \notin types}
    IN  IF others = {} THEN Len(st.rest) ELSE Min(others) - 1
Skipped(st, types) == SubSeq(st.rest, 1, Leading(st, types))
SyncWhile(st, types) == [st EXCEPT !.rest = SubSeq(@, Leading(st, types) + 1, Len(@))]

SyncTo(st, types) == SyncWhile(st, AllTypes \ types)

HiddenAt(st) == Skipped(st, Hidden)
Noted(errors, t) ==
    IF t.type = "ERROR" THEN Append(errors, [position |-> t.begin, message |-> "noToken"])
    ELSE errors
AllNoted(errors, tokens) ==
    LET after[i \in Nat] == IF i = 0 THEN errors ELSE Noted(after[i - 1], tokens[i])
    IN  after[Len(tokens)]
SkipHidden(st) == [SyncWhile(st, Hidden) EXCEPT !.errors = AllNoted(@, HiddenAt(st))]

\* unexpectedToken and missingToken.  Without a follow set, syncTo throws
\* unless the query ends here.
Throw(st) == [st EXCEPT !.rest = <<>>, !.thrown = TRUE]
Recover(st, rule, message) ==
    LET reported == Report(st, LookAhead(st).begin, message) IN
    IF HasFollow(rule) THEN SyncTo(reported, Follow(rule))
    ELSE IF At(st, {"EOF"}) THEN reported ELSE Throw(reported)

-----------------------------------------------------------------------------
(* Trees *)

Nothing == [kind |-> "null"]
Missing == [kind |-> "missing", prefix |-> <<>>, body |-> <<>>, suffix |-> <<>>]
\* (BareLeaf is a fault: the hidden tokens after it are forgotten.)
BareLeaf(kind, body, suffix) == [Missing EXCEPT !.kind = kind, !.body = body]
Leaf(kind, body, suffix) == [Missing EXCEPT !.kind = kind, !.body = body, !.suffix = suffix]
ModifierTree(body, right) ==
    [kind |-> "modifier", prefix |-> <<>>, body |-> body, right |-> right, suffix |-> <<>>]
ExpressionTree(left, body, right) ==
    [kind |-> "expression", prefix |-> <<>>, left |-> left, body |-> body, right |-> right,
     suffix |-> <<>>]
ListTree(items) == [kind |-> "list", prefix |-> <<>>, items |-> items, suffix |-> <<>>]

Result(tree, st) == [tree |-> tree, st |-> st]

-----------------------------------------------------------------------------
(* The rules *)

\* lookAhead, consume and skipHidden: a token and the hidden ones after it.
Taken(st) == [token |-> LookAhead(st), spaces |-> HiddenAt(Consume(st)),
              st |-> SkipHidden(Consume(st))]

FieldOf(first, colon) ==
    LET field == <<first.token>> \o first.spaces \o <<colon.token>> \o colon.spaces
    IN  IF At(colon.st, Expr)
        THEN Result(Leaf("field", Append(field, LookAhead(colon.st)), <<>>), Consume(colon.st))
        ELSE Result(Leaf("field", field, <<>>), Recover(colon.st, "term", "noTerm"))

TermOrField(first) ==
    IF At(first.st, {"COLON"}) THEN FieldOf(first, Taken(first.st))
    ELSE Result(Leaf("term", <<first.token>>, first.spaces), first.st)

\* A fault: the spaces after a term are looked at, and left to the next rule.
TermBeforeSpaces(st) ==
    Result(Leaf("term", <<LookAhead(st)>>, HiddenAt(Consume(st))), Consume(st))

TermOrPhrase(st) == TermOrField(Taken(st))

Side(st, rule) == Result(Missing, Recover(st, rule, "noRightSide"))

\* A modifier or an operator, the hidden tokens before it, and its right side.
ModifierOf(before, modifier, right) ==
    Result(ModifierTree(before \o <<modifier.token>> \o modifier.spaces, right.tree), right.st)
ExpressionOf(left, before, operator, right) ==
    Result(ExpressionTree(left, before \o <<operator.token>> \o operator.spaces, right.tree),
           right.st)

\* The rules below take the rule for expressions as "expr", which they call.
\* A fault: a modifier may follow a modifier.
ModifierSideOfAny(expr, st) == expr[IF At(st, Modifier) THEN Consume(st) ELSE st]
ModifierSide(expr, st) == IF At(st, Expr) THEN expr[st] ELSE Side(st, "modifier")

TakenModifier(expr, before, modifier) ==
    ModifierOf(before, modifier, ModifierSide(expr, modifier.st))
Modified(expr, st) == TakenModifier(expr, HiddenAt(st), Taken(SkipHidden(st)))

OperatorSide(expr, st) ==
    CASE At(st, Expr)     -> expr[st]
      [] At(st, Modifier) -> Modified(expr, st)
      [] OTHER            -> Side(st, "expr")
TakenOperator(expr, left, before, operator) ==
    ExpressionOf(left, before, operator, OperatorSide(expr, operator.st))

\* What follows the left side, and the hidden tokens after it.
AfterLeft(expr, left, spaces, st) ==
    IF At(st, Operator) THEN TakenOperator(expr, left, spaces, Taken(st))
    ELSE Result([left EXCEPT !.suffix = @ \o spaces], st)

AfterTerm(expr, left) == AfterLeft(expr, left.tree, HiddenAt(left.st), SkipHidden(left.st))

Expression[st \in States] ==
    IF At(st, Expr) THEN AfterTerm(Expression, TermOrPhrase(st))
    ELSE AfterLeft(Expression, Nothing, <<>>, Recover(st, "expr", "noLeftSide"))

\* exprs: one tree, or a list of them.
Before(tree, items) == Result(<<tree>> \o items.tree, items.st)
Item(items, item) == Before(item.tree, items[item.st])
Items[st \in States] ==
    CASE At(st, Expr \cup Operator) -> Item(Items, Expression[st])
      [] At(st, Modifier)           -> Item(Items, Modified(Expression, st))
      [] OTHER                      -> Result(<<>>, st)

TreeOf(items) ==
    CASE items = <<>>   -> Missing
      [] Len(items) = 1 -> items[1]
      [] OTHER          -> ListTree(items)

Exprs(items) == Result(TreeOf(items.tree), items.st)

\* parse: the hidden tokens before and after it are the tree's own; what it
\* leaves is unexpected.
Suffixed(tree, spaces, st) ==
    [tree |-> [tree EXCEPT !.suffix = @ \o spaces], errors |-> st.errors, thrown |-> st.thrown]
AtEnd(tree, st) == Suffixed(tree, HiddenAt(st), SkipHidden(st))
Parsed(spaces, exprs) ==
    AtEnd([exprs.tree EXCEPT !.prefix = @ \o spaces],
          IF At(exprs.st, {"EOF"}) THEN exprs.st
          ELSE Recover(exprs.st, "parse", "unexpected"))
ParsedTokens(st) == Parsed(HiddenAt(st), Exprs(Items[SkipHidden(st)]))

Parse(s) ==
    ParsedTokens([rest |-> Tokens(s), errors |-> <<>>, eof |-> Len(s), thrown |-> FALSE])

=============================================================================
