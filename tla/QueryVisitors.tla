---------------------------- MODULE QueryVisitors ----------------------------
(***************************************************************************)
(* The visitors of the trees that the parser of the search bar makes.      *)
(***************************************************************************)
EXTENDS QueryParser

-----------------------------------------------------------------------------
(* The trees of a height, which is one more than that of the trees inside. *)

TokenSeq == Seq([type : AllTypes, begin : Nat, end : Nat])
LeafTrees ==
    [kind : {"term", "field", "missing"}, prefix : TokenSeq, body : TokenSeq, suffix : TokenSeq]

Nested(inner) ==
    [kind : {"modifier"}, prefix : TokenSeq, body : TokenSeq, right : inner, suffix : TokenSeq]
      \cup [kind : {"expression"}, prefix : TokenSeq, left : inner, body : TokenSeq, right : inner,
            suffix : TokenSeq]
      \cup [kind : {"list"}, prefix : TokenSeq, items : Seq(inner), suffix : TokenSeq]

Trees[height \in Nat] ==
    {Nothing} \cup LeafTrees \cup (IF height = 0 THEN {} ELSE Nested(Trees[height - 1]))

\* A query has at most one token more than characters, and each level of its
\* tree but the topmost has a token of its own.
TreesOf(s) == Trees[Len(s) + 2]

-----------------------------------------------------------------------------
(* DumpVisitor: the tokens of a tree, without those of "skip", from what is
   dumped of the trees in it.  A modifier's prefix and suffix are not dumped. *)

DumpOf(dump, t) ==
    CASE t.kind = "null"       -> <<>>
      [] t.kind = "modifier"   -> t.body \o dump[t.right]
      [] t.kind = "expression" ->
           t.prefix \o dump[t.left] \o t.body \o dump[t.right] \o t.suffix
      [] t.kind = "list"       ->
           t.prefix \o FlattenSeq([i \in DOMAIN t.items |-> dump[t.items[i]]]) \o t.suffix
      [] OTHER -> t.prefix \o t.body \o t.suffix

Dump(s, tree, skip) ==
    LET dump[t \in TreesOf(s)] == IF t = skip THEN <<>> ELSE DumpOf(dump, t) IN dump[tree]

Written(s, tokens) == FlattenSeq([i \in DOMAIN tokens |-> Text(s, tokens[i])])

\* SerializeVisitor: the trees in the order they are visited in.
SerializeOf(serialize, t) ==
    CASE t.kind = "null"       -> <<>>
      [] t.kind = "modifier"   -> <<t>> \o serialize[t.right]
      [] t.kind = "expression" -> serialize[t.left] \o <<t>> \o serialize[t.right]
      [] t.kind = "list"       ->
           <<t>> \o FlattenSeq([i \in DOMAIN t.items |-> serialize[t.items[i]]])
      [] OTHER -> <<t>>

Serialize(s, tree) ==
    LET serialize[t \in TreesOf(s)] == SerializeOf(serialize, t) IN serialize[tree]
=============================================================================
