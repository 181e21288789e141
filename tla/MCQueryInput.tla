---------------------------- MODULE MCQueryInput ----------------------------
(***************************************************************************)
(* Queries of a few chunks for TLC: words, signs, escapes, quotes and      *)
(* brackets.                                                               *)
(***************************************************************************)
EXTENDS QueryInput

MCWords == {<<"a">>, <<" ">>, <<":">>, <<"-">>, <<Escape>>, <<Quote>>, <<"[">>, <<"]">>,
            <<"O", "R">>, <<"N", "O", "T">>}
MCFields == {<<"a">>, <<"b", "a">>}
MCCharacters ==
    UNION {ToSet(s) : s \in MCWords \cup MCFields \cup unaryOperatorsCompletions
                             \cup binaryOperatorsCompletions}
      \cup {"_exists_", "_missing_"}
=============================================================================
