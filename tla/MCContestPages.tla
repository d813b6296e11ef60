--------------------------- MODULE MCContestPages ---------------------------
EXTENDS ContestPages

a == <<"a">>
A == <<"A">>
b == <<"b">>
wide == <<"zh">>

MCCells == <<1, 2>>

MCTyped == {<<a>>, <<A>>, <<<<>>>>, <<a, b>>, <<b, a>>, <<wide, b>>, <<a, <<>>>>}

MCJuries ==
  {<<[cells |-> <<a>>, policy |-> first], [cells |-> <<a, b>>, policy |-> second]>> :
     <<first, second>> \in {<<"FULL_MATCH", "INDEPENDENT_SWAP_PENALTY">>,
                           <<"FULL_MATCH_CASE_SENSITIVE", "INDEPENDENT">>}}

MCTasks == {1, 2}

MCBudgets ==
  {[go |-> 2, answer |-> 0, fail |-> 0], [go |-> 1, answer |-> 0, fail |-> 1],
   [go |-> 1, answer |-> 2, fail |-> 0], [go |-> 0, answer |-> 4, fail |-> 1]}
=============================================================================
