------------------------------ MODULE MCKimDesk ------------------------------
EXTENDS KimDesk
CONSTANTS t1, t2, t3, e1, e2

MCMatches == ("1" :> {t1, t2, t3}) @@ ("tag" :> {t2, t3})

MCCompiled == {{t2}, {t1, t2, t3}}

MCSymmetry == Permutations({e1, e2})

MCBudgets ==
  {[page |-> 3, dialog |-> 0, list |-> 0],
   [page |-> 0, dialog |-> 3, list |-> 0],
   [page |-> 1, dialog |-> 2, list |-> 0],
   [page |-> 1, dialog |-> 0, list |-> 2],
   [page |-> 0, dialog |-> 0, list |-> 4]}
=============================================================================
