CONSTANTS
  t1 = t1
  t2 = t2
  t3 = t3
  e1 = e1
  e2 = e2
  Tasks = {t1, t2, t3}
  Editors = {e1, e2}
  MaxTime = 4
  DefaultTime = 2
  Matches <- MCMatches
  Compiled <- MCCompiled
  Budgets <- MCBudgets
SYMMETRY MCSymmetry
SPECIFICATION DeskSpec
INVARIANTS SavedIsShown SaveAccepted SelectionIsShown ShownIsLastFilter
CHECK_DEADLOCK FALSE
