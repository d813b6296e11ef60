CONSTANTS
  Characters = {"a", "A", "b", "zh"}
  Tasks <- MCTasks
  Cells <- MCCells
  Typed <- MCTyped
  Juries <- MCJuries
  Budgets <- MCBudgets
SPECIFICATION Spec
INVARIANTS PagesAreOwned AnswersAreStored GradedAsDeserved
PROPERTIES LeftAtTheEnd
CHECK_DEADLOCK FALSE
