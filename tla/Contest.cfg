CONSTANTS
  d1 = d1
  d2 = d2
  Devices = {d1, d2}
  Start = 1
  Ends = {3, 4}
  Duration = 2
  MaxTime = 4
  MaxVersion = 1
  Null = Null
SPECIFICATION Spec
SYMMETRY Symmetry
INVARIANTS AnswersInTime EndBinds RevokedAreRechecked
