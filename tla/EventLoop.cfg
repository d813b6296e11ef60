CONSTANTS
  Workers = {w1, w2}
  Reqs = {r1, r2}
  MaxDepth = 2
  MaxAwaits = 2
  NoWorker = NoWorker
SPECIFICATION FairSpec
INVARIANTS
  AliveIsExact
  OneWakeUp
  NothingAbandoned
  NoWorkSleeps
PROPERTIES
  RequestsFinish
  ShutdownEnds
CHECK_DEADLOCK FALSE
