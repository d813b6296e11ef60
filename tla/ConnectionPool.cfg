CONSTANTS
  Conns = {c1, c2}
  Reqs = {r1, r2, r3}
  conns_desired = 2
  NoConn = NoConn
  NoReq = NoReq
SPECIFICATION FairSpec
INVARIANTS
  FutureSetOnce
  SingleOwner
  AliveCount
  NoInheritedTransaction
  NoIdleWhileWaiting
PROPERTIES
  ImplementsFifo
  WaitersAnswered
