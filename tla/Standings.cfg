CONSTANTS
  k1 = k1
  k2 = k2
  t1 = t1
  t2 = t2
  u1 = u1
  u2 = u2
  Kims = {k1, k2}
  Tasks = {t1, t2}
  Users = {u1, u2}
  TasksOf <- MCTasksOf
  NoKim = NoKim
  MaxSubs = 3
  MaxRequests = 2
SPECIFICATION Spec
SYMMETRY Symmetry
INVARIANTS TableIsOfSelection NothingMissing TotalsAddUp
