CONSTANTS
  Sessions = {s1, s2}
  Reqs = {r1, r2}
  NoSession = NoSession
SPECIFICATION FairSpec
INVARIANTS
  NoSessionLost
  LogoutIsFinal
PROPERTIES
  LoggedOutCollected
