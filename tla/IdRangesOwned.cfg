CONSTANTS
  Sessions = {s1, s2}
  Handlers = {h1, h2}
  MAX_IDS = 3
  MaxSeq = 10
  null = null
SPECIFICATION Spec
INVARIANT GivenIsOwned
