SPECIFICATION Spec
SYMMETRY Symmetry
CONSTANTS
  Workers = {w1}
  Members = {a, b}
  Eligible = {a}
  NONE = NONE
  Ttl = 1
  Cooldown = 1
  PairCap = 2
  Day = 1
  MaxTime = 1
  MaxLinks = 2
  MaxDeaths = 0
INVARIANTS
  NoDuplicateActiveLink
CHECK_DEADLOCK FALSE
