SPECIFICATION Spec
SYMMETRY Symmetry
CONSTANTS
  Workers = {w1, w2}
  Members = {a, b, c}
  Eligible = {a}
  NONE = NONE
  Ttl = 0
  Cooldown = 1
  PairCap = 1
  Day = 1
  MaxTime = 2
  MaxLinks = 3
  MaxDeaths = 1
CONSTRAINT
  LongOnlyUnapproved
INVARIANTS
  TypeOK
  UsableAfterCooldown
  ApprovalAnnouncedTruly
  PairOverrunBounded
  RevocationNotLost
PROPERTIES
  ImplementsConsent
\* bounded clock and table: every behaviour may come to rest
CHECK_DEADLOCK FALSE
