SPECIFICATION Spec
SYMMETRY Symmetry
CONSTANTS
  Workers = {w1, w2}
  Accounts = {a, m}
  Managed = {}
  Devices = {d}
  PhoneOf <- MCPhoneOf
  GuardianPhone <- MCGuardianPhone
  Guardian = NONE
  NONE = NONE
  ADMIN = ADMIN
  DELETED = DELETED
  Ops = {"start", "verify", "approve", "complete", "cancel", "link", "register", "revoke"}
  Subjects = {a}
  FamilyTTL = 1
  Dwell = 1
  MaxStarts = 1
  Hour = 3
  Day = 9
  Cooldown = 0
  CodeTTL = 1
  MaxVerify = 1
  HourlyCap = 3
  DailyCap = 9
  MaxTime = 1
  MaxRequests = 3
  MaxResets = 1
  Crashes = FALSE
INVARIANTS
  FactorComposition
  EndorsersHadStanding
  StartsOverrunBounded
CONSTRAINT
  OneRequestOrStarts
\* bounded clock and tables: every behaviour comes to rest
CHECK_DEADLOCK FALSE
