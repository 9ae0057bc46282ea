SPECIFICATION Spec
SYMMETRY Symmetry
CONSTANTS
  Workers = {w1}
  Accounts = {a, m}
  Managed = {}
  Devices = {d}
  PhoneOf <- MCPhoneOf
  GuardianPhone <- MCGuardianPhone
  Guardian = NONE
  NONE = NONE
  ADMIN = ADMIN
  DELETED = DELETED
  Ops = {"start", "register", "delete"}
  Subjects = {a, m}
  FamilyTTL = 1
  Dwell = 1
  MaxStarts = 2
  Hour = 3
  Day = 9
  Cooldown = 1
  CodeTTL = 1
  MaxVerify = 1
  HourlyCap = 2
  DailyCap = 9
  MaxTime = 1
  MaxRequests = 2
  MaxResets = 2
  Crashes = FALSE
INVARIANTS
  DeleteVoids
\* bounded clock and tables: every behaviour comes to rest
CHECK_DEADLOCK FALSE
