SPECIFICATION Spec
SYMMETRY Symmetry
CONSTANTS
  Workers = {w1, w2}
  Accounts = {a}
  Managed = {}
  Devices = {}
  PhoneOf <- MCPhoneOf
  GuardianPhone <- MCGuardianPhone
  Guardian = NONE
  NONE = NONE
  ADMIN = ADMIN
  DELETED = DELETED
  Ops = {"start", "verify", "cancel"}
  Subjects = {a}
  FamilyTTL = 1
  Dwell = 1
  MaxStarts = 2
  Hour = 3
  Day = 9
  Cooldown = 1
  CodeTTL = 1
  MaxVerify = 1
  HourlyCap = 2
  DailyCap = 9
  MaxTime = 0
  MaxRequests = 1
  MaxResets = 2
  Crashes = FALSE
PROPERTIES
  CancelIsFinal
\* bounded clock and tables: every behaviour comes to rest
CHECK_DEADLOCK FALSE
