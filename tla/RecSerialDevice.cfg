SPECIFICATION Spec
SYMMETRY Symmetry
CONSTANTS
  Workers = {w1}
  Accounts = {a}
  Managed = {}
  Devices = {d1, d2}
  PhoneOf <- MCPhoneOf
  GuardianPhone <- MCGuardianPhone
  Guardian = NONE
  NONE = NONE
  ADMIN = ADMIN
  DELETED = DELETED
  Ops = {"start", "verify", "complete", "register", "delete"}
  Subjects = {a}
  FamilyTTL = 1
  Dwell = 1
  MaxStarts = 2
  Hour = 3
  Day = 9
  Cooldown = 1
  CodeTTL = 1
  MaxVerify = 1
  HourlyCap = 2
  DailyCap = 9
  MaxTime = 2
  MaxRequests = 2
  MaxResets = 2
  Crashes = TRUE
INVARIANTS
  TypeOK
  DeleteVoids
PROPERTIES
  ResetByNewest
  DeletedDeviceVouchesNoMore
\* bounded clock and tables: every behaviour comes to rest
CHECK_DEADLOCK FALSE
