SPECIFICATION FairSpec
CONSTANTS
  Workers = {w1}
  Accounts = {a, m}
  Managed = {m}
  Devices = {}
  PhoneOf <- MCPhoneOf
  GuardianPhone <- MCGuardianPhone
  Guardian = a
  NONE = NONE
  ADMIN = ADMIN
  DELETED = DELETED
  Ops = {"start", "verify", "approve", "grant", "cancel", "complete", "link"}
  Subjects = {m}
  FamilyTTL = 1
  Dwell = 1
  MaxStarts = 2
  Hour = 3
  Day = 9
  Cooldown = 1
  CodeTTL = 1
  MaxVerify = 1
  HourlyCap = 2
  DailyCap = 9
  MaxTime = 2
  MaxRequests = 2
  MaxResets = 2
  Crashes = FALSE
INVARIANTS
  OneResetPerRequest
  ManagedNeedsAdmin
PROPERTIES
  ResetAnnounced
  CancelAnnounced
\* bounded clock and tables: every behaviour comes to rest
CHECK_DEADLOCK FALSE
