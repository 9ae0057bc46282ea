SPECIFICATION Spec
SYMMETRY Symmetry
CONSTANTS
  Workers = {w1}
  Accounts = {a, m}
  Managed = {}
  Devices = {}
  PhoneOf <- MCPhoneOf
  GuardianPhone <- MCGuardianPhone
  Guardian = NONE
  NONE = NONE
  ADMIN = ADMIN
  DELETED = DELETED
  Ops = {"start", "verify", "approve", "cancel", "complete", "link", "revoke"}
  Subjects = {a}
  FamilyTTL = 1
  Dwell = 1
  MaxStarts = 1
  Hour = 2
  Day = 9
  Cooldown = 1
  CodeTTL = 1
  MaxVerify = 1
  HourlyCap = 2
  DailyCap = 9
  MaxTime = 2
  MaxRequests = 2
  MaxResets = 2
  Crashes = TRUE
INVARIANTS
  OneLiveRequest
PROPERTIES
  LifecycleForward
  EndorserLinkedNow
  NotesFollowWrites
\* bounded clock and tables: every behaviour comes to rest
CHECK_DEADLOCK FALSE
