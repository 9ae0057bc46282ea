SPECIFICATION Spec
SYMMETRY Symmetry
CONSTANTS
  Workers = {w1, w2}
  Addresses = {x}
  Phones = {p}
  Guardians = {NONE, g}
  NONE = NONE
  Mode = "auto"
  Stages = {"awaiting_otp", "awaiting_identity_choice", "choose_identity"}
  SessionTTL = 0
  CodeTTL = 0
  MaxVerify = 1
  HourlyCap = 1
  DailyCap = 2
  Cooldown = 0
  Hour = 2
  Day = 2
  MaxTime = 1
  MaxSessions = 2
  MaxReviews = 1
  MaxDeaths = 1
INVARIANTS
  TypeOK
  DirectoryMatchesTable
  PhoneProven
  Tier2Earned
  MinorsManaged
  SessionBurned
\* bounded clock and tables: every behaviour comes to rest
CHECK_DEADLOCK FALSE
