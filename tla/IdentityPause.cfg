SPECIFICATION Spec
CONSTANTS
  Workers = {w1}
  Addresses = {x}
  Phones = {p}
  Guardians = {NONE, g}
  NONE = NONE
  Mode = "auto"
  Stages = {"awaiting_otp", "awaiting_identity_choice"}
  SessionTTL = 1
  CodeTTL = 1
  MaxVerify = 1
  HourlyCap = 2
  DailyCap = 2
  Cooldown = 0
  Hour = 2
  Day = 2
  MaxTime = 1
  MaxSessions = 2
  MaxReviews = 1
  MaxDeaths = 0
INVARIANTS
  IdentityNeverBlocks
CHECK_DEADLOCK FALSE
