SPECIFICATION Spec
SYMMETRY Symmetry
CONSTANTS
  Workers = {w1, w2}
  Phones = {p1}
  Purposes = {signup, recovery}
  NONE = NONE
  Cooldown = 2
  CodeTTL = 1
  MaxVerify = 1
  HourlyCap = 2
  DailyCap = 3
  Hour = 2
  Day = 6
  MaxTime = 3
  MaxSends = 4
  MaxGuesses = 3
  Crashes = TRUE
INVARIANTS
  TypeOK
  CooldownOnlyByOverlap
  SendOverrunBounded
  GuessOverrunBounded
  AcceptOverrunBounded
  ChargedOnlyIfDelivered
PROPERTIES
  RetiredForGood
\* bounded clock, rows and guesses: every behaviour comes to rest
CHECK_DEADLOCK FALSE
