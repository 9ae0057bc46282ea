SPECIFICATION Spec
SYMMETRY Symmetry
CONSTANTS
  Workers = {w1, w2}
  Reviews = {r}
  NONE = NONE
  BEARER = BEARER
  LoginTTL = 0
  DiscoveryTTL = 1
  SessionTTL = 0
  MaxTime = 1
  MaxLogins = 2
  MaxSessions = 1
  MaxRestarts = 1
INVARIANTS
  TypeOK
  ExchangeEarned
  LostOnlyByRace
  DoubleDecisionOnlyByApi
PROPERTIES
  SessionLivesItsHour
  EndedSessionDecidesNothing
\* bounded clock, logins and sessions: every behaviour comes to rest
CHECK_DEADLOCK FALSE
