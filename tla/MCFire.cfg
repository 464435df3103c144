SPECIFICATION Spec
CONSTANTS
  MAX_TRIGGER_AGE = 1
  COOLDOWN = 2
  MAX_PENDING = 2
  PENDING_TTL = 4
  VALIDITY = 2
  SLOT = 2
  LAG = 1
  LAST_SLOT = 2
  TRIGGERS = 4
INVARIANTS
  TypeOK
  Accounted
  FiresAccounted
  LandingMatched
  AnswersPerSlotBounded
PROPERTIES
  
  StopsOnExit
