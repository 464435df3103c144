SPECIFICATION Spec
CONSTANTS
  SLOT = 4
  SLOW = 5
  TURN = 2
  EPOCH = 18
  WINDOW_SLOTS = 16
  BACKFILL_SLOTS = 5
  POLL_INTERVAL = 1
  RPC_TIMEOUT = 1
  LAG = 1
  FIRST_SLOTS = {7, 15}
  LAST_SLOT = 25
CHECK_DEADLOCK FALSE
INVARIANTS
  OneFailureSurvived
PROPERTIES
  KeepsItsPromise
