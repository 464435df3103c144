SPECIFICATION VerifySpec
CONSTANTS
  SLOT = 2
  SLOW = 3
  TURN = 2
  EPOCH = 7
  WINDOW_SLOTS = 6
  BACKFILL_SLOTS = 2
  RPC_TIMEOUT = 1
  LAG = 1
  FIRST_SLOTS = {2, 5}
  LAST_SLOT = 15
  SWEEP_INTERVAL = 1
  LATE = 1
  FAR = 9
  RETENTION = 2
  MAX_VERIFIED_ROOTS = 1
  DELAY = 1
INVARIANTS
  HonestNeverForged
  SignedIsGenuine
