SPECIFICATION Spec
CONSTANTS
  MAX_SLOT_ADVANCE = 6
  POLL_INTERVAL = 1
  RPC_TIMEOUT = 1
  NODES_REFRESH = 4
  WINDOW_SLOTS = 24
  WARM_SLOTS = 5
  FANOUT = 2
  SLOT = 4
  TURN = 2
  EPOCH = 16
  LAG = 1
  ROOTED = 3
  VALIDATORS = 3
  UNPUBLISHED = {2}
  STRAYS = {20}
  FIRST_SLOTS = {5}
  LAST_SLOT = 28
INVARIANTS
  ClampExists
  OneFailureSurvived
  AimWarm
