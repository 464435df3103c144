SPECIFICATION Spec
CONSTANTS
  Slots <- LateSlots
  Ticks = {0, 1}
  SETTLE = 2
  SWEEP_INTERVAL = 1
  MAX_SLOTS = 1
  MAX_PAIRS = 1
  LOSSES = 0
INVARIANTS
  ExactAlways
