SPECIFICATION Spec
CONSTANTS
  COMPACT_FLOOR = 1
  ENTRY_COUNT = 2
  MIN_ENTRY_BYTES = 1
  MAX_BATCH_BYTES = 6
  MIN_ARENA = 4
  SWEEP_INTERVAL = 2
  Wires <- Differing
  Ticks = {0}
  MAX_INDEX = 9
  RETENTION = 2
  MAX_BUFFERED_SLOTS = 2
  MAX_SLOT_BYTES = 100
  MAX_SLOT_SHREDS = 10
  MAX_BUFFERED_BYTES = 1000
  PER_SHRED_OVERHEAD = 1
  PER_BATCH_OVERHEAD = 2
  RESENDS = 2
CHECK_DEADLOCK FALSE
CONSTRAINT FewResends
INVARIANTS
  ReadsInRange
