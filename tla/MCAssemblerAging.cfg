SPECIFICATION Spec
CONSTANTS
  COMPACT_FLOOR = 1
  ENTRY_COUNT = 2
  MIN_ENTRY_BYTES = 1
  MAX_BATCH_BYTES = 6
  MIN_ARENA = 4
  SWEEP_INTERVAL = 3
  Wires <- ThreeSlots
  Ticks = {1, 3}
  MAX_INDEX = 9
  RETENTION = 4
  MAX_BUFFERED_SLOTS = 2
  MAX_SLOT_BYTES = 6
  MAX_SLOT_SHREDS = 2
  MAX_BUFFERED_BYTES = 50
  PER_SHRED_OVERHEAD = 3
  PER_BATCH_OVERHEAD = 6
  RESENDS = 1
CONSTRAINT FewResends
INVARIANTS
  BytesExact
  OvershootBounded
PROPERTIES
  QuietestGoFirst
  CompleteMeansAll
