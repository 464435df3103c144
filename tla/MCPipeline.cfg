SPECIFICATION PipelineSpec
CONSTANTS
  Words <- Encoded
  Envelopes <- Sent
  Wires <- Leaders
  SHRED_VERSION = 1
  Windows = {{}, {1}}
  Watched = {"pair", "triple", "wide"}
  Ours = {"single"}
  Ticks = {1}
  LIFETIME = 2
  RETENTION = 2
  SWEEP_INTERVAL = 1
  MAX_SHARDS = 4
  MAX_FEC_SETS = 1
  MAX_SLOTS = 1
  MAX_SLOT_ADVANCE = 5
  CAP = 1
INVARIANTS
  RebuildsWhatWasLost
  NothingWithheld
  OffsetsHonest
  NothingMissed
  OnlyItsLeader
  BytesSigned
PROPERTIES
  FailuresCounted
