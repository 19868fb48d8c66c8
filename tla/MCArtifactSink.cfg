CONSTANTS
  Streams = {"fills", "fees"}
  BatchSize = 2
  QueueBatches = 1
  MaxFacts = 4

SPECIFICATION FairSpec

INVARIANTS
  TypeOK
  NothingLost
  ManifestIsWhole
  MemoryBounded
  NoWriterLeft

PROPERTIES
  RunRecorded
  CallsReturn
