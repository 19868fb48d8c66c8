CONSTANTS
  Streams = {"fills", "fees"}
  BatchSize = 2
  QueueBatches = 1
  MaxFacts = 4

SPECIFICATION Spec

INVARIANT FailedHasNoManifest
