CONSTANTS
  Keys = {1, 2}
  Intents <- MCIntents
  Prices = {1, 2}
  Snapshots <- MCSnapshots
  Sizes = {1, 2}
  Latency = 0
  MaxEvents = 3

SPECIFICATION Spec

INVARIANTS
  VisibleVolumeOnce
  QueueMatchesOrder


PROPERTIES
  QueuesOnlyAdvance
  JoinsBehind
