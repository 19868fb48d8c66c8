CONSTANTS
  Keys = {1, 2}
  Intents <- MCIntents
  MaxQuantity = 3
  FillIds = {1, 2, 3, 4}
  CancelIds = {}
  Days = {1, 2}
  Times = {1, 2}
  Prices = {1, 2}
  Latency = 0
  MaxEvents = 3
  MaxBatch = 2
  MaxOffers = 2
  InitialCash = 8
  InitialPosition = 2
  HasPolicies = TRUE
  FeeRate = 1
  Precision = 2
  TPlusOne = TRUE

SPECIFICATION Spec

INVARIANT CheckedBatchCommits
