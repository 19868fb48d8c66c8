CONSTANTS
  Keys = {1}
  Intents <- MCThirds
  MaxQuantity = 3
  FillIds = {1, 2, 3}
  CancelIds = {}
  Days = {1, 2}
  Times = {1, 2}
  Prices = {1, 2}
  Latency = 0
  MaxEvents = 3
  MaxBatch = 3
  MaxOffers = 1
  InitialCash = 8
  InitialPosition = 3
  HasPolicies = FALSE
  FeeRate = 1
  Precision = 10
  TPlusOne = TRUE

SPECIFICATION Spec

INVARIANT ReleasedExactly
