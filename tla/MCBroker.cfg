CONSTANTS
  Keys = {1, 2}
  Intents <- MCIntents
  MaxQuantity = 2
  FillIds = {f1, f2, f3}
  CancelIds = {c1, c2}
  Days = {1, 2}
  Times = {0, 1}

SPECIFICATION Spec

INVARIANTS
  TypeOK
  IndexesAgree
  DayOrdersWatched
  QuantityConserved
  HistoryChained
  FillsAccounted
  CancelKeysTrue
  ArchiveComplete

PROPERTY Lifecycle

