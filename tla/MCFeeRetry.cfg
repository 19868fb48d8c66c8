SPECIFICATION Spec
CONSTANTS
  Instruments = {"STK", "TGT", "FUT", "OPT"}
  Kind <- MCKind
  Currency <- MCCurrency
  Base = "B"
  Step = 2
  InitialCash <- MCCash
  Desks = {"none", "hk", "us"}
  Lot = 2
  SettlementDays = {1, 2, 3, 4, 5}
  MinFee = 1
  FeePer = 8
  StampPer = 10
  Events <- MCEvents
  MarketFacts <- MCMarketFacts
  MarkEvents <- MCMarkEvents
  Rates <- MCRates
  Transfers <- MCTransfers
  Openings <- MCOpenings
  Actions <- MCActions
  Lifecycles <- MCLifecycles
  Orders <- MCOrders
  Times = {1, 2, 3}
  MaxBefore = 3
  MaxReplayed = 4
  Agendas <- MCAgendas
INVARIANT RepeatsAccepted
CHECK_DEADLOCK FALSE
