CONSTANTS
  Sleeves = {"alpha", "beta"}
  Currencies = {"USD", "EUR"}
  CashAssets = {"A"}
  Futures = {"F"}
  Owner <- MCOwner
  CurrencyOf <- MCCurrencyOf
  Allocation <- MCAllocation
  MarginDivisor = 2
  Times = {1, 2}
  Quantities <- MCQuantities
  Prices = {2, 4}
  Fees = {1}
  Amounts = {3}
  MaxEvents = 4

SPECIFICATION Spec

INVARIANTS
  TypeOK
  BooksReconcile
  HoldsHonoured

PROPERTIES
  OrdersStayFunded
  ProfitFromMarks
