SPECIFICATION LSpec
CONSTANTS
  a = a
  Isins = {a}
  Ordered = {a}
  LastSession = 5
  MaxOrders = 3
  Quantities = {1, 2}
  OpeningCash = 12
  Lag <- MCLag
  Bars <- MCBars
  Reference <- MCReference
  TradedValue <- MCTradedValue
  Impact = 2
  ChargeRate = 10
  DpCharge = 1
  ExitOnly = {}
  Ratios <- MCRatios
  Credits = {2}
  MaxCredits = 1
  Reruns = FALSE
INVARIANTS SpendableIsSettledByNextFill InterestOnSettledCash
PROPERTY FillLinesReconcile
CHECK_DEADLOCK FALSE
