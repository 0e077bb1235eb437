SPECIFICATION LSpec
CONSTANTS
  a = a
  Isins = {a}
  Ordered = {a}
  LastSession = 4
  MaxOrders = 3
  Quantities = {1, 2}
  OpeningCash = 12
  Lag <- MCLagTwo
  Bars <- MCBars
  Reference <- MCReference
  TradedValue <- MCTradedValue
  Impact = 2
  ChargeRate = 10
  DpCharge = 1
  ExitOnly = {}
  Ratios <- MCRatios
  Credits = {2}
  MaxCredits = 1
  Reruns = FALSE
INVARIANT LedgerReconciles
CHECK_DEADLOCK FALSE
