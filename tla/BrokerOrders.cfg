SPECIFICATION Spec
CONSTANTS
  a = a
  b = b
  Isins = {a, b}
  Ordered = {a, b}
  LastSession = 3
  MaxOrders = 3
  Quantities = {1, 2}
  OpeningCash = 12
  Lag <- MCLag
  Bars <- MCBars
  Reference <- MCReference
  TradedValue <- MCTradedValue
  Impact = 2
  ChargeRate = 10
  DpCharge = 1
  ExitOnly <- MCExitOnly
  Ratios <- MCRatios
  Credits = {2}
  MaxCredits = 0
  Reruns = TRUE
INVARIANTS SettlementPrompt OneOrderPerScrip SlicesPricedAsOne
PROPERTIES NeverSettledEarly ImplementsBook
CHECK_DEADLOCK FALSE
