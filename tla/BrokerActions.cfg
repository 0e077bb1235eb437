SPECIFICATION Spec
CONSTANTS
  a = a
  b = b
  Isins = {a, b}
  Ordered = {a}
  LastSession = 4
  MaxOrders = 3
  Quantities = {1, 2}
  OpeningCash = 12
  Lag <- MCLagTwoLots
  Bars <- MCBars
  Reference <- MCReference
  TradedValue <- MCTradedValue
  Impact = 2
  ChargeRate = 10
  DpCharge = 1
  ExitOnly <- MCExitOnly
  Ratios <- MCRatios
  Credits = {2}
  MaxCredits = 1
  Reruns = FALSE
INVARIANT TypeOK
PROPERTIES ResolvedIsFinal SingleExitSurvivesRescale ImplementsBook
CHECK_DEADLOCK FALSE
