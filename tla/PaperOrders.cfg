SPECIFICATION Spec
CONSTANTS
  r1 = r1
  r2 = r2
  Runs = {r1}
  Concurrent = FALSE
  LastSession = 5
  Month <- ThreeMonths
  FirstSession = 2
  OpensParked = TRUE
  Ids = {}
  Terms = {}
  Kind <- Kinds
  Ratio <- FiveForTwo
  ExDate <- ExDates
  MaxReds = 2
  MaxTrips = 1
  MaxSlips = 1
  MaxFails = 1
INVARIANTS
  TypeOK
  FilledOnTarget
  NothingStale
  RebalancedFirst
  DecisionsChain
  SkipJournaledOnce
  NoBreakOfItsOwn
PROPERTIES
  BreakHalts
