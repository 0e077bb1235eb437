SPECIFICATION LiveSpec
CONSTANTS
  r1 = r1
  r2 = r2
  Runs = {r1}
  Concurrent = FALSE
  LastSession = 5
  Month <- OneMonth
  FirstSession = 1
  OpensParked = FALSE
  Ids = {"dividend", "split"}
  Terms = {1, 2}
  Kind <- Kinds
  Ratio <- FiveForTwo
  ExDate <- ExDates
  MaxReds = 0
  MaxTrips = 0
  MaxSlips = 0
  MaxFails = 1
INVARIANTS
  CreditedAsEntitled
  CorrectionsEscalate
  SeenOnce
  NothingDecidedOverTheUnresolved
PROPERTIES BookGoesOn
