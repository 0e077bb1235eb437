SPECIFICATION Spec
CONSTANTS
  r1 = r1
  r2 = r2
  Runs = {r1}
  Concurrent = FALSE
  LastSession = 5
  Month <- TwoMonths
  FirstSession = 1
  OpensParked = FALSE
  Ids = {"swap"}
  Terms = {1}
  Kind <- Kinds
  Ratio <- FiveForTwo
  ExDate <- ExDates
  MaxReds = 0
  MaxTrips = 0
  MaxSlips = 0
  MaxFails = 0
INVARIANTS
  BookedIsApplied
