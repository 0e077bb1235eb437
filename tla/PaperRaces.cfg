SPECIFICATION LiveSpec
CONSTANTS
  r1 = r1
  r2 = r2
  Runs = {r1, r2}
  Concurrent = TRUE
  LastSession = 3
  Month <- TwoMonths
  FirstSession = 1
  OpensParked = FALSE
  Ids = {}
  Terms = {}
  Kind <- Kinds
  Ratio <- FiveForTwo
  ExDate <- ExDates
  MaxReds = 0
  MaxTrips = 0
  MaxSlips = 1
  MaxFails = 1
PROPERTIES
  DecidedStands
  BookGoesOn
