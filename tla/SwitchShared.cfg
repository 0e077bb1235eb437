SPECIFICATION Spec
CONSTANTS
  p = p
  q = q
  c1 = c1
  c2 = c2
  Processes = {p, q}
  Causes = {c1, c2}
  None = None
  MaxWrites = 4
  MaxOrders = 1
INVARIANT TypeOK
PROPERTIES SeenHaltHolds HaltHoldsAlone FirstCauseKept ResetTracesTheTrip
