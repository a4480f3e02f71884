SPECIFICATION Spec
CONSTANTS
  N = 3
  Seats = 3
  MaxBid = 0
  AuctionsEnabled = FALSE
  Traders = {1, 2}
  Quitters = {}
  Droppers = {}
INVARIANTS
  DebtsBetweenActive
PROPERTIES
  TurnPassesSettled
CHECK_DEADLOCK FALSE
