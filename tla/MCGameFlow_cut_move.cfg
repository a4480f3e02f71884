SPECIFICATION Spec
CONSTANTS
  N = 3
  Seats = 3
  MaxBid = 1
  AuctionsEnabled = TRUE
  Traders = {}
  Quitters = {2, 3}
  Droppers = {}
INVARIANTS
  MovesAreCompleted
CHECK_DEADLOCK FALSE
