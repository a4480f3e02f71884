SPECIFICATION Spec
CONSTANTS
  N = 3
  Seats = 3
  MaxBid = 1
  AuctionsEnabled = TRUE
  Traders = {2, 3}
  Quitters = {}
  Droppers = {}
INVARIANTS
  BankruptTurnEnds
CHECK_DEADLOCK FALSE
