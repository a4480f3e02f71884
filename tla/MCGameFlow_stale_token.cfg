SPECIFICATION Spec
CONSTANTS
  N = 3
  Seats = 3
  MaxBid = 1
  AuctionsEnabled = TRUE
  Traders = {}
  Quitters = {1}
  Droppers = {2}
INVARIANTS
  TokensFollowTurn
CHECK_DEADLOCK FALSE
