SPECIFICATION FairSpec
CONSTANTS
  N = 2
  Seats = 2
  MaxBid = 1
  AuctionsEnabled = TRUE
  Traders = {}
  Quitters = {}
  Droppers = {}
PROPERTIES
  TokensRest
CHECK_DEADLOCK FALSE
