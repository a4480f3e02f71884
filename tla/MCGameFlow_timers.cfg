SPECIFICATION FairSpec
CONSTANTS
  N = 2
  Seats = 2
  MaxBid = 2
  AuctionsEnabled = TRUE
  Traders = {1, 2}
  Quitters = {1}
  Droppers = {1, 2}
INVARIANTS
  SoldAwaitsPayment
PROPERTIES
  AuctionCloses
  RolledTokensRest
CHECK_DEADLOCK FALSE
