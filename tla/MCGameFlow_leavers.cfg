SPECIFICATION Spec
CONSTANTS
  N = 3
  Seats = 3
  MaxBid = 1
  AuctionsEnabled = TRUE
  Traders = {}
  Quitters = {1, 2, 3}
  Droppers = {}
INVARIANTS
  TypeOK
  OneTurnHolder
  EndsWithOneActive
  TimedAuctionHasBidder
  SoldAwaitsPayment
  OnePhase
  DoublesWithinTurn
  JailTerm
PROPERTIES
  TurnPassesSettled
  TurnsInOrder
CHECK_DEADLOCK FALSE
