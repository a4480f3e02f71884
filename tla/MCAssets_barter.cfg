SPECIFICATION Spec
CONSTANTS
  Players = {p1, p2, p3}
  Groups = {{a}}
  Buildable = {}
  Cards = {c, d}
  Ownable = {c}
  TradeIds = {t1}
  Money = Money
  Nobody = Nobody
  NoTrade = NoTrade
  HouseStock = 0
  HotelStock = 0
  UnlimitedHouses = TRUE
  AlwaysShuffle = TRUE
  AllowSales = TRUE
  MaxDebts = 1
  MaxComps = 2
SYMMETRY Symmetry
INVARIANTS
  OwnersPlay
  ComponentsFromOwners
  CardsInOnePlace
PROPERTIES
  TakenByConsent
  AcceptedTermsOnlyShrink
CHECK_DEADLOCK FALSE
