SPECIFICATION Spec
CONSTANTS
  Players = {p1, p2, p3}
  Groups = {{a}}
  Buildable = {}
  Cards = {c, d}
  Ownable = {c}
  TradeIds = {t1}
  Money = Money
  Nobody = Nobody
  NoTrade = NoTrade
  HouseStock = 0
  HotelStock = 0
  UnlimitedHouses = TRUE
  AlwaysShuffle = FALSE
  AllowSales = TRUE
  MaxDebts = 1
  MaxComps = 1
SYMMETRY Symmetry
PROPERTIES
  AnyChangeResetsAccepts
CHECK_DEADLOCK FALSE
