SPECIFICATION Spec
CONSTANTS
  Players = {p1, p2, p3}
  Groups = {{a, b}}
  Buildable = {a, b}
  Cards = {}
  Ownable = {}
  TradeIds = {t1}
  Money = Money
  Nobody = Nobody
  NoTrade = NoTrade
  HouseStock = 8
  HotelStock = 1
  UnlimitedHouses = FALSE
  AlwaysShuffle = FALSE
  AllowSales = TRUE
  MaxDebts = 1
  MaxComps = 1
SYMMETRY Symmetry
INVARIANTS
  TypeOK
  StockConserved
  NoMortgageUnderBuildings
  BankOwnsBareEstates
CHECK_DEADLOCK FALSE
