------------------------------- MODULE Assets -------------------------------
(***************************************************************************)
(* What the players of a running game own: estates, houses and hotels,     *)
(* mortgages and cards, the trades in which they change hands, and the     *)
(* bankruptcies that hand over all of it (Game, Player, Estate, Trade).    *)
(*                                                                         *)
(* Whose turn it is does not matter here: whatever a command, a landing or *)
(* a card can do to the assets may happen at any time.  Money is           *)
(* abstracted: a payment is made, becomes a debt or ruins the payer.       *)
(* A trade and a card that charges everybody take several steps, as a      *)
(* bankruptcy within the loop changes what the loop still works on.        *)
(***************************************************************************)
EXTENDS Naturals, Sequences, FiniteSetsExt

CONSTANTS Players,         \* the players at the start
          Groups,          \* the estate groups, as sets of estates
          Buildable,       \* the estates with a house price
          Cards,           \* the cards of one deck
          Ownable,         \* the cards a player keeps (canbeowned)
          TradeIds,
          Money,           \* the object of a money component
          Nobody,          \* a null Player pointer: the bank
          NoTrade,         \* a null Trade pointer
          HouseStock, HotelStock,
          UnlimitedHouses, AlwaysShuffle, AllowSales,  \* configuration options
          MaxDebts,        \* bound: debts at a time
          MaxComps         \* bound: components of one trade

Estates == UNION Groups

ASSUME AssetsAssumption ==
  /\ \A g, h \in Groups : g = h \/ g \intersect h = {}
  /\ IsFiniteSet(Estates) /\ Buildable \subseteq Estates
  /\ IsFiniteSet(Cards) /\ Ownable \subseteq Cards
  /\ Money \notin Estates \union Cards
  /\ Estates \intersect Cards = {}
  /\ Nobody \notin Players
  /\ NoTrade \notin TradeIds
  /\ HouseStock \in Nat /\ HotelStock \in Nat
  /\ MaxDebts \in Nat /\ MaxComps \in Nat

Owners  == Players \union {Nobody}
Hotel   == 5
Objects == Estates \union Ownable \union {Money}

\* the orders in which the cards of S may lie
Orders(S) == {s \in [1..Cardinality(S) -> S] :
                /\ \A i, j \in DOMAIN s : s[i] = s[j] => i = j
                /\ \A c \in S : \E i \in DOMAIN s : s[i] = c}

Component(x, from, to) == [object |-> x, from |-> from, to |-> to]
Closed == [players |-> {}, comps |-> {}, accepted |-> {}]

VARIABLES active,          \* players who are neither bankrupt nor gone
          owner,           \* of each estate
          houses,          \* on each estate, 5 for a hotel
          mortgaged,
          stock,           \* m_houses and m_hotels
          holder,          \* Card::m_owner
          deck,            \* the m_cards of the card group
          debts,           \* m_debts, numbered in their order
          trades,          \* m_trades
          completing,      \* the trade completeTrade is working on
          charges,         \* the players a card has still to charge
          dangling         \* history: completeTrade goes on with a deleted trade

estateVars == <<owner, houses, mortgaged, stock>>
cardVars   == <<holder, deck>>
loopVars   == <<completing, charges, dangling>>
vars == <<active, estateVars, cardVars, debts, trades, loopVars>>

TradeRecord == [players  : SUBSET Players,
                comps    : SUBSET [object : Objects, from : Players, to : Players],
                accepted : SUBSET Players]

TypeOK ==
  /\ active \subseteq Players
  /\ owner \in [Estates -> Owners]
  /\ houses \in [Estates -> 0..Hotel]
  /\ mortgaged \subseteq Estates
  /\ stock \in [houses : Nat, hotels : Nat]
  /\ holder \in [Ownable -> Owners]
  /\ deck \in Seq(Cards)
  /\ debts \subseteq [from : Players, to : Owners, at : 1..MaxDebts]
  /\ trades \in [TradeIds -> TradeRecord]
  /\ completing \in TradeIds \union {NoTrade}
  /\ charges \subseteq [from : Players, to : Players, cash : BOOLEAN]
  /\ dangling \in BOOLEAN

Init ==
  /\ active = Players
  /\ owner = [e \in Estates |-> Nobody]
  /\ houses = [e \in Estates |-> 0]
  /\ mortgaged = {}
  /\ stock = [houses |-> HouseStock, hotels |-> HotelStock]
  /\ holder = [c \in Ownable |-> Nobody]
  /\ deck \in Orders(Cards)
  /\ debts = {}
  /\ trades = [t \in TradeIds |-> Closed]
  /\ completing = NoTrade
  /\ charges = {}
  /\ dangling = FALSE

Running == \E p, q \in active : p # q
Idle    == completing = NoTrade /\ charges = {} /\ ~dangling

\* the gate of processInput for .T, .h, .em and .es, between two commands
MayCommand(p) == Idle /\ Running /\ p \in active

\* a party of the trade may give a command for it
MayTrade(t) == Idle /\ Running /\ trades[t].players \intersect active # {}

-----------------------------------------------------------------------------
(* Estates *)

Group(e)            == UNION {g \in Groups : e \in g}
GroupHasBuildings(e) == \E f \in Group(e) : houses[f] > 0
GroupHasMortgages(e) == Group(e) \intersect mortgaged # {}
IsMonopoly(e)       == \A f \in Group(e) : owner[f] = owner[e]
MaxHouses(e)        == Min({Hotel} \union {houses[f] + 1 : f \in Group(e)})
MinHouses(e)        == Max({1} \union {houses[f] : f \in Group(e)}) - 1

\* Mutant of Without: the components of other trades stay
WithoutNothing(ts, x) == ts

\* the components of an object leave every trade; the accept flags stay
Without(ts, x) ==
  [t \in TradeIds |-> [ts[t] EXCEPT !.comps = {c \in @ : c.object # x}]]

DebtsOf(ds, p) == {d \in ds : d.from = p}

\* solveDebts pays the debts of p in their order while there is money
Settled(ds, p, paid) == {d \in ds : d.from = p => d.at > paid}
SolveDebts(p) == \E paid \in {0} \union {d.at : d \in DebtsOf(debts, p)} :
                   debts' = Settled(debts, p, paid)

\* .eb, or an auction won and paid
AcquireEstate(p, e) ==
  /\ Idle /\ Running /\ p \in active
  /\ owner[e] = Nobody
  /\ owner' = [owner EXCEPT ![e] = p]
  /\ UNCHANGED <<active, houses, mortgaged, stock, cardVars, debts, trades, loopVars>>

\* Mutant of SellEstate: a mortgaged estate can be sold
SellEstateMortgaged(p, e) ==
  /\ MayCommand(p)
  /\ AllowSales
  /\ owner[e] = p
  /\ ~GroupHasBuildings(e)
  /\ owner' = [owner EXCEPT ![e] = Nobody]
  /\ trades' = Without(trades, e)
  /\ SolveDebts(p)
  /\ UNCHANGED <<active, houses, mortgaged, stock, cardVars, loopVars>>

\* .es
SellEstate(p, e) ==
  /\ MayCommand(p)
  /\ AllowSales
  /\ owner[e] = p
  /\ e \notin mortgaged /\ ~GroupHasBuildings(e)
  /\ owner' = [owner EXCEPT ![e] = Nobody]
  /\ trades' = Without(trades, e)
  /\ SolveDebts(p)
  /\ UNCHANGED <<active, houses, mortgaged, stock, cardVars, loopVars>>

\* Mutant of Mortgage: only the estate itself is looked at
MortgageBesideHouses(p, e) ==
  /\ MayCommand(p)
  /\ owner[e] = p
  /\ e \notin mortgaged /\ houses[e] = 0
  /\ mortgaged' = mortgaged \union {e}
  /\ SolveDebts(p)
  /\ UNCHANGED <<active, owner, houses, stock, cardVars, trades, loopVars>>

\* .em of an estate that is not mortgaged
Mortgage(p, e) ==
  /\ MayCommand(p)
  /\ owner[e] = p
  /\ e \notin mortgaged /\ ~GroupHasBuildings(e)
  /\ mortgaged' = mortgaged \union {e}
  /\ SolveDebts(p)
  /\ UNCHANGED <<active, owner, houses, stock, cardVars, trades, loopVars>>

\* .em of one that is
Unmortgage(p, e) ==
  /\ MayCommand(p)
  /\ owner[e] = p
  /\ e \in mortgaged
  /\ mortgaged' = mortgaged \ {e}
  /\ UNCHANGED <<active, owner, houses, stock, cardVars, debts, trades, loopVars>>

\* the bank's houses and hotels after a house more or less on an estate
StockTaken(n) == IF UnlimitedHouses THEN stock
                 ELSE IF n + 1 = Hotel
                      THEN [houses |-> stock.houses + 4, hotels |-> stock.hotels - 1]
                      ELSE [stock EXCEPT !.houses = @ - 1]

\* Mutant of StockReturned: a hotel that is sold takes no houses
StockReturnedWhole(n) == IF UnlimitedHouses THEN stock
                         ELSE IF n = Hotel
                              THEN [stock EXCEPT !.hotels = @ + 1]
                              ELSE [stock EXCEPT !.houses = @ + 1]

StockReturned(n) == IF UnlimitedHouses THEN stock
                    ELSE IF n = Hotel
                         THEN [houses |-> stock.houses - 4, hotels |-> stock.hotels + 1]
                         ELSE [stock EXCEPT !.houses = @ + 1]

\* Mutant of BuyHouse: the bank's stock is not looked at
BuyHouseOutOfStock(p, e) ==
  LET n == houses[e]
  IN  /\ MayCommand(p)
      /\ owner[e] = p /\ e \in Buildable
      /\ IsMonopoly(e) /\ ~GroupHasMortgages(e)
      /\ n # Hotel /\ n < MaxHouses(e)
      /\ houses' = [houses EXCEPT ![e] = n + 1]
      /\ stock' = StockTaken(n)
      /\ UNCHANGED <<active, owner, mortgaged, cardVars, debts, trades, loopVars>>

\* .hb
BuyHouse(p, e) ==
  LET n == houses[e]
  IN  /\ MayCommand(p)
      /\ owner[e] = p /\ e \in Buildable
      /\ IsMonopoly(e) /\ ~GroupHasMortgages(e)
      /\ n # Hotel /\ n < MaxHouses(e)
      /\ UnlimitedHouses \/ (IF n < 4 THEN stock.houses # 0 ELSE stock.hotels # 0)
      /\ houses' = [houses EXCEPT ![e] = n + 1]
      /\ stock' = StockTaken(n)
      /\ UNCHANGED <<active, owner, mortgaged, cardVars, debts, trades, loopVars>>

\* .hs
SellHouse(p, e) ==
  LET n == houses[e]
  IN  /\ MayCommand(p)
      /\ owner[e] = p
      /\ n # 0 /\ n > MinHouses(e)
      /\ UnlimitedHouses \/ n # Hotel \/ stock.houses >= 4
      /\ houses' = [houses EXCEPT ![e] = n - 1]
      /\ stock' = StockReturned(n)
      /\ SolveDebts(p)
      /\ UNCHANGED <<active, owner, mortgaged, cardVars, trades, loopVars>>

-----------------------------------------------------------------------------
(* Bankruptcy *)

\* the creditor of the first debt in m_debts gets everything, else the bank
Heirs(ds, p) ==
  IF DebtsOf(ds, p) = {} THEN {Nobody}
  ELSE {d.to : d \in {e \in DebtsOf(ds, p) : \A f \in DebtsOf(ds, p) : e.at <= f.at}}

CardsOf(p) == {c \in Ownable : holder[c] = p}

EstatesOf(p) == {e \in Estates : owner[e] = p}

\* the houses and hotels of p, broken up
Sum(f, S) == MapThenSumSet(LAMBDA e : f[e], S)
StockFreed(p) ==
  LET hotels == {e \in EstatesOf(p) : houses[e] = Hotel}
  IN  IF UnlimitedHouses THEN stock
      ELSE [houses |-> stock.houses + Sum(houses, EstatesOf(p) \ hotels),
            hotels |-> stock.hotels + Cardinality(hotels)]

\* Mutant of Rejected: his trades stay open
RejectedNone(p) ==
  [t \in TradeIds |->
     [trades[t] EXCEPT !.comps = {c \in @ : c.object \notin EstatesOf(p) \union CardsOf(p)}]]

\* every trade of p is rejected, and what he loses leaves the others
Rejected(p) ==
  [t \in TradeIds |->
     IF p \in trades[t].players THEN Closed
     ELSE [trades[t] EXCEPT !.comps = {c \in @ : c.object \notin EstatesOf(p) \union CardsOf(p)}]]

\* the bank lifts the mortgages
Lifted(p, heir) == IF heir = Nobody THEN mortgaged \ EstatesOf(p) ELSE mortgaged

\* the debts of p and the debts to p are gone
Cleared(ds, p) == {d \in ds : p \notin {d.from, d.to}}

\* bankruptPlayer when m_debts is ds: all p owns goes to the heir
Bankrupt(p, ds) == \E heir \in Heirs(ds, p) :
  /\ active' = active \ {p}
  /\ trades' = Rejected(p)
  /\ owner' = [e \in Estates |-> IF owner[e] = p THEN heir ELSE owner[e]]
  /\ houses' = [e \in Estates |-> IF owner[e] = p THEN 0 ELSE houses[e]]
  /\ mortgaged' = Lifted(p, heir)
  /\ stock' = StockFreed(p)
  /\ holder' = [c \in Ownable |-> IF holder[c] = p THEN heir ELSE holder[c]]
  /\ IF heir = Nobody THEN \E s \in Orders(CardsOf(p)) : deck' = deck \o s
                      ELSE UNCHANGED deck
  /\ debts' = Cleared(ds, p)

\* .D, .gx, or a player who stayed away too long
Quit(p) ==
  /\ Idle /\ Running /\ p \in active
  /\ Bankrupt(p, debts)
  /\ UNCHANGED loopVars

\* newDebt: broke means the amount exceeds all the assets of the debtor
NextNumber == 1 + Max({0} \union {d.at : d \in debts})
NewDebt(from, to, broke) ==
  LET ds == debts \union {[from |-> from, to |-> to, at |-> NextNumber]}
  IN  IF ~({from, to} \subseteq active \union {Nobody})
      THEN UNCHANGED <<active, estateVars, cardVars, debts, trades>>
      ELSE /\ NextNumber <= MaxDebts
           /\ IF broke THEN Bankrupt(from, ds)
              ELSE debts' = ds /\ UNCHANGED <<active, estateVars, cardVars, trades>>

\* rent, a tax, a fine or an auction that p cannot pay
Owe(p, to, broke) ==
  /\ Idle /\ Running /\ p \in active /\ to # p
  /\ NewDebt(p, to, broke)
  /\ UNCHANGED loopVars

\* .p, and debts paid from a sale
Settle(p) ==
  /\ MayCommand(p)
  /\ DebtsOf(debts, p) # {}
  /\ SolveDebts(p)
  /\ UNCHANGED <<active, estateVars, cardVars, trades, loopVars>>

-----------------------------------------------------------------------------
(* Cards *)

\* shuffleCards before a card is taken, if the game always shuffles
Shuffled == IF AlwaysShuffle THEN Orders({deck[i] : i \in DOMAIN deck}) ELSE {deck}

\* nextCard: the first card goes to the back
Rotated(s) == Append(Tail(s), Head(s))

\* Mutant of Popped: popCard takes the card in front
PoppedFirst(s) == Tail(s)

\* popCard takes the card at the back
Popped(s) == SubSeq(s, 1, Len(s) - 1)

\* giveCard: a card that can be owned is kept, and any card may charge the
\* others for p, or p for each of the others
DrawCard(p) ==
  LET others == active \ {p}
  IN  /\ Idle /\ Running /\ p \in active
      /\ deck # <<>>
      /\ \E s \in Shuffled :
           IF Head(s) \in Ownable
           THEN deck' = Popped(Rotated(s)) /\ holder' = [holder EXCEPT ![Head(s)] = p]
           ELSE deck' = Rotated(s) /\ UNCHANGED holder
      /\ charges' \in {{},
                       {[from |-> q, to |-> p, cash |-> TRUE] : q \in others},
                       {[from |-> p, to |-> q, cash |-> FALSE] : q \in others}}
      /\ UNCHANGED <<active, estateVars, debts, trades, completing, dangling>>

\* one round of the loop over the players: paid in cash, owed, or ruin
Charge(c) ==
  /\ c \in charges
  /\ charges' = charges \ {c}
  /\ \/ c.cash /\ UNCHANGED <<active, estateVars, cardVars, debts, trades>>
     \/ \E broke \in BOOLEAN : NewDebt(c.from, c.to, broke)
  /\ UNCHANGED <<completing, dangling>>

\* .jc: transferCard to the back of the deck
UseCard(p, c) ==
  /\ Idle /\ Running /\ p \in active
  /\ holder[c] = p
  /\ holder' = [holder EXCEPT ![c] = Nobody]
  /\ deck' = Append(deck, c)
  /\ trades' = Without(trades, c)
  /\ UNCHANGED <<active, estateVars, debts, loopVars>>

-----------------------------------------------------------------------------
(* Trades *)

OwnerOf(x) == IF x \in Estates THEN owner[x] ELSE holder[x]

\* .Tn
NewTrade(p, q, t) ==
  /\ MayCommand(p)
  /\ q \in active \ {p}
  /\ trades[t] = Closed
  /\ trades' = [trades EXCEPT ![t].players = {p, q}]
  /\ UNCHANGED <<active, estateVars, cardVars, debts, loopVars>>

\* the component of an object, or of the money from one player to another
Existing(tr, x, from, to) ==
  {c \in tr.comps : c.object = x /\ (x = Money => c.from = from /\ c.to = to)}

\* Mutant of ResetAccepts: the flags stay
ResetAcceptsNot(tr) == tr

ResetAccepts(tr) == [tr EXCEPT !.accepted = {}]

\* Mutant of Parties: the owner of the object is not asked
PartiesButOwner(tr, from, to) == tr.players \union {to}

\* both sides of a component take part in the trade
Parties(tr, from, to) == tr.players \union {from, to}

\* Trade::updateObject: a component is dropped, retargeted or added, and
\* everybody has to accept again
UpdateObject(tr, x, from, to) ==
  LET old == Existing(tr, x, from, to)
      new == IF old = {} THEN {Component(x, from, to)}
             ELSE {[c EXCEPT !.to = to] : c \in old}
  IN  IF to \notin {from, Nobody}
      THEN ResetAccepts([tr EXCEPT !.players = Parties(tr, from, to),
                                   !.comps = (@ \ old) \union new])
      ELSE IF old = {} THEN tr
      ELSE ResetAccepts([tr EXCEPT !.comps = @ \ old])

\* .Te and .Tc; an unknown player as the target withdraws the object
SetObject(t, x, to) ==
  /\ MayTrade(t)
  /\ x \in Estates => ~GroupHasBuildings(x)
  /\ OwnerOf(x) # Nobody
  /\ to \in active \union {Nobody}
  /\ trades' = [trades EXCEPT ![t] = UpdateObject(trades[t], x, OwnerOf(x), to)]
  /\ Cardinality(trades'[t].comps) <= MaxComps
  /\ UNCHANGED <<active, estateVars, cardVars, debts, loopVars>>

\* .Tm; an amount of 0 withdraws the money that is there
SetMoney(t, from, to, zero) ==
  LET old  == Existing(trades[t], Money, from, to)
      less == [trades[t] EXCEPT !.comps = @ \ old]
  IN  /\ MayTrade(t)
      /\ {from, to} \subseteq active
      /\ trades' = [trades EXCEPT ![t] =
           IF zero /\ old # {} THEN ResetAccepts(less)
           ELSE UpdateObject(trades[t], Money, from, to)]
      /\ Cardinality(trades'[t].comps) <= MaxComps
      /\ UNCHANGED <<active, estateVars, cardVars, debts, loopVars>>

\* .Ta with the current revision; the last one to accept starts completeTrade
AcceptTrade(p, t) ==
  LET accepted == trades[t].accepted \union {p}
  IN  /\ MayCommand(p)
      /\ trades' = [trades EXCEPT ![t].accepted = accepted]
      /\ completing' = IF trades[t].players \subseteq accepted THEN t ELSE NoTrade
      /\ UNCHANGED <<active, estateVars, cardVars, debts, charges, dangling>>

\* .Tr
RejectTrade(t) ==
  /\ MayTrade(t)
  /\ trades' = [trades EXCEPT ![t] = Closed]
  /\ UNCHANGED <<active, estateVars, cardVars, debts, loopVars>>

\* completeTrade hands over an estate or a card, and no trade names it any more
CompleteObject(c) ==
  /\ completing # NoTrade
  /\ c \in trades[completing].comps
  /\ IF c.object \in Estates
     THEN owner' = [owner EXCEPT ![c.object] = c.to] /\ UNCHANGED cardVars
     ELSE holder' = [holder EXCEPT ![c.object] = c.to] /\ UNCHANGED <<owner, deck>>
  /\ trades' = Without(trades, c.object)
  /\ UNCHANGED <<active, houses, mortgaged, stock, debts, loopVars>>

\* completeTrade pays money, or makes it a debt; if that ruins the payer, his
\* trades are deleted, this one included
CompleteMoney(c) ==
  LET paid == [trades EXCEPT ![completing].comps = @ \ {c}]
  IN  /\ completing # NoTrade
      /\ c \in trades[completing].comps /\ c.object = Money
      /\ \/ trades' = paid /\ UNCHANGED <<active, estateVars, cardVars, debts, completing, dangling>>
         \/ /\ NextNumber <= MaxDebts
            /\ trades' = paid
            /\ debts' = debts \union {[from |-> c.from, to |-> c.to, at |-> NextNumber]}
            /\ UNCHANGED <<active, estateVars, cardVars, completing, dangling>>
         \/ /\ NewDebt(c.from, c.to, TRUE)
            /\ dangling' = TRUE
            /\ completing' = NoTrade
      /\ UNCHANGED charges

\* the end of completeTrade: everybody in it settles what he can
CompleteTrade ==
  /\ completing # NoTrade
  /\ trades[completing].comps = {}
  /\ \E paid \in [trades[completing].players -> 0..MaxDebts] :
       debts' = {d \in debts : d.from \in DOMAIN paid => d.at > paid[d.from]}
  /\ trades' = [trades EXCEPT ![completing] = Closed]
  /\ completing' = NoTrade
  /\ UNCHANGED <<active, estateVars, cardVars, charges, dangling>>

-----------------------------------------------------------------------------

EstateCommand == \E p \in Players, e \in Estates :
  \/ AcquireEstate(p, e) \/ SellEstate(p, e)
  \/ Mortgage(p, e) \/ Unmortgage(p, e)
  \/ BuyHouse(p, e) \/ SellHouse(p, e)

Loss == \E p \in Players :
  \/ Quit(p) \/ Settle(p)
  \/ \E to \in Owners, broke \in BOOLEAN : Owe(p, to, broke)

CardMove == \/ \E p \in Players : DrawCard(p)
            \/ \E p \in Players, c \in Ownable : UseCard(p, c)
            \/ \E c \in charges : Charge(c)

TradeCommand == \E t \in TradeIds :
  \/ \E p, q \in active : NewTrade(p, q, t)
  \/ \E x \in Estates \union Ownable, to \in Owners : SetObject(t, x, to)
  \/ \E from, to \in Players, zero \in BOOLEAN : SetMoney(t, from, to, zero)
  \/ \E p \in trades[t].players : AcceptTrade(p, t)
  \/ RejectTrade(t)

Completion ==
  /\ completing # NoTrade
  /\ \/ \E c \in trades[completing].comps :
          \/ c.object # Money /\ CompleteObject(c)
          \/ CompleteMoney(c)
     \/ CompleteTrade

Next == EstateCommand \/ Loss \/ CardMove \/ TradeCommand \/ Completion

Spec == Init /\ [][Next]_vars

-----------------------------------------------------------------------------
(* Properties *)

\* Everything has an owner who is in the game: estates and cards belong to an
\* active player or to the bank, trades are between active players, and debts from
\* one to another or to the bank, through every bankruptcy (bankruptPlayer), those
\* inside the loop of a card included, whatever that loop has still to charge.
OwnersPlay ==
  /\ \A e \in Estates : owner[e] \in active \union {Nobody}
  /\ \A c \in Ownable : holder[c] \in active \union {Nobody}
  /\ \A t \in TradeIds : trades[t].players \subseteq active
  /\ \A d \in debts : d.from \in active /\ d.to \in active \union {Nobody}

\* No house is lost or made: the bank's stock and the buildings on the estates add
\* up to what the game started with, a hotel standing for four houses more when it
\* is built or sold, and for none when a bankruptcy breaks it up (buyHouse,
\* sellHouse, enforceDebt).
StockConserved ==
  LET hotels == {e \in Estates : houses[e] = Hotel}
  IN  ~UnlimitedHouses =>
        /\ stock.hotels + Cardinality(hotels) = HotelStock
        /\ stock.houses + Sum(houses, Estates \ hotels) = HouseStock

\* A group is mortgaged or built on, never both, whoever owns its parts after
\* sales, trades and bankruptcies (mortgageEstate, buyHouse, enforceDebt).
NoMortgageUnderBuildings ==
  \A e \in Estates : houses[e] > 0 => ~GroupHasMortgages(e)

\* The bank neither lends to itself nor builds: an estate without an owner is free of
\* mortgage and buildings when it is offered again (sellEstate, enforceDebt).
BankOwnsBareEstates ==
  \A e \in Estates : owner[e] = Nobody => e \notin mortgaged /\ houses[e] = 0

\* A trade offers an object only from its owner, at most once, and only among its
\* parties, whatever becomes of the object elsewhere (updateObject, transferEstate,
\* transferCard).
ComponentsFromOwners ==
  \A t \in TradeIds : \A c \in trades[t].comps :
    /\ {c.from, c.to} \subseteq trades[t].players
    /\ c.object # Money => /\ c.from = OwnerOf(c.object)
                           /\ \A d \in trades[t].comps : d.object = c.object => d = c

\* A card is in one place: once in the deck, or with its holder (nextCard, popCard
\* and pushCard, called from giveCard, useJailCard and enforceDebt).
CardsInOnePlace ==
  /\ \A i, j \in DOMAIN deck : deck[i] = deck[j] => i = j
  /\ {deck[i] : i \in DOMAIN deck} = Cards \ {c \in Ownable : holder[c] # Nobody}

\* Nobody loses an estate or a card to another player while he plays, except in a
\* trade that bears his accept (acceptTrade, updateObject): the owner of an object
\* that somebody else puts into a trade becomes a party of it.  Since that accept
\* the trade may have lost components, and nothing else (AcceptedTermsOnlyShrink).
TakenByConsent ==
  [][\A x \in Estates \union Ownable :
       LET p == OwnerOf(x)
           new == OwnerOf(x)'
       IN  p \in active' /\ new \notin {p, Nobody} =>
             p \in trades[completing].accepted]_vars

\* While a player's accept stands, the terms he accepted can only lose components,
\* those whose object has changed hands elsewhere; nothing is added or redirected
\* behind his back (resetAcceptFlags in updateObject, delComponent in transferEstate
\* and transferCard).
AcceptedTermsOnlyShrink ==
  [][\A t \in TradeIds :
       trades[t].accepted \intersect trades'[t].accepted # {} =>
         trades'[t].comps \subseteq trades[t].comps]_vars
=============================================================================
