---------------------------- MODULE AssetsProofs ----------------------------
(***************************************************************************)
(* Proofs about Assets, for every number of players, estates, cards and    *)
(* trades: who can own what, what a trade may contain, mortgages and       *)
(* buildings, that nothing is taken without consent, and that the houses   *)
(* and hotels of the bank and of the city always add up.                   *)
(***************************************************************************)
EXTENDS Assets, FiniteSetTheorems, TLAPS

\* A trade in which the components name owners and parties.
Honest(tr) ==
  /\ tr.players \subseteq active
  /\ \A c \in tr.comps :
       /\ {c.from, c.to} \subseteq tr.players
       /\ c.from # c.to
       /\ c.object # Money => /\ c.from = OwnerOf(c.object)
                              /\ \A d \in tr.comps : d.object = c.object => d = c

\* the types, but for the sequence of the deck and the sums of the stock
Typed ==
  /\ active \subseteq Players
  /\ owner \in [Estates -> active \union {Nobody}]
  /\ houses \in [Estates -> 0..Hotel]
  /\ mortgaged \subseteq Estates
  /\ holder \in [Ownable -> active \union {Nobody}]
  /\ trades \in [TradeIds -> TradeRecord]

\* debts have two sides, and both play
Sound(ds) == \A d \in ds : /\ d.from \in active
                           /\ d.to \in active \union {Nobody}
                           /\ d.from # d.to

\* the deck is a sequence of cards, each in one place
DeckSound == deck \in Seq(Cards) /\ CardsInOnePlace

Core == /\ Typed
        /\ Sound(debts)
        /\ \A t \in TradeIds : Honest(trades[t])
        /\ NoMortgageUnderBuildings
        /\ BankOwnsBareEstates
        /\ DeckSound

\* what a loop over a trade or a card still has to do
Loops == /\ completing \in TradeIds \union {NoTrade}
         /\ completing # NoTrade =>
              /\ trades[completing].players \subseteq trades[completing].accepted
              /\ charges = {}
         /\ \A c \in charges : /\ c.from \in Players /\ c.to \in Players
                               /\ c.from # c.to

IInv == Core /\ Loops

-----------------------------------------------------------------------------
(* Groups and the operators on trades *)

\* Two estates are in the same group both ways round.
LEMMA SameGroup ==
  ASSUME NEW e \in Estates
  PROVE  /\ e \in Group(e)
         /\ Group(e) \subseteq Estates
         /\ \A f \in Group(e) : e \in Group(f)
  BY AssetsAssumption DEF Group, Estates

\* What Without leaves of a trade.
LEMMA WithoutType ==
  ASSUME NEW ts \in [TradeIds -> TradeRecord], NEW x
  PROVE  /\ Without(ts, x) \in [TradeIds -> TradeRecord]
         /\ \A t \in TradeIds :
              /\ Without(ts, x)[t].players = ts[t].players
              /\ Without(ts, x)[t].accepted = ts[t].accepted
              /\ Without(ts, x)[t].comps = {c \in ts[t].comps : c.object # x}
<1>1. ASSUME NEW t \in TradeIds
      PROVE  [ts[t] EXCEPT !.comps = {c \in @ : c.object # x}] \in TradeRecord
  <2>1. ts[t] \in TradeRecord
    OBVIOUS
  <2> QED
    BY <2>1 DEF TradeRecord
<1>2. \A t \in TradeIds : ts[t] \in TradeRecord
  OBVIOUS
<1> QED
  BY <1>1, <1>2 DEF Without, TradeRecord

\* A changed component of an honest trade, or a new one, leaves it honest.
LEMMA UpdateObjectHonest ==
  ASSUME NEW tr \in TradeRecord, Honest(tr), active \subseteq Players,
         NEW x \in Objects, NEW from \in active, NEW to \in active \union {Nobody},
         x # Money => from = OwnerOf(x)
  PROVE  LET new == UpdateObject(tr, x, from, to)
         IN  new \in TradeRecord /\ Honest(new)
<1> DEFINE old == Existing(tr, x, from, to)
           set == IF old = {} THEN {Component(x, from, to)}
                  ELSE {[c EXCEPT !.to = to] : c \in old}
           kept == [tr EXCEPT !.comps = @ \ old, !.accepted = {}]
           full == [tr EXCEPT !.players = Parties(tr, from, to),
                              !.comps = (@ \ old) \union set, !.accepted = {}]
<1>1. \/ UpdateObject(tr, x, from, to) \in {tr, kept}
      \/ to \notin {from, Nobody} /\ UpdateObject(tr, x, from, to) = full
  <2>1. ResetAccepts([tr EXCEPT !.comps = @ \ old]) = kept
    BY DEF ResetAccepts, TradeRecord
  <2>2. ResetAccepts([tr EXCEPT !.players = Parties(tr, from, to),
                                !.comps = (@ \ old) \union set]) = full
    BY DEF ResetAccepts, TradeRecord
  <2> QED
    BY <2>1, <2>2 DEF UpdateObject
<1>2. kept \in TradeRecord /\ Honest(kept)
  BY DEF TradeRecord, Honest
<1>3. ASSUME to \notin {from, Nobody}
      PROVE  full \in TradeRecord /\ Honest(full)
  <2>1. /\ full.players = tr.players \union {from, to}
        /\ full.comps = (tr.comps \ old) \union set
        /\ full.accepted = {}
    BY DEF TradeRecord, Parties
  <2>2. to \in active /\ from \in Players /\ to \in Players
    BY <1>3
  <2>3. ASSUME NEW c \in set
        PROVE  /\ c \in [object : Objects, from : Players, to : Players]
               /\ c.object = x /\ c.from = from /\ c.to = to
    <3>1. CASE old = {}
      BY <3>1, <2>2, <2>3 DEF Component
    <3>2. CASE old # {}
      <4>1. PICK o \in old : c = [o EXCEPT !.to = to]
        BY <3>2, <2>3
      <4>2. o \in [object : Objects, from : Players, to : Players] /\ o.object = x
        BY DEF Existing, TradeRecord
      <4>3. o.from = from
        BY DEF Existing, Honest
      <4> QED
        BY <4>1, <4>2, <4>3, <2>2
    <3> QED
      BY <3>1, <3>2
  <2>4. full \in TradeRecord
    BY <2>2, <2>3 DEF TradeRecord, Parties
  <2>5. full.players \subseteq active
    BY <2>1, <2>2 DEF Honest
  <2>6. ASSUME NEW c \in full.comps
        PROVE  {c.from, c.to} \subseteq full.players /\ c.from # c.to
    BY <2>1, <2>3, <2>6, <1>3 DEF Honest
  <2>7. ASSUME NEW c \in full.comps, c.object # Money
        PROVE  /\ c.from = OwnerOf(c.object)
               /\ \A d \in full.comps : d.object = c.object => d = c
    <3>1. ASSUME NEW d \in full.comps, d.object = c.object
          PROVE  d = c
      <4>1. \A e \in set : e = Component(x, from, to)
        BY <2>3 DEF Component
      <4>2. \A e \in tr.comps \ old : x # Money => e.object # x
        BY DEF Existing
      <4> QED
        BY <2>1, <2>7, <3>1, <4>1, <4>2, <2>3 DEF Honest
    <3> QED
      BY <2>1, <2>3, <2>7, <3>1 DEF Honest
  <2> QED
    BY <2>4, <2>5, <2>6, <2>7 DEF Honest
<1> QED
  BY <1>1, <1>2, <1>3

-----------------------------------------------------------------------------
(* The operators that change several parts of the state *)

\* When an object changes hands and leaves the trades, they stay honest.
LEMMA WithoutHonest ==
  ASSUME Core, NEW x \in Estates \union Ownable,
         trades' = Without(trades, x), active' = active,
         \A y \in (Estates \union Ownable) \ {x} : OwnerOf(y)' = OwnerOf(y)
  PROVE  /\ trades' \in [TradeIds -> TradeRecord]
         /\ \A t \in TradeIds : Honest(trades[t])'
<1>1. trades \in [TradeIds -> TradeRecord]
  BY DEF Core, Typed
<1>2. trades' \in [TradeIds -> TradeRecord]
  BY <1>1, WithoutType
<1>3. ASSUME NEW t \in TradeIds
      PROVE  Honest(trades[t])'
  <2>1. /\ trades'[t].players = trades[t].players
        /\ trades'[t].comps = {c \in trades[t].comps : c.object # x}
    BY <1>1, WithoutType
  <2>2. Honest(trades[t])
    BY DEF Core
  <2>3. \A c \in trades[t].comps : c.object \in Objects
    BY <1>1 DEF TradeRecord
  <2> QED
    BY <2>1, <2>2, <2>3 DEF Honest, Objects
<1> QED
  BY <1>2, <1>3

\* With the owners and the players as they were, honest trades stay honest.
LEMMA SameOwnersHonest ==
  ASSUME Core, active' = active, owner' = owner, holder' = holder, NEW tr, Honest(tr)
  PROVE  Honest(tr)'
  BY DEF Honest, OwnerOf

\* The heir of a player is somebody else who plays, or the bank.
LEMMA HeirPlays ==
  ASSUME NEW p \in active, NEW ds, Sound(ds), NEW heir \in Heirs(ds, p)
  PROVE  heir \in (active \union {Nobody}) \ {p} \/ heir = Nobody
  BY DEF Heirs, DebtsOf, Sound

\* Cards that go under the deck from the hands of a player.
LEMMA CardsReturned ==
  ASSUME Core, NEW p \in active, NEW heir \in (active \ {p}) \union {Nobody},
         holder' = [c \in Ownable |-> IF holder[c] = p THEN heir ELSE holder[c]],
         IF heir = Nobody THEN \E s \in Orders(CardsOf(p)) : deck' = deck \o s
                          ELSE UNCHANGED deck
  PROVE  DeckSound'
<1>1. /\ deck \in Seq(Cards)
      /\ \A i, j \in DOMAIN deck : deck[i] = deck[j] => i = j
      /\ {deck[i] : i \in DOMAIN deck} = Cards \ {c \in Ownable : holder[c] # Nobody}
      /\ holder \in [Ownable -> active \union {Nobody}]
      /\ p # Nobody
  BY AssetsAssumption DEF Core, DeckSound, CardsInOnePlace, Typed
<1>2. CASE heir # Nobody
  <2>1. deck' = deck
    BY <1>2
  <2>2. {c \in Ownable : holder'[c] # Nobody} = {c \in Ownable : holder[c] # Nobody}
    BY <1>1, <1>2
  <2>3. {deck'[i] : i \in DOMAIN deck'} = {deck[i] : i \in DOMAIN deck}
    BY <2>1
  <2>4. \A i, j \in DOMAIN deck' : deck'[i] = deck'[j] => i = j
    BY <1>1, <2>1
  <2>5. deck' \in Seq(Cards)
    BY <1>1, <2>1
  <2>6. {deck'[i] : i \in DOMAIN deck'} = Cards \ {c \in Ownable : holder'[c] # Nobody}
    BY <1>1, <2>2, <2>3
  <2> QED
    BY <2>4, <2>5, <2>6 DEF DeckSound, CardsInOnePlace
<1>3. CASE heir = Nobody
  <2>1. PICK s \in Orders(CardsOf(p)) : deck' = deck \o s
    BY <1>3
  <2>2. IsFiniteSet(CardsOf(p))
    BY FS_Subset, AssetsAssumption DEF CardsOf
  <2> DEFINE k == Cardinality(CardsOf(p))
             n == Len(deck)
  <2>3. k \in Nat /\ n \in Nat
    BY <2>2, <1>1, FS_CardinalityType
  <2>4. /\ s \in [1..k -> CardsOf(p)]
        /\ \A i, j \in 1..k : s[i] = s[j] => i = j
        /\ \A c \in CardsOf(p) : \E i \in 1..k : s[i] = c
    BY DEF Orders
  <2>5. s \in Seq(Cards) /\ Len(s) = k
    <3>1. CardsOf(p) \subseteq Cards
      BY AssetsAssumption DEF CardsOf
    <3> HIDE DEF k
    <3> QED
      BY <2>3, <2>4, <3>1
  <2> HIDE DEF k, n
  <2>6. /\ deck' \in Seq(Cards)
        /\ DOMAIN deck' = 1..(n + k)
        /\ \A i \in 1..n : deck'[i] = deck[i]
        /\ \A i \in (n + 1)..(n + k) : deck'[i] = s[i - n]
    BY <1>1, <2>1, <2>3, <2>5 DEF n
  <2>7. \A i \in 1..n : deck[i] \notin CardsOf(p)
    BY <1>1 DEF CardsOf, n
  <2>8. \A i, j \in DOMAIN deck' : deck'[i] = deck'[j] => i = j
    <3> SUFFICES ASSUME NEW i \in 1..(n + k), NEW j \in 1..(n + k), deck'[i] = deck'[j]
                 PROVE  i = j
      BY <2>6
    <3>1. CASE i <= n /\ j <= n
      BY <3>1, <2>3, <2>6, <1>1 DEF n
    <3>2. CASE i > n /\ j > n
      <4>1. i - n \in 1..k /\ j - n \in 1..k
        BY <3>2, <2>3
      <4>2. deck'[i] = s[i - n] /\ deck'[j] = s[j - n]
        BY <3>2, <2>3, <2>6
      <4>3. i - n = j - n
        BY <4>1, <4>2, <2>4
      <4> QED
        BY <4>3, <2>3
    <3>3. ASSUME NEW a \in 1..(n + k), NEW b \in 1..(n + k), a <= n, b > n
          PROVE  deck'[a] # deck'[b]
      <4>1. a \in 1..n /\ b \in (n + 1)..(n + k) /\ b - n \in 1..k
        BY <3>3, <2>3
      <4> QED
        BY <4>1, <2>4, <2>6, <2>7
    <3> QED
      BY <3>1, <3>2, <3>3, <2>3
  <2>9. {deck'[i] : i \in DOMAIN deck'} = {deck[i] : i \in DOMAIN deck} \union CardsOf(p)
    <3>1. ASSUME NEW i \in 1..(n + k)
          PROVE  deck'[i] \in {deck[j] : j \in DOMAIN deck} \union CardsOf(p)
      <4>1. CASE i \in 1..n
        BY <4>1, <2>6, <1>1 DEF n
      <4>2. CASE i \notin 1..n
        <5>1. i \in (n + 1)..(n + k) /\ i - n \in 1..k
          BY <4>2, <2>3
        <5> QED
          BY <5>1, <2>4, <2>6
      <4> QED
        BY <4>1, <4>2
    <3>2. ASSUME NEW j \in DOMAIN deck
          PROVE  \E i \in 1..(n + k) : deck'[i] = deck[j]
      <4>1. j \in 1..n /\ j \in 1..(n + k)
        BY <1>1, <2>3 DEF n
      <4> QED
        BY <4>1, <2>6
    <3>3. ASSUME NEW c \in CardsOf(p)
          PROVE  \E i \in 1..(n + k) : deck'[i] = c
      <4>1. PICK m \in 1..k : s[m] = c
        BY <2>4
      <4>2. n + m \in (n + 1)..(n + k) /\ (n + m) - n = m /\ n + m \in 1..(n + k)
        BY <2>3
      <4> QED
        BY <4>1, <4>2, <2>6
    <3> DEFINE new == {deck'[i] : i \in 1..(n + k)}
    <3>4. new \subseteq {deck[i] : i \in DOMAIN deck} \union CardsOf(p)
      BY <3>1
    <3>5. {deck[i] : i \in DOMAIN deck} \subseteq new
      BY <3>2
    <3>6. CardsOf(p) \subseteq new
      BY <3>3
    <3>7. {deck'[i] : i \in DOMAIN deck'} = new
      BY <2>6
    <3> HIDE DEF new
    <3> QED
      BY <3>4, <3>5, <3>6, <3>7
  <2>10. {c \in Ownable : holder'[c] # Nobody} = {c \in Ownable : holder[c] # Nobody} \ CardsOf(p)
    BY <1>1, <1>3 DEF CardsOf
  <2>11. CardsOf(p) \subseteq Cards
    BY AssetsAssumption DEF CardsOf
  <2>12. CardsOf(p) \subseteq {c \in Ownable : holder[c] # Nobody}
    BY <1>1 DEF CardsOf
  <2>13. {deck'[i] : i \in DOMAIN deck'} = Cards \ {c \in Ownable : holder'[c] # Nobody}
    <3> HIDE DEF CardsInOnePlace
    <3> QED
      BY <1>1, <2>9, <2>10, <2>11, <2>12
  <2> QED
    BY <2>6, <2>8, <2>13 DEF DeckSound, CardsInOnePlace
<1> QED
  BY <1>2, <1>3

\* A bankruptcy keeps the invariant, with any debt that caused it.
LEMMA BankruptCore ==
  ASSUME Core, NEW p \in active, NEW ds, Sound(ds), Bankrupt(p, ds)
  PROVE  Core'
<1>1. PICK heir \in Heirs(ds, p) :
        /\ active' = active \ {p}
        /\ trades' = Rejected(p)
        /\ owner' = [e \in Estates |-> IF owner[e] = p THEN heir ELSE owner[e]]
        /\ houses' = [e \in Estates |-> IF owner[e] = p THEN 0 ELSE houses[e]]
        /\ mortgaged' = Lifted(p, heir)
        /\ holder' = [c \in Ownable |-> IF holder[c] = p THEN heir ELSE holder[c]]
        /\ debts' = Cleared(ds, p)
        /\ IF heir = Nobody THEN \E s \in Orders(CardsOf(p)) : deck' = deck \o s
                            ELSE UNCHANGED deck
  BY DEF Bankrupt
<1>2. heir \in (active \ {p}) \union {Nobody}
  BY HeirPlays, AssetsAssumption DEF Core, Typed
<1>3. p \in Players /\ p # Nobody
  BY AssetsAssumption DEF Core, Typed
<1>4. /\ owner \in [Estates -> active \union {Nobody}]
      /\ houses \in [Estates -> 0..Hotel]
      /\ mortgaged \subseteq Estates
      /\ holder \in [Ownable -> active \union {Nobody}]
      /\ trades \in [TradeIds -> TradeRecord]
      /\ active \subseteq Players
  BY DEF Core, Typed
<1>5. ASSUME NEW t \in TradeIds
      PROVE  trades'[t] \in TradeRecord /\ Honest(trades[t])'
  <2>1. trades[t] \in TradeRecord /\ Honest(trades[t])
    BY <1>4 DEF Core
  <2>2. CASE p \in trades[t].players
    <3>1. trades'[t] = Closed
      BY <1>1, <2>2 DEF Rejected
    <3> QED
      BY <3>1 DEF Closed, TradeRecord, Honest
  <2>3. CASE p \notin trades[t].players
    <3> DEFINE left == {c \in trades[t].comps : c.object \notin EstatesOf(p) \union CardsOf(p)}
    <3>1. trades'[t] = [trades[t] EXCEPT !.comps = left]
      BY <1>1, <2>3 DEF Rejected
    <3>2. trades'[t] \in TradeRecord
      BY <2>1, <3>1 DEF TradeRecord
    <3>3. trades'[t].players = trades[t].players /\ trades'[t].comps = left
      BY <2>1, <3>1 DEF TradeRecord
    <3>4. trades'[t].players \subseteq active'
      BY <2>1, <2>3, <3>3, <1>1 DEF Honest
    <3>5. ASSUME NEW c \in left, c.object # Money
          PROVE  OwnerOf(c.object)' = OwnerOf(c.object)
      <4>1. c.object \in Estates \union Ownable
        BY <2>1, <3>5 DEF TradeRecord, Objects
      <4> QED
        BY <4>1, <1>1, <3>5 DEF OwnerOf, EstatesOf, CardsOf
    <3> QED
      BY <2>1, <3>2, <3>3, <3>4, <3>5 DEF Honest
  <2> QED
    BY <2>2, <2>3
<1>6. Typed'
  <2>1. trades' \in [TradeIds -> TradeRecord]
    BY <1>1, <1>5 DEF Rejected
  <2>2. /\ active' \subseteq Players
        /\ owner' \in [Estates -> active' \union {Nobody}]
        /\ houses' \in [Estates -> 0..Hotel]
        /\ mortgaged' \subseteq Estates
        /\ holder' \in [Ownable -> active' \union {Nobody}]
    BY <1>1, <1>2, <1>4 DEF Lifted, Hotel
  <2> QED
    BY <2>1, <2>2 DEF Typed
<1>7. Sound(debts)'
  BY <1>1 DEF Sound, Cleared
<1>8. NoMortgageUnderBuildings'
  <2>1. \A e \in Estates : houses'[e] > 0 => houses[e] > 0
    BY <1>1, <1>4 DEF Hotel
  <2>2. mortgaged' \subseteq mortgaged
    BY <1>1 DEF Lifted
  <2> QED
    BY <2>1, <2>2 DEF Core, NoMortgageUnderBuildings, GroupHasMortgages
<1>9. BankOwnsBareEstates'
  <2> SUFFICES ASSUME NEW e \in Estates, owner'[e] = Nobody
               PROVE  e \notin mortgaged' /\ houses'[e] = 0
    BY DEF BankOwnsBareEstates
  <2>1. CASE owner[e] = p
    BY <1>1, <2>1 DEF Lifted, EstatesOf
  <2>2. CASE owner[e] # p
    BY <1>1, <2>2 DEF Lifted, Core, BankOwnsBareEstates
  <2> QED
    BY <2>1, <2>2
<1>10. DeckSound'
  BY <1>1, <1>2, CardsReturned
<1> QED
  BY <1>5, <1>6, <1>7, <1>8, <1>9, <1>10 DEF Core

\* A debt between two players keeps it, whether or not it ruins the debtor.
LEMMA NewDebtCore ==
  ASSUME Core, NEW from, NEW to, from # to, from # Nobody, NEW broke \in BOOLEAN,
         NewDebt(from, to, broke)
  PROVE  Core'
<1> DEFINE ds == debts \union {[from |-> from, to |-> to, at |-> NextNumber]}
<1>1. CASE ~({from, to} \subseteq active \union {Nobody})
  <2>1. UNCHANGED <<active, estateVars, cardVars, debts, trades>>
    BY <1>1 DEF NewDebt
  <2> QED
    BY <2>1 DEF Core, Typed, DeckSound, CardsInOnePlace, Sound, Honest, OwnerOf, NoMortgageUnderBuildings,
                GroupHasMortgages, BankOwnsBareEstates, estateVars, cardVars
<1>2. CASE {from, to} \subseteq active \union {Nobody}
  <2>1. from \in active /\ Sound(ds)
    BY <1>2 DEF Core, Sound
  <2>2. CASE broke
    <3>1. Bankrupt(from, ds)
      BY <1>2, <2>2 DEF NewDebt
    <3> QED
      BY <2>1, <3>1, BankruptCore
  <2>3. CASE ~broke
    <3>1. debts' = ds /\ UNCHANGED <<active, estateVars, cardVars, trades>>
      BY <1>2, <2>3 DEF NewDebt
    <3>2. Sound(debts)'
      BY <2>1, <3>1 DEF Sound
    <3> QED
      BY <3>1, <3>2 DEF Core, Typed, DeckSound, CardsInOnePlace, Honest, OwnerOf, NoMortgageUnderBuildings,
                GroupHasMortgages, BankOwnsBareEstates, estateVars, cardVars
  <2> QED
    BY <2>2, <2>3
<1> QED
  BY <1>1, <1>2

\* Fewer debts keep it.
LEMMA FewerDebtsSound ==
  ASSUME Core, active' = active, debts' \subseteq debts
  PROVE  Sound(debts)'
  BY DEF Core, Sound

-----------------------------------------------------------------------------
(* Estates *)

\* An estate of the bank gets an owner.
LEMMA AcquireEstateCore ==
  ASSUME Core, NEW p \in Players, NEW e \in Estates, AcquireEstate(p, e)
  PROVE  Core'
<1>1. /\ p \in active /\ owner[e] = Nobody
      /\ owner' = [owner EXCEPT ![e] = p]
      /\ UNCHANGED <<active, houses, mortgaged, holder, deck, debts, trades>>
  BY DEF AcquireEstate, cardVars
<1>2. owner \in [Estates -> active \union {Nobody}] /\ active \subseteq Players
  BY DEF Core, Typed
<1>3. owner' \in [Estates -> active \union {Nobody}]
  BY <1>1, <1>2
<1>4. ASSUME NEW t \in TradeIds
      PROVE  Honest(trades[t])'
  <2>1. Honest(trades[t])
    BY DEF Core
  <2>2. \A c \in trades[t].comps : c.object = e => c.object # Money /\ c.from # Nobody
    BY <2>1, <1>2, AssetsAssumption DEF Honest
  <2>3. \A c \in trades[t].comps : c.object # e
    BY <2>1, <2>2, <1>1 DEF Honest, OwnerOf
  <2>4. \A c \in trades[t].comps : OwnerOf(c.object)' = OwnerOf(c.object)
    BY <1>1, <1>2, <2>3 DEF OwnerOf
  <2> QED
    BY <1>1, <2>1, <2>4 DEF Honest
<1>5. BankOwnsBareEstates'
  BY <1>1, <1>2, AssetsAssumption DEF Core, BankOwnsBareEstates
<1> QED
  BY <1>1, <1>3, <1>4, <1>5
     DEF Core, Typed, DeckSound, CardsInOnePlace, Sound, NoMortgageUnderBuildings, GroupHasMortgages

\* A bare estate goes back to the bank and leaves the trades.
LEMMA SellEstateCore ==
  ASSUME Core, NEW p \in Players, NEW e \in Estates, SellEstate(p, e)
  PROVE  Core'
<1>1. /\ e \notin mortgaged /\ ~GroupHasBuildings(e)
      /\ owner' = [owner EXCEPT ![e] = Nobody]
      /\ trades' = Without(trades, e)
      /\ debts' \subseteq debts
      /\ UNCHANGED <<active, houses, mortgaged, holder, deck>>
  BY DEF SellEstate, cardVars, SolveDebts, Settled
<1>2. owner \in [Estates -> active \union {Nobody}] /\ houses \in [Estates -> 0..Hotel]
  BY DEF Core, Typed
<1>3. owner' \in [Estates -> active \union {Nobody}]
  BY <1>1, <1>2
<1>4. /\ trades' \in [TradeIds -> TradeRecord]
      /\ \A t \in TradeIds : Honest(trades[t])'
  <2>1. \A y \in (Estates \union Ownable) \ {e} : OwnerOf(y)' = OwnerOf(y)
    BY <1>1, <1>2 DEF OwnerOf
  <2> QED
    BY <1>1, <2>1, WithoutHonest
<1>5. BankOwnsBareEstates'
  <2>1. houses[e] = 0
    BY <1>1, <1>2, SameGroup DEF GroupHasBuildings, Hotel
  <2> QED
    BY <1>1, <1>2, <2>1 DEF Core, BankOwnsBareEstates
<1>6. Sound(debts)'
  BY <1>1, FewerDebtsSound
<1> QED
  BY <1>1, <1>3, <1>4, <1>5, <1>6
     DEF Core, Typed, DeckSound, CardsInOnePlace, NoMortgageUnderBuildings, GroupHasMortgages

\* A mortgage is taken on a group without buildings, or lifted.
LEMMA MortgageCore ==
  ASSUME Core, NEW p \in Players, NEW e \in Estates, Mortgage(p, e) \/ Unmortgage(p, e)
  PROVE  Core'
<1>1. /\ owner[e] = p
      /\ \/ mortgaged' = mortgaged \union {e} /\ ~GroupHasBuildings(e)
         \/ mortgaged' = mortgaged \ {e}
      /\ debts' \subseteq debts
      /\ UNCHANGED <<active, owner, houses, holder, deck, trades>>
  BY DEF Mortgage, Unmortgage, cardVars, SolveDebts, Settled
<1>2. houses \in [Estates -> 0..Hotel]
  BY DEF Core, Typed
<1>3. NoMortgageUnderBuildings'
  <2> SUFFICES ASSUME NEW f \in Estates, houses[f] > 0
               PROVE  Group(f) \intersect mortgaged' = {}
    BY <1>1 DEF NoMortgageUnderBuildings, GroupHasMortgages
  <2>1. Group(f) \intersect mortgaged = {}
    BY DEF Core, NoMortgageUnderBuildings, GroupHasMortgages
  <2>2. e \in Group(f) => GroupHasBuildings(e)
    BY SameGroup DEF GroupHasBuildings
  <2> QED
    BY <1>1, <2>1, <2>2
<1>4. BankOwnsBareEstates'
  BY <1>1, AssetsAssumption DEF Core, BankOwnsBareEstates
<1>5. \A t \in TradeIds : Honest(trades[t])'
  BY <1>1 DEF Core, Honest, OwnerOf
<1>6. Sound(debts)'
  BY <1>1, FewerDebtsSound
<1> QED
  BY <1>1, <1>3, <1>4, <1>5, <1>6 DEF Core, Typed, DeckSound, CardsInOnePlace

\* A house is built on a group without mortgages, or torn down.
LEMMA HouseCore ==
  ASSUME Core, NEW p \in Players, NEW e \in Estates, BuyHouse(p, e) \/ SellHouse(p, e)
  PROVE  Core'
<1>1. /\ owner[e] = p
      /\ \/ houses' = [houses EXCEPT ![e] = houses[e] + 1] /\ houses[e] # Hotel
            /\ ~GroupHasMortgages(e)
         \/ houses' = [houses EXCEPT ![e] = houses[e] - 1] /\ houses[e] # 0
      /\ debts' \subseteq debts
      /\ UNCHANGED <<active, owner, mortgaged, holder, deck, trades>>
  BY DEF BuyHouse, SellHouse, cardVars, SolveDebts, Settled
<1>2. houses \in [Estates -> 0..Hotel]
  BY DEF Core, Typed
<1>3. houses' \in [Estates -> 0..Hotel]
  BY <1>1, <1>2 DEF Hotel
<1>4. NoMortgageUnderBuildings'
  <2> SUFFICES ASSUME NEW f \in Estates, houses'[f] > 0
               PROVE  ~GroupHasMortgages(f)
    BY <1>1 DEF NoMortgageUnderBuildings, GroupHasMortgages
  <2>1. houses[f] > 0 \/ (f = e /\ ~GroupHasMortgages(e))
    BY <1>1, <1>2 DEF Hotel
  <2> QED
    BY <2>1 DEF Core, NoMortgageUnderBuildings
<1>5. BankOwnsBareEstates'
  BY <1>1, <1>2, AssetsAssumption DEF Core, BankOwnsBareEstates
<1>6. \A t \in TradeIds : Honest(trades[t])'
  BY <1>1 DEF Core, Honest, OwnerOf
<1>7. Sound(debts)'
  BY <1>1, FewerDebtsSound
<1> QED
  BY <1>1, <1>3, <1>4, <1>5, <1>6, <1>7 DEF Core, Typed, DeckSound, CardsInOnePlace

-----------------------------------------------------------------------------
(* Cards *)

\* A shuffle of the deck holds the same cards, each once.
LEMMA ShuffledSound ==
  ASSUME deck \in Seq(Cards), deck # <<>>,
         \A i, j \in DOMAIN deck : deck[i] = deck[j] => i = j,
         NEW s \in Shuffled
  PROVE  /\ s \in Seq(Cards) /\ s # <<>>
         /\ \A i, j \in DOMAIN s : s[i] = s[j] => i = j
         /\ {s[i] : i \in DOMAIN s} = {deck[i] : i \in DOMAIN deck}
<1> DEFINE S == {deck[i] : i \in DOMAIN deck}
           k == Cardinality(S)
<1>1. CASE ~AlwaysShuffle
  BY <1>1 DEF Shuffled
<1>2. CASE AlwaysShuffle
  <2>1. S \subseteq Cards /\ deck[1] \in S
    OBVIOUS
  <2>2. k \in Nat
    BY <2>1, FS_Subset, FS_CardinalityType, AssetsAssumption
  <2>3. /\ s \in [1..k -> S]
        /\ \A i, j \in DOMAIN s : s[i] = s[j] => i = j
        /\ \A c \in S : \E i \in DOMAIN s : s[i] = c
    BY <1>2 DEF Shuffled, Orders
  <2> HIDE DEF S, k
  <2>4. s \in Seq(Cards) /\ DOMAIN s = 1..k
    BY <2>1, <2>2, <2>3
  <2>5. {s[i] : i \in DOMAIN s} = S
    BY <2>3
  <2>6. s # <<>>
    <3>1. PICK i \in DOMAIN s : s[i] = deck[1]
      BY <2>1, <2>3
    <3>2. s = <<>> => DOMAIN s = {}
      OBVIOUS
    <3> QED
      BY <3>1, <3>2
  <2> QED
    BY <2>3, <2>4, <2>5, <2>6 DEF S
<1> QED
  BY <1>1, <1>2

\* Drawing the first card: rotated to the back, and popped there if it is kept.
LEMMA DrawCardCore ==
  ASSUME Core, NEW p \in Players, DrawCard(p)
  PROVE  Core'
<1>0. /\ deck \in Seq(Cards) /\ deck # <<>>
      /\ \A i, j \in DOMAIN deck : deck[i] = deck[j] => i = j
  BY DEF Core, DeckSound, CardsInOnePlace, DrawCard
<1>a. PICK s \in Shuffled :
        \/ Head(s) \in Ownable /\ deck' = Popped(Rotated(s)) /\ holder' = [holder EXCEPT ![Head(s)] = p]
        \/ Head(s) \notin Ownable /\ deck' = Rotated(s) /\ holder' = holder
  BY DEF DrawCard
<1>b. /\ s \in Seq(Cards) /\ s # <<>>
      /\ \A i, j \in DOMAIN s : s[i] = s[j] => i = j
      /\ {s[i] : i \in DOMAIN s} = {deck[i] : i \in DOMAIN deck}
  BY <1>0, <1>a, ShuffledSound
<1> DEFINE c == Head(s)
           n == Len(s)
<1>1. /\ p \in active /\ s # <<>>
      /\ \/ c \in Ownable /\ deck' = Popped(Rotated(s)) /\ holder' = [holder EXCEPT ![c] = p]
         \/ c \notin Ownable /\ deck' = Rotated(s) /\ holder' = holder
      /\ UNCHANGED <<active, owner, houses, mortgaged, debts, trades>>
  BY <1>a, <1>b DEF DrawCard, estateVars
<1>2. /\ s \in Seq(Cards)
      /\ \A i, j \in DOMAIN s : s[i] = s[j] => i = j
      /\ {s[i] : i \in DOMAIN s} = Cards \ {d \in Ownable : holder[d] # Nobody}
      /\ holder \in [Ownable -> active \union {Nobody}]
      /\ p # Nobody
      /\ active \subseteq Players
  BY <1>b, AssetsAssumption DEF Core, DeckSound, CardsInOnePlace, Typed
<1>3. n \in Nat \ {0} /\ c = s[1] /\ c \in Cards /\ DOMAIN s = 1..n
  BY <1>1, <1>2
<1>4. /\ Rotated(s) \in Seq(Cards) /\ Len(Rotated(s)) = n
      /\ \A i \in 1..(n - 1) : Rotated(s)[i] = s[i + 1]
      /\ Rotated(s)[n] = s[1]
  BY <1>1, <1>2, <1>3 DEF Rotated
<1>5. /\ Popped(Rotated(s)) \in Seq(Cards) /\ Len(Popped(Rotated(s))) = n - 1
      /\ \A i \in 1..(n - 1) : Popped(Rotated(s))[i] = s[i + 1]
  BY <1>3, <1>4 DEF Popped
<1> HIDE DEF c, n
<1>6. c \in Ownable => holder[c] = Nobody
  BY <1>2, <1>3
<1>7. DeckSound'
  <2>1. CASE c \in Ownable
    <3>1. deck' = Popped(Rotated(s)) /\ holder' = [holder EXCEPT ![c] = p]
      BY <1>1, <2>1
    <3> DEFINE later == [i \in 1..(n - 1) |-> i + 1]
    <3>a. \A i \in 1..(n - 1) : deck'[i] = s[later[i]] /\ later[i] \in 2..n
      BY <3>1, <1>3, <1>5
    <3>b. \A i, j \in 1..(n - 1) : later[i] = later[j] => i = j
      BY <1>3
    <3> HIDE DEF later
    <3>2. ASSUME NEW i \in 1..(n - 1), NEW j \in 1..(n - 1), deck'[i] = deck'[j]
          PROVE  i = j
      <4>1. later[i] \in DOMAIN s /\ later[j] \in DOMAIN s
        BY <3>a, <1>3
      <4> QED
        BY <4>1, <3>2, <3>a, <3>b, <1>2
    <3>3. {deck'[i] : i \in 1..(n - 1)} = {s[i] : i \in 1..n} \ {c}
      <4>1. ASSUME NEW i \in 1..(n - 1)
            PROVE  deck'[i] \in {s[j] : j \in 1..n} \ {c}
        <5>1. later[i] \in DOMAIN s /\ 1 \in DOMAIN s /\ later[i] # 1
          BY <3>a, <1>3
        <5>2. s[later[i]] # s[1]
          BY <5>1, <1>2
        <5> QED
          BY <5>1, <5>2, <3>a, <1>3
      <4>2. ASSUME NEW j \in 1..n, s[j] # c
            PROVE  \E i \in 1..(n - 1) : deck'[i] = s[j]
        <5>1. j - 1 \in 1..(n - 1)
          BY <4>2, <1>3
        <5> QED
          BY <5>1, <3>1, <1>3, <1>5
      <4> QED
        BY <4>1, <4>2
    <3>4. {d \in Ownable : holder'[d] # Nobody} = {d \in Ownable : holder[d] # Nobody} \union {c}
      BY <3>1, <2>1, <1>2
    <3>5. {deck'[i] : i \in 1..(n - 1)} = Cards \ {d \in Ownable : holder'[d] # Nobody}
      BY <3>3, <3>4, <1>2, <1>3
    <3>6. deck' \in Seq(Cards) /\ DOMAIN deck' = 1..(n - 1)
      BY <3>1, <1>3, <1>5
    <3> QED
      BY <3>2, <3>5, <3>6 DEF DeckSound, CardsInOnePlace
  <2>2. CASE c \notin Ownable
    <3>1. deck' = Rotated(s) /\ holder' = holder
      BY <1>1, <2>2
    <3>2. ASSUME NEW i \in 1..n, NEW j \in 1..n, deck'[i] = deck'[j]
          PROVE  i = j
      <4>1. \A m \in 1..n : deck'[m] = s[IF m = n THEN 1 ELSE m + 1]
        BY <3>1, <1>3, <1>4
      <4> QED
        BY <4>1, <3>2, <1>2, <1>3
    <3>3. {deck'[i] : i \in 1..n} = {s[i] : i \in 1..n}
      <4>1. ASSUME NEW i \in 1..n
            PROVE  deck'[i] \in {s[j] : j \in 1..n}
        BY <3>1, <1>3, <1>4
      <4>2. ASSUME NEW j \in 1..n
            PROVE  \E i \in 1..n : deck'[i] = s[j]
        <5>1. CASE j = 1
          BY <5>1, <3>1, <1>3, <1>4
        <5>2. CASE j # 1
          <6>1. j - 1 \in 1..(n - 1) /\ j - 1 \in 1..n
            BY <5>2, <1>3
          <6> QED
            BY <6>1, <3>1, <1>3, <1>4
        <5> QED
          BY <5>1, <5>2
      <4> QED
        BY <4>1, <4>2
    <3>4. {deck'[i] : i \in 1..n} = Cards \ {d \in Ownable : holder'[d] # Nobody}
      BY <3>1, <3>3, <1>2, <1>3
    <3>5. deck' \in Seq(Cards) /\ DOMAIN deck' = 1..n
      BY <3>1, <1>3, <1>4
    <3> QED
      BY <3>2, <3>4, <3>5 DEF DeckSound, CardsInOnePlace
  <2> QED
    BY <2>1, <2>2
<1>8. holder' \in [Ownable -> active \union {Nobody}]
  BY <1>1, <1>2
<1>9. ASSUME NEW t \in TradeIds
      PROVE  Honest(trades[t])'
  <2>1. Honest(trades[t]) /\ trades[t] \in TradeRecord
    BY DEF Core, Typed
  <2>2. \A d \in trades[t].comps : d.object # Money => d.from # Nobody
    BY <2>1, <1>2, AssetsAssumption DEF Honest
  <2>3. ASSUME NEW d \in trades[t].comps, d.object # Money
        PROVE  OwnerOf(d.object)' = OwnerOf(d.object)
    <3>1. d.object \in Estates \union Ownable
      BY <2>1, <2>3 DEF TradeRecord, Objects
    <3>2. d.object \notin Estates => holder[d.object] # Nobody
      BY <2>1, <2>2, <2>3 DEF Honest, OwnerOf
    <3> QED
      BY <1>1, <1>2, <1>6, <3>1, <3>2 DEF OwnerOf
  <2> QED
    BY <1>1, <2>1, <2>3 DEF Honest
<1> QED
  BY <1>1, <1>7, <1>8, <1>9
     DEF Core, Typed, Sound, NoMortgageUnderBuildings, GroupHasMortgages, BankOwnsBareEstates
\* A card that is used goes to the back of the deck and out of the trades.
LEMMA UseCardCore ==
  ASSUME Core, NEW p \in Players, NEW c \in Ownable, UseCard(p, c)
  PROVE  Core'
<1>1. /\ p \in active /\ holder[c] = p
      /\ holder' = [holder EXCEPT ![c] = Nobody]
      /\ deck' = Append(deck, c)
      /\ trades' = Without(trades, c)
      /\ UNCHANGED <<active, owner, houses, mortgaged, debts>>
  BY DEF UseCard, estateVars
<1>2. /\ deck \in Seq(Cards)
      /\ \A i, j \in DOMAIN deck : deck[i] = deck[j] => i = j
      /\ {deck[i] : i \in DOMAIN deck} = Cards \ {d \in Ownable : holder[d] # Nobody}
      /\ holder \in [Ownable -> active \union {Nobody}]
      /\ p # Nobody /\ c \in Cards
  BY AssetsAssumption DEF Core, DeckSound, CardsInOnePlace, Typed
<1>3. DeckSound'
  <2> DEFINE n == Len(deck)
  <2>1. n \in Nat /\ DOMAIN deck = 1..n
    BY <1>2
  <2>2. /\ deck' \in Seq(Cards) /\ DOMAIN deck' = 1..(n + 1)
        /\ \A i \in 1..n : deck'[i] = deck[i]
        /\ deck'[n + 1] = c
    BY <1>1, <1>2, <2>1
  <2> HIDE DEF n
  <2>3. \A i \in 1..n : deck[i] # c
    BY <1>1, <1>2, <2>1
  <2>4. \A i, j \in DOMAIN deck' : deck'[i] = deck'[j] => i = j
    BY <1>2, <2>1, <2>2, <2>3
  <2>5. {deck'[i] : i \in DOMAIN deck'} = {deck[i] : i \in DOMAIN deck} \union {c}
    <3>1. ASSUME NEW i \in 1..(n + 1)
          PROVE  deck'[i] \in {deck[j] : j \in 1..n} \union {c}
      BY <2>1, <2>2
    <3>2. ASSUME NEW j \in 1..n
          PROVE  \E i \in 1..(n + 1) : deck'[i] = deck[j]
      BY <2>1, <2>2
    <3>3. n + 1 \in 1..(n + 1)
      BY <2>1
    <3> DEFINE new == {deck'[i] : i \in 1..(n + 1)}
    <3>4. new \subseteq {deck[j] : j \in 1..n} \union {c}
      BY <3>1
    <3>5. {deck[j] : j \in 1..n} \subseteq new
      BY <3>2
    <3>6. c \in new
      BY <2>2, <3>3
    <3>7. {deck'[i] : i \in DOMAIN deck'} = new
      BY <2>2
    <3>8. {deck[i] : i \in DOMAIN deck} = {deck[j] : j \in 1..n}
      BY <2>1
    <3> HIDE DEF new
    <3> QED
      BY <3>4, <3>5, <3>6, <3>7, <3>8
  <2>6. {d \in Ownable : holder'[d] # Nobody} = {d \in Ownable : holder[d] # Nobody} \ {c}
    BY <1>1, <1>2
  <2>7. {deck'[i] : i \in DOMAIN deck'} = Cards \ {d \in Ownable : holder'[d] # Nobody}
    BY <1>1, <1>2, <2>5, <2>6
  <2> QED
    BY <2>2, <2>4, <2>7 DEF DeckSound, CardsInOnePlace
<1>4. holder' \in [Ownable -> active \union {Nobody}]
  BY <1>1, <1>2
<1>5. /\ trades' \in [TradeIds -> TradeRecord]
      /\ \A t \in TradeIds : Honest(trades[t])'
  <2>1. c \notin Estates
    BY AssetsAssumption
  <2>2. \A y \in (Estates \union Ownable) \ {c} : OwnerOf(y)' = OwnerOf(y)
    BY <1>1, <1>2, <2>1 DEF OwnerOf
  <2> QED
    BY <1>1, <2>2, WithoutHonest
<1> QED
  BY <1>1, <1>3, <1>4, <1>5
     DEF Core, Typed, Sound, NoMortgageUnderBuildings, GroupHasMortgages, BankOwnsBareEstates

-----------------------------------------------------------------------------
(* Trades *)

\* A step that changes one trade and nothing else keeps the invariant if the trade
\* stays honest.
LEMMA OneTradeCore ==
  ASSUME Core, NEW t \in TradeIds, NEW tr \in TradeRecord, Honest(tr),
         trades' = [trades EXCEPT ![t] = tr], Sound(debts'),
         UNCHANGED <<active, estateVars, cardVars>>
  PROVE  Core'
<1>1. trades \in [TradeIds -> TradeRecord]
  BY DEF Core, Typed
<1>2. trades' \in [TradeIds -> TradeRecord]
  BY <1>1
<1>3. ASSUME NEW u \in TradeIds
      PROVE  Honest(trades[u])'
  <2>1. Honest(trades'[u])
    BY <1>1 DEF Core
  <2> QED
    BY <2>1 DEF Honest, OwnerOf, estateVars, cardVars
<1>4. Sound(debts)'
  BY DEF Sound
<1> QED
  BY <1>2, <1>3, <1>4
     DEF Core, Typed, DeckSound, CardsInOnePlace, NoMortgageUnderBuildings,
         GroupHasMortgages, BankOwnsBareEstates, estateVars, cardVars

\* The commands for a trade keep the invariant: terms stay honest, accepts are free.
LEMMA TradeCommandInv ==
  ASSUME IInv, TradeCommand
  PROVE  IInv'
<1>0. Core
  BY DEF IInv
<1>1. PICK t \in TradeIds :
        \/ \E p, q \in active : NewTrade(p, q, t)
        \/ \E x \in Estates \union Ownable, to \in Owners : SetObject(t, x, to)
        \/ \E from, to \in Players, zero \in BOOLEAN : SetMoney(t, from, to, zero)
        \/ \E p \in trades[t].players : AcceptTrade(p, t)
        \/ RejectTrade(t)
  BY DEF TradeCommand
<1>2. /\ trades \in [TradeIds -> TradeRecord]
      /\ trades[t] \in TradeRecord /\ Honest(trades[t])
      /\ active \subseteq Players
  BY <1>0 DEF Core, Typed
<1>3. completing = NoTrade /\ charges = {}
  BY <1>1 DEF NewTrade, SetObject, SetMoney, AcceptTrade, RejectTrade,
              MayCommand, MayTrade, Idle
<1>4. CASE \E p, q \in active : NewTrade(p, q, t)
  <2>1. PICK p \in active, q \in active : NewTrade(p, q, t)
    BY <1>4
  <2> DEFINE tr == [trades[t] EXCEPT !.players = {p, q}]
  <2>2. trades[t] = Closed /\ trades' = [trades EXCEPT ![t] = tr]
    BY <2>1, <1>2 DEF NewTrade
  <2>3. tr \in TradeRecord /\ Honest(tr)
    BY <2>2, <1>2 DEF Closed, TradeRecord, Honest
  <2>4. UNCHANGED <<active, estateVars, cardVars, debts, loopVars>>
    BY <2>1 DEF NewTrade
  <2> HIDE DEF tr
  <2>5. Core'
    BY <1>0, <2>2, <2>3, <2>4, OneTradeCore DEF Core
  <2> QED
    BY <2>4, <2>5, <1>3 DEF IInv, Loops, loopVars
<1>5. CASE \E x \in Estates \union Ownable, to \in Owners : SetObject(t, x, to)
  <2>1. PICK x \in Estates \union Ownable, to \in Owners : SetObject(t, x, to)
    BY <1>5
  <2> DEFINE tr == UpdateObject(trades[t], x, OwnerOf(x), to)
  <2>2. /\ trades' = [trades EXCEPT ![t] = tr]
        /\ OwnerOf(x) # Nobody /\ to \in active \union {Nobody}
        /\ UNCHANGED <<active, estateVars, cardVars, debts, loopVars>>
    BY <2>1 DEF SetObject
  <2>3. OwnerOf(x) \in active
    BY <1>0, <2>2 DEF Core, Typed, OwnerOf
  <2>4. tr \in TradeRecord /\ Honest(tr)
    BY <1>2, <2>2, <2>3, UpdateObjectHonest DEF Objects
  <2> HIDE DEF tr
  <2>5. Core'
    BY <1>0, <2>2, <2>4, OneTradeCore DEF Core
  <2> QED
    BY <2>2, <2>5, <1>3 DEF IInv, Loops, loopVars
<1>6. CASE \E from, to \in Players, zero \in BOOLEAN : SetMoney(t, from, to, zero)
  <2>1. PICK from \in Players, to \in Players, zero \in BOOLEAN : SetMoney(t, from, to, zero)
    BY <1>6
  <2> DEFINE old == Existing(trades[t], Money, from, to)
             less == ResetAccepts([trades[t] EXCEPT !.comps = @ \ old])
             more == UpdateObject(trades[t], Money, from, to)
             tr == IF zero /\ old # {} THEN less ELSE more
  <2>2. /\ trades' = [trades EXCEPT ![t] = tr]
        /\ {from, to} \subseteq active
        /\ UNCHANGED <<active, estateVars, cardVars, debts, loopVars>>
    BY <2>1 DEF SetMoney
  <2>3. less \in TradeRecord /\ Honest(less)
    BY <1>2 DEF ResetAccepts, TradeRecord, Honest
  <2>4. more \in TradeRecord /\ Honest(more)
    BY <1>2, <2>2, UpdateObjectHonest DEF Objects
  <2>5. tr \in TradeRecord /\ Honest(tr)
    BY <2>3, <2>4
  <2> HIDE DEF tr
  <2>6. Core'
    BY <1>0, <2>2, <2>5, OneTradeCore DEF Core
  <2> QED
    BY <2>2, <2>6, <1>3 DEF IInv, Loops, loopVars
<1>7. CASE \E p \in trades[t].players : AcceptTrade(p, t)
  <2>1. PICK p \in trades[t].players : AcceptTrade(p, t)
    BY <1>7
  <2> DEFINE acc == trades[t].accepted \union {p}
             tr == [trades[t] EXCEPT !.accepted = acc]
  <2>2. /\ trades' = [trades EXCEPT ![t] = tr]
        /\ completing' = IF trades[t].players \subseteq acc THEN t ELSE NoTrade
        /\ UNCHANGED <<active, estateVars, cardVars, debts, charges>>
    BY <2>1, <1>2 DEF AcceptTrade
  <2>3. p \in Players
    BY <1>2 DEF TradeRecord
  <2>4. tr \in TradeRecord /\ Honest(tr)
    BY <1>2, <2>3 DEF TradeRecord, Honest
  <2>5. trades'[t].players = trades[t].players /\ trades'[t].accepted = acc
    BY <1>2, <2>2 DEF TradeRecord
  <2> HIDE DEF tr, acc
  <2>6. Core'
    BY <1>0, <2>2, <2>4, OneTradeCore DEF Core
  <2>7. Loops'
    BY <2>2, <2>5, <1>3 DEF Loops
  <2> QED
    BY <2>6, <2>7 DEF IInv
<1>8. CASE RejectTrade(t)
  <2>1. /\ trades' = [trades EXCEPT ![t] = Closed]
        /\ UNCHANGED <<active, estateVars, cardVars, debts, loopVars>>
    BY <1>8 DEF RejectTrade
  <2>2. Closed \in TradeRecord /\ Honest(Closed)
    BY DEF Closed, TradeRecord, Honest
  <2>3. Core'
    BY <1>0, <2>1, <2>2, OneTradeCore DEF Core
  <2> QED
    BY <2>1, <2>3, <1>3 DEF IInv, Loops, loopVars
<1> QED
  BY <1>1, <1>4, <1>5, <1>6, <1>7, <1>8

\* One component of a completing trade, or its end.
LEMMA CompletionInv ==
  ASSUME IInv, Completion
  PROVE  IInv'
<1>0. Core /\ Loops
  BY DEF IInv
<1> DEFINE t == completing
           tr == trades[t]
<1>1. /\ t \in TradeIds
      /\ trades \in [TradeIds -> TradeRecord]
      /\ tr \in TradeRecord /\ Honest(tr)
      /\ tr.players \subseteq tr.accepted
      /\ active \subseteq Players
  BY <1>0 DEF Completion, Core, Loops, Typed
<1>2. ASSUME NEW c \in tr.comps, c.object # Money, CompleteObject(c)
      PROVE  IInv'
  <2> DEFINE x == c.object
  <2>1. /\ trades' = Without(trades, x)
        /\ IF x \in Estates
           THEN owner' = [owner EXCEPT ![x] = c.to] /\ UNCHANGED cardVars
           ELSE holder' = [holder EXCEPT ![x] = c.to] /\ UNCHANGED <<owner, deck>>
        /\ UNCHANGED <<active, houses, mortgaged, debts, completing, charges>>
    BY <1>2 DEF CompleteObject, loopVars
  <2>2. /\ x \in Estates \union Ownable
        /\ c.from \in active /\ c.to \in active
        /\ OwnerOf(x) = c.from
    BY <1>1, <1>2 DEF TradeRecord, Objects, Honest
  <2>3. /\ owner \in [Estates -> active \union {Nobody}]
        /\ holder \in [Ownable -> active \union {Nobody}]
        /\ Nobody \notin active
    BY <1>0, AssetsAssumption DEF Core, Typed
  <2>4. /\ owner' \in [Estates -> active \union {Nobody}]
        /\ holder' \in [Ownable -> active \union {Nobody}]
        /\ deck' = deck
        /\ \A y \in (Estates \union Ownable) \ {x} : OwnerOf(y)' = OwnerOf(y)
    BY <2>1, <2>2, <2>3 DEF OwnerOf, cardVars
  <2>5. /\ trades' \in [TradeIds -> TradeRecord]
        /\ \A u \in TradeIds : Honest(trades[u])'
    BY <1>0, <2>1, <2>2, <2>4, WithoutHonest
  <2>6. {d \in Ownable : holder'[d] # Nobody} = {d \in Ownable : holder[d] # Nobody}
    BY <2>1, <2>2, <2>3 DEF OwnerOf, cardVars
  <2>7. DeckSound'
    <3>1. DeckSound
      BY <1>0 DEF Core
    <3> QED
      BY <3>1, <2>4, <2>6 DEF DeckSound, CardsInOnePlace
  <2>8. BankOwnsBareEstates'
    <3>1. \A e \in Estates : owner'[e] = Nobody => owner[e] = Nobody
      BY <2>1, <2>2, <2>3 DEF OwnerOf
    <3> QED
      BY <1>0, <2>1, <3>1 DEF Core, BankOwnsBareEstates
  <2>9. Core'
    BY <1>0, <2>1, <2>4, <2>5, <2>7, <2>8
       DEF Core, Typed, Sound, NoMortgageUnderBuildings, GroupHasMortgages
  <2>10. Loops'
    <3>1. trades'[t].players = tr.players /\ trades'[t].accepted = tr.accepted
      BY <1>1, <2>1, WithoutType
    <3> QED
      BY <1>0, <1>1, <2>1, <3>1 DEF Loops
  <2> QED
    BY <2>9, <2>10 DEF IInv
<1>3. ASSUME NEW c \in tr.comps, CompleteMoney(c)
      PROVE  IInv'
  <2> DEFINE less == [tr EXCEPT !.comps = @ \ {c}]
  <2>1. c.from \in active /\ c.to \in active /\ c.from # c.to
    BY <1>1, <1>3 DEF Honest
  <2>2. less \in TradeRecord /\ Honest(less)
    BY <1>1 DEF TradeRecord, Honest
  <2>3. UNCHANGED charges
    BY <1>3 DEF CompleteMoney
  <2>4. CASE /\ trades' = [trades EXCEPT ![t].comps = @ \ {c}]
             /\ UNCHANGED <<active, estateVars, cardVars, completing, dangling>>
             /\ \/ debts' = debts
                \/ debts' = debts \union {[from |-> c.from, to |-> c.to, at |-> NextNumber]}
    <3>1. trades' = [trades EXCEPT ![t] = less]
      BY <1>1, <2>4
    <3>2. trades'[t].players = tr.players /\ trades'[t].accepted = tr.accepted
      BY <1>1, <3>1 DEF TradeRecord
    <3>3. Loops'
      BY <1>0, <1>1, <2>3, <2>4, <3>2 DEF Loops
    <3>4. Sound(debts')
      BY <1>0, <2>1, <2>4 DEF Core, Sound
    <3>5. Core'
      BY <1>0, <1>1, <2>2, <2>4, <3>1, <3>4, OneTradeCore
    <3> QED
      BY <3>3, <3>5 DEF IInv
  <2>5. CASE NewDebt(c.from, c.to, TRUE) /\ completing' = NoTrade
    <3>1. Core'
      BY <1>0, <1>1, <2>1, <2>5, NewDebtCore, AssetsAssumption
    <3>2. Loops'
      BY <1>0, <2>3, <2>5 DEF Loops
    <3> QED
      BY <3>1, <3>2 DEF IInv
  <2> QED
    BY <1>3, <2>4, <2>5 DEF CompleteMoney
<1>4. ASSUME CompleteTrade
      PROVE  IInv'
  <2>1. /\ trades' = [trades EXCEPT ![t] = Closed]
        /\ debts' \subseteq debts
        /\ completing' = NoTrade
        /\ UNCHANGED <<active, estateVars, cardVars, charges>>
    BY <1>4 DEF CompleteTrade
  <2>2. Closed \in TradeRecord /\ Honest(Closed)
    BY DEF Closed, TradeRecord, Honest
  <2>3. Core'
    <3>1. Sound(debts')
      BY <1>0, <2>1 DEF Core, Sound
    <3> QED
      BY <1>0, <1>1, <2>1, <2>2, <3>1, OneTradeCore
  <2>4. Loops'
    BY <1>0, <2>1 DEF Loops
  <2> QED
    BY <2>3, <2>4 DEF IInv
<1> QED
  BY <1>2, <1>3, <1>4 DEF Completion

-----------------------------------------------------------------------------
(* The invariant *)

\* The commands for an estate keep the invariant.
LEMMA EstateCommandInv ==
  ASSUME IInv, EstateCommand
  PROVE  IInv'
<1>1. PICK p \in Players, e \in Estates :
        \/ AcquireEstate(p, e) \/ SellEstate(p, e)
        \/ Mortgage(p, e) \/ Unmortgage(p, e)
        \/ BuyHouse(p, e) \/ SellHouse(p, e)
  BY DEF EstateCommand
<1>2. Core'
  BY <1>1, AcquireEstateCore, SellEstateCore, MortgageCore, HouseCore DEF IInv
<1>3. completing' = NoTrade /\ charges' = {}
  BY <1>1 DEF AcquireEstate, SellEstate, Mortgage, Unmortgage, BuyHouse, SellHouse,
              MayCommand, Idle, loopVars
<1> QED
  BY <1>2, <1>3 DEF IInv, Loops

\* Quitting, owing and settling keep the invariant.
LEMMA LossInv ==
  ASSUME IInv, Loss
  PROVE  IInv'
<1>0. Core
  BY DEF IInv
<1>1. PICK p \in Players :
        \/ Quit(p) \/ Settle(p)
        \/ \E to \in Owners, broke \in BOOLEAN : Owe(p, to, broke)
  BY DEF Loss
<1>2. completing' = NoTrade /\ charges' = {}
  BY <1>1 DEF Quit, Settle, Owe, MayCommand, Idle, loopVars
<1>3. ASSUME Quit(p)
      PROVE  Core'
  <2>1. p \in active /\ Bankrupt(p, debts) /\ Sound(debts)
    BY <1>0, <1>3 DEF Quit, Core
  <2> QED
    BY <1>0, <2>1, BankruptCore
<1>4. ASSUME Settle(p)
      PROVE  Core'
  <2>1. debts' \subseteq debts /\ UNCHANGED <<active, estateVars, cardVars, trades>>
    BY <1>4 DEF Settle, SolveDebts, Settled
  <2>2. Sound(debts)'
    BY <1>0, <2>1, FewerDebtsSound
  <2>3. \A t \in TradeIds : Honest(trades[t])'
    BY <1>0, <2>1 DEF Core, Honest, OwnerOf, estateVars, cardVars
  <2> QED
    BY <1>0, <2>1, <2>2, <2>3
       DEF Core, Typed, DeckSound, CardsInOnePlace, NoMortgageUnderBuildings,
           GroupHasMortgages, BankOwnsBareEstates, estateVars, cardVars
<1>5. ASSUME \E to \in Owners, broke \in BOOLEAN : Owe(p, to, broke)
      PROVE  Core'
  <2>1. PICK to \in Owners, broke \in BOOLEAN : Owe(p, to, broke)
    BY <1>5
  <2> QED
    BY <1>0, <2>1, NewDebtCore, AssetsAssumption DEF Owe
<1> QED
  BY <1>1, <1>2, <1>3, <1>4, <1>5 DEF IInv, Loops

\* Cards drawn and used, and the charges of a card, keep the invariant.
LEMMA CardMoveInv ==
  ASSUME IInv, CardMove
  PROVE  IInv'
<1>0. Core /\ Loops
  BY DEF IInv
<1>1. CASE \E p \in Players : DrawCard(p)
  <2>1. PICK p \in Players : DrawCard(p)
    BY <1>1
  <2>2. /\ \A c \in charges' : c.from \in active /\ c.to \in active /\ c.from # c.to
        /\ completing' = NoTrade
    BY <2>1 DEF DrawCard, Idle
  <2>3. active \subseteq Players
    BY <1>0 DEF Core, Typed
  <2>4. Core'
    BY <1>0, <2>1, DrawCardCore
  <2>5. Loops'
    BY <2>2, <2>3 DEF Loops
  <2> QED
    BY <2>4, <2>5 DEF IInv
<1>2. CASE \E p \in Players, c \in Ownable : UseCard(p, c)
  <2>1. PICK p \in Players, c \in Ownable : UseCard(p, c)
    BY <1>2
  <2>2. Core'
    BY <1>0, <2>1, UseCardCore
  <2>3. completing' = NoTrade /\ charges' = {}
    BY <2>1 DEF UseCard, Idle, loopVars
  <2> QED
    BY <2>2, <2>3 DEF IInv, Loops
<1>3. CASE \E c \in charges : Charge(c)
  <2>1. PICK c \in charges : Charge(c)
    BY <1>3
  <2>2. /\ c.from \in Players /\ c.to \in Players /\ c.from # c.to
        /\ charges' \subseteq charges /\ completing' = NoTrade
    BY <1>0, <2>1 DEF Loops, Charge
  <2>3. CASE UNCHANGED <<active, estateVars, cardVars, debts, trades>>
    <3>1. Core'
      BY <1>0, <2>3 DEF Core, Typed, Sound, Honest, OwnerOf, DeckSound, CardsInOnePlace,
             NoMortgageUnderBuildings, GroupHasMortgages, BankOwnsBareEstates,
             estateVars, cardVars
    <3> QED
      BY <1>0, <2>2, <2>3, <3>1 DEF IInv, Loops
  <2>4. CASE \E broke \in BOOLEAN : NewDebt(c.from, c.to, broke)
    <3>1. Core'
      BY <1>0, <2>2, <2>4, NewDebtCore, AssetsAssumption
    <3> QED
      BY <1>0, <2>2, <3>1 DEF IInv, Loops
  <2> QED
    BY <2>1, <2>3, <2>4 DEF Charge
<1> QED
  BY <1>1, <1>2, <1>3 DEF CardMove

\* The invariant holds at the start.
LEMMA InitInv == Init => IInv
<1> SUFFICES ASSUME Init PROVE IInv
  OBVIOUS
<1> DEFINE n == Cardinality(Cards)
<1>1. n \in Nat
  BY FS_CardinalityType, AssetsAssumption
<1>2. deck \in [1..n -> Cards] /\ (\A c \in Cards : \E i \in 1..n : deck[i] = c)
      /\ (\A i, j \in DOMAIN deck : deck[i] = deck[j] => i = j)
  BY DEF Init, Orders
<1> HIDE DEF n
<1>3. deck \in Seq(Cards) /\ DOMAIN deck = 1..n
  BY <1>1, <1>2
<1>4. {deck[i] : i \in DOMAIN deck} = Cards
  BY <1>2, <1>3
<1>5. {c \in Ownable : holder[c] # Nobody} = {}
  BY DEF Init
<1>6. DeckSound
  BY <1>2, <1>3, <1>4, <1>5 DEF DeckSound, CardsInOnePlace
<1>7. Closed \in TradeRecord /\ Honest(Closed)
  BY DEF Closed, TradeRecord, Honest
<1>8. Typed /\ \A t \in TradeIds : Honest(trades[t])
  BY <1>7 DEF Init, Typed, Hotel
<1> QED
  BY <1>6, <1>8 DEF Init, IInv, Core, Loops, Sound, NoMortgageUnderBuildings,
                   GroupHasMortgages, BankOwnsBareEstates

\* It does not depend on anything but the state.
LEMMA StutterInv == IInv /\ UNCHANGED vars => IInv'
<1> SUFFICES ASSUME IInv, UNCHANGED vars PROVE IInv'
  OBVIOUS
<1> USE DEF vars, estateVars, cardVars, loopVars
<1>1. \A t \in TradeIds : Honest(trades[t])'
  BY DEF IInv, Core, Honest, OwnerOf
<1> QED
  BY <1>1 DEF IInv, Core, Loops, Typed, Sound, DeckSound, CardsInOnePlace,
              NoMortgageUnderBuildings, GroupHasMortgages, BankOwnsBareEstates

\* IInv is an inductive invariant of the specification.
LEMMA Invariance == Spec => []IInv
<1>1. IInv /\ [Next]_vars => IInv'
  BY EstateCommandInv, LossInv, CardMoveInv, TradeCommandInv, CompletionInv, StutterInv
     DEF Next
<1> QED
  BY <1>1, InitInv, PTL DEF Spec

\* Everything has an owner who is in the game.
THEOREM EveryOwnerPlays == Spec => []OwnersPlay
<1>1. IInv => OwnersPlay
  BY DEF IInv, Core, Typed, Honest, Sound, OwnersPlay
<1> QED
  BY <1>1, Invariance, PTL

\* A group is mortgaged or built on, never both.
THEOREM MortgagesAreBare == Spec => []NoMortgageUnderBuildings
<1>1. IInv => NoMortgageUnderBuildings
  BY DEF IInv, Core
<1> QED
  BY <1>1, Invariance, PTL

\* What the bank offers is free of mortgage and buildings.
THEOREM BankEstatesAreBare == Spec => []BankOwnsBareEstates
<1>1. IInv => BankOwnsBareEstates
  BY DEF IInv, Core
<1> QED
  BY <1>1, Invariance, PTL

\* Trades offer objects from their owners, once each.
THEOREM TradesAreHonest == Spec => []ComponentsFromOwners
<1>1. IInv => ComponentsFromOwners
  BY DEF IInv, Core, Honest, ComponentsFromOwners
<1> QED
  BY <1>1, Invariance, PTL

\* A card is in the deck or with one player.
THEOREM CardsAreConserved == Spec => []CardsInOnePlace
<1>1. IInv => CardsInOnePlace
  BY DEF IInv, Core, DeckSound
<1> QED
  BY <1>1, Invariance, PTL

-----------------------------------------------------------------------------
(* Consent *)

\* A bankruptcy takes from the bankrupt alone.
LEMMA BankruptTakes ==
  ASSUME Typed, NEW p, NEW ds, Bankrupt(p, ds),
         NEW x \in Estates \union Ownable, OwnerOf(x)' # OwnerOf(x)
  PROVE  OwnerOf(x) \notin active'
<1>1. /\ active' = active \ {p}
      /\ owner' = [e \in Estates |-> IF owner[e] = p THEN owner'[e] ELSE owner[e]]
      /\ holder' = [c \in Ownable |-> IF holder[c] = p THEN holder'[c] ELSE holder[c]]
  BY DEF Bankrupt
<1>2. OwnerOf(x) = p
  BY <1>1 DEF OwnerOf
<1> QED
  BY <1>1, <1>2

\* Which steps may take an object from a player who goes on playing.
LEMMA StepTakesByConsent ==
  ASSUME IInv, Next, NEW x \in Estates \union Ownable,
         OwnerOf(x) \in active', OwnerOf(x)' \notin {OwnerOf(x), Nobody}
  PROVE  OwnerOf(x) \in trades[completing].accepted
<1>0. /\ Core /\ Loops /\ Typed
      /\ owner \in [Estates -> active \union {Nobody}]
      /\ holder \in [Ownable -> active \union {Nobody}]
      /\ active \subseteq Players /\ Nobody \notin Players
      /\ Estates \intersect Ownable = {}
  BY AssetsAssumption DEF IInv, Core, Typed
<1>1. ~ \E p, ds : Bankrupt(p, ds)
  BY <1>0, BankruptTakes
<1>3. ASSUME UNCHANGED <<owner, holder>>
      PROVE  FALSE
  BY <1>3 DEF OwnerOf
<1>4. ASSUME NEW from, NEW to, NEW broke, NewDebt(from, to, broke)
      PROVE  FALSE
  BY <1>1, <1>3, <1>4 DEF NewDebt, estateVars, cardVars
<1>5. CASE EstateCommand
  <2>1. PICK p \in Players, e \in Estates :
          \/ AcquireEstate(p, e) \/ SellEstate(p, e)
          \/ Mortgage(p, e) \/ Unmortgage(p, e)
          \/ BuyHouse(p, e) \/ SellHouse(p, e)
    BY <1>5 DEF EstateCommand
  <2>2. CASE AcquireEstate(p, e) \/ SellEstate(p, e)
    <3>1. /\ holder' = holder
          /\ active' = active
          /\ \/ owner[e] = Nobody /\ owner' = [owner EXCEPT ![e] = p]
             \/ owner' = [owner EXCEPT ![e] = Nobody]
      BY <2>2 DEF AcquireEstate, SellEstate, cardVars
    <3> QED
      BY <1>0, <3>1 DEF OwnerOf
  <2>3. CASE \/ Mortgage(p, e) \/ Unmortgage(p, e) \/ BuyHouse(p, e) \/ SellHouse(p, e)
    BY <1>3, <2>3 DEF Mortgage, Unmortgage, BuyHouse, SellHouse, cardVars
  <2> QED
    BY <2>1, <2>2, <2>3
<1>6. CASE Loss
  BY <1>1, <1>3, <1>4, <1>6 DEF Loss, Quit, Settle, Owe, estateVars, cardVars
<1>7. CASE CardMove
  <2>1. CASE \E p \in Players : DrawCard(p)
    <3>1. PICK p \in Players : DrawCard(p)
      BY <2>1
    <3>2. /\ owner' = owner /\ deck # <<>> /\ active' = active
          /\ \/ holder' = holder
             \/ \E s \in Shuffled : Head(s) \in Ownable /\ holder' = [holder EXCEPT ![Head(s)] = p]
      BY <3>1 DEF DrawCard, estateVars
    <3>3. ASSUME NEW s \in Shuffled, Head(s) \in Ownable
          PROVE  holder[Head(s)] = Nobody
      <4>1. /\ s \in Seq(Cards) /\ s # <<>>
            /\ {s[i] : i \in DOMAIN s} = {deck[i] : i \in DOMAIN deck}
        BY <1>0, <3>2, ShuffledSound DEF Core, DeckSound, CardsInOnePlace
      <4>2. Head(s) \in {s[i] : i \in DOMAIN s}
        BY <4>1
      <4> QED
        BY <1>0, <3>3, <4>1, <4>2 DEF Core, DeckSound, CardsInOnePlace
    <3> QED
      BY <1>0, <3>2, <3>3 DEF OwnerOf
  <2>2. CASE \E p \in Players, c \in Ownable : UseCard(p, c)
    <3>1. PICK p \in Players, c \in Ownable : UseCard(p, c)
      BY <2>2
    <3>2. owner' = owner /\ holder' = [holder EXCEPT ![c] = Nobody]
      BY <3>1 DEF UseCard, estateVars
    <3> QED
      BY <1>0, <3>2 DEF OwnerOf
  <2>3. CASE \E c \in charges : Charge(c)
    BY <1>3, <1>4, <2>3 DEF Charge, estateVars, cardVars
  <2> QED
    BY <1>7, <2>1, <2>2, <2>3 DEF CardMove
<1>8. CASE TradeCommand
  BY <1>3, <1>8 DEF TradeCommand, NewTrade, SetObject, SetMoney, AcceptTrade, RejectTrade,
                    estateVars, cardVars
<1>9. CASE Completion
  <2> DEFINE tr == trades[completing]
  <2>1. /\ completing \in TradeIds /\ tr \in TradeRecord
        /\ tr.players \subseteq tr.accepted
        /\ Honest(tr)
    BY <1>0, <1>9 DEF Completion, Loops, Core, Typed
  <2>2. ASSUME NEW c \in tr.comps, c.object # Money, CompleteObject(c)
        PROVE  OwnerOf(x) \in tr.accepted
    <3>1. \/ c.object \in Estates /\ owner' = [owner EXCEPT ![c.object] = c.to]
             /\ holder' = holder
          \/ c.object \notin Estates /\ holder' = [holder EXCEPT ![c.object] = c.to]
             /\ owner' = owner
      BY <2>2 DEF CompleteObject, cardVars
    <3>2. x = c.object
      BY <1>0, <3>1 DEF OwnerOf
    <3>3. OwnerOf(x) = c.from /\ c.from \in tr.players
      BY <2>1, <2>2, <3>2 DEF Honest
    <3> QED
      BY <2>1, <3>3
  <2>3. ASSUME NEW c \in tr.comps, CompleteMoney(c)
        PROVE  FALSE
    BY <1>3, <1>4, <2>3 DEF CompleteMoney, estateVars, cardVars
  <2>4. ASSUME CompleteTrade
        PROVE  FALSE
    BY <1>3, <2>4 DEF CompleteTrade, estateVars, cardVars
  <2> QED
    BY <1>9, <2>2, <2>3, <2>4 DEF Completion
<1> QED
  BY <1>5, <1>6, <1>7, <1>8, <1>9 DEF Next

\* Nobody loses an estate or a card to another player while he plays, but in a trade
\* that he has accepted.
THEOREM NothingWithoutConsent == Spec => TakenByConsent
<1> DEFINE A == \A x \in Estates \union Ownable :
                  LET p == OwnerOf(x)
                      new == OwnerOf(x)'
                  IN  p \in active' /\ new \notin {p, Nobody} =>
                        p \in trades[completing].accepted
<1>1. IInv /\ [Next]_vars => [A]_vars
  BY StepTakesByConsent
<1> QED
  BY <1>1, Invariance, PTL DEF Spec, TakenByConsent

-----------------------------------------------------------------------------
(* Accepted terms *)

\* A trade whose terms did not grow, or which nobody has accepted since.
Shrunk(old, new) == \/ new.comps \subseteq old.comps
                    \/ old.accepted \intersect new.accepted = {}

\* A component is added or redirected only with all accept flags down.
LEMMA UpdateObjectShrunk ==
  ASSUME NEW tr \in TradeRecord, NEW x, NEW from, NEW to
  PROVE  Shrunk(tr, UpdateObject(tr, x, from, to))
<1>1. ASSUME NEW players, NEW comps
      PROVE  ResetAccepts([tr EXCEPT !.players = players, !.comps = comps]).accepted = {}
  BY DEF ResetAccepts, TradeRecord
<1>2. ASSUME NEW comps
      PROVE  ResetAccepts([tr EXCEPT !.comps = comps]).accepted = {}
  BY DEF ResetAccepts, TradeRecord
<1> QED
  BY <1>1, <1>2 DEF Shrunk, UpdateObject

\* A bankruptcy closes trades or takes components out of them.
LEMMA BankruptShrunk ==
  ASSUME Typed, NEW p, NEW ds, Bankrupt(p, ds), NEW t \in TradeIds
  PROVE  Shrunk(trades[t], trades'[t])
<1>1. trades' = Rejected(p) /\ trades[t] \in TradeRecord
  BY DEF Bankrupt, Typed
<1> QED
  BY <1>1 DEF Rejected, Shrunk, Closed, TradeRecord

\* Every step shrinks the terms of a trade or drops the accepts.
LEMMA StepShrinks ==
  ASSUME IInv, Next, NEW t \in TradeIds
  PROVE  Shrunk(trades[t], trades'[t])
<1>0. /\ Typed /\ Loops
      /\ trades \in [TradeIds -> TradeRecord] /\ trades[t] \in TradeRecord
  BY DEF IInv, Core, Typed
<1>1. ASSUME trades'[t] = trades[t]
      PROVE  Shrunk(trades[t], trades'[t])
  BY <1>1 DEF Shrunk
<1>2. ASSUME NEW x, trades' = Without(trades, x)
      PROVE  Shrunk(trades[t], trades'[t])
  BY <1>0, <1>2, WithoutType DEF Shrunk
<1>3. ASSUME NEW from, NEW to, NEW broke, NewDebt(from, to, broke)
      PROVE  Shrunk(trades[t], trades'[t])
  BY <1>0, <1>1, <1>3, BankruptShrunk DEF NewDebt
<1>4. ASSUME NEW u \in TradeIds, NEW new, trades' = [trades EXCEPT ![u] = new],
             Shrunk(trades[u], new)
      PROVE  Shrunk(trades[t], trades'[t])
  BY <1>0, <1>1, <1>4
<1>5. CASE EstateCommand
  BY <1>1, <1>2, <1>5
     DEF EstateCommand, AcquireEstate, SellEstate, Mortgage, Unmortgage, BuyHouse, SellHouse
<1>6. CASE Loss
  BY <1>0, <1>1, <1>3, <1>6, BankruptShrunk DEF Loss, Quit, Settle, Owe
<1>7. CASE CardMove
  BY <1>1, <1>2, <1>3, <1>7 DEF CardMove, DrawCard, UseCard, Charge
<1>8. CASE TradeCommand
  <2>1. PICK u \in TradeIds :
          \/ \E p, q \in active : NewTrade(p, q, u)
          \/ \E x \in Estates \union Ownable, to \in Owners : SetObject(u, x, to)
          \/ \E from, to \in Players, zero \in BOOLEAN : SetMoney(u, from, to, zero)
          \/ \E p \in trades[u].players : AcceptTrade(p, u)
          \/ RejectTrade(u)
    BY <1>8 DEF TradeCommand
  <2>2. trades[u] \in TradeRecord
    BY <1>0
  <2>3. CASE \E p, q \in active : NewTrade(p, q, u)
    <3>1. PICK p \in active, q \in active : NewTrade(p, q, u)
      BY <2>3
    <3>2. trades' = [trades EXCEPT ![u] = [trades[u] EXCEPT !.players = {p, q}]]
      BY <3>1, <1>0 DEF NewTrade
    <3>3. Shrunk(trades[u], [trades[u] EXCEPT !.players = {p, q}])
      BY <2>2 DEF Shrunk, TradeRecord
    <3> QED
      BY <1>4, <3>2, <3>3
  <2>4. CASE \E x \in Estates \union Ownable, to \in Owners : SetObject(u, x, to)
    BY <1>4, <2>2, <2>4, UpdateObjectShrunk DEF SetObject
  <2>5. CASE \E from, to \in Players, zero \in BOOLEAN : SetMoney(u, from, to, zero)
    <3>1. PICK from \in Players, to \in Players, zero \in BOOLEAN : SetMoney(u, from, to, zero)
      BY <2>5
    <3> DEFINE less == ResetAccepts([trades[u] EXCEPT
                         !.comps = @ \ Existing(trades[u], Money, from, to)])
               more == UpdateObject(trades[u], Money, from, to)
    <3>2. Shrunk(trades[u], less)
      BY <2>2 DEF ResetAccepts, Shrunk, TradeRecord
    <3>3. Shrunk(trades[u], more)
      BY <2>2, UpdateObjectShrunk
    <3>4. \E new \in {less, more} : trades' = [trades EXCEPT ![u] = new]
      BY <3>1 DEF SetMoney
    <3> QED
      BY <1>4, <3>2, <3>3, <3>4
  <2>6. CASE \E p \in trades[u].players : AcceptTrade(p, u)
    <3>1. PICK p \in trades[u].players : AcceptTrade(p, u)
      BY <2>6
    <3> DEFINE new == [trades[u] EXCEPT !.accepted = trades[u].accepted \union {p}]
    <3>2. trades' = [trades EXCEPT ![u] = new]
      BY <3>1, <1>0 DEF AcceptTrade
    <3>3. Shrunk(trades[u], new)
      BY <2>2 DEF Shrunk, TradeRecord
    <3> QED
      BY <1>4, <3>2, <3>3
  <2>7. CASE RejectTrade(u)
    BY <1>4, <2>7 DEF RejectTrade, Shrunk, Closed
  <2> QED
    BY <2>1, <2>3, <2>4, <2>5, <2>6, <2>7
<1>9. CASE Completion
  <2>1. completing \in TradeIds /\ trades[completing] \in TradeRecord
    BY <1>0, <1>9 DEF Completion, Loops
  <2>2. ASSUME NEW c \in trades[completing].comps, CompleteObject(c)
        PROVE  Shrunk(trades[t], trades'[t])
    BY <1>2, <2>2 DEF CompleteObject
  <2>3. ASSUME NEW c \in trades[completing].comps, CompleteMoney(c)
        PROVE  Shrunk(trades[t], trades'[t])
    <3> DEFINE paid == [trades[completing] EXCEPT !.comps = trades[completing].comps \ {c}]
    <3>1. \/ trades' = [trades EXCEPT ![completing] = paid]
          \/ NewDebt(c.from, c.to, TRUE)
      BY <2>1, <2>3, <1>0 DEF CompleteMoney
    <3>2. Shrunk(trades[completing], paid)
      BY <2>1 DEF Shrunk, TradeRecord
    <3> QED
      BY <1>3, <1>4, <2>1, <3>1, <3>2
  <2>4. ASSUME CompleteTrade
        PROVE  Shrunk(trades[t], trades'[t])
    BY <1>4, <2>1, <2>4 DEF CompleteTrade, Shrunk, Closed
  <2> QED
    BY <1>9, <2>2, <2>3, <2>4 DEF Completion
<1> QED
  BY <1>5, <1>6, <1>7, <1>8, <1>9 DEF Next

\* While an accept stands, the accepted terms lose components and gain none.
THEOREM AcceptedTermsShrink == Spec => AcceptedTermsOnlyShrink
<1> DEFINE A == \A t \in TradeIds :
                  trades[t].accepted \intersect trades'[t].accepted # {} =>
                    trades'[t].comps \subseteq trades[t].comps
<1>1. IInv /\ [Next]_vars => [A]_vars
  <2>1. ASSUME IInv, Next
        PROVE  A
    BY <2>1, StepShrinks DEF Shrunk
  <2> QED
    BY <2>1
<1> QED
  BY <1>1, Invariance, PTL DEF Spec, AcceptedTermsOnlyShrink

-----------------------------------------------------------------------------
(* Sums *)

\* the houses of S one by one, numbered on each estate
Floors(f, S) == {c \in S \X (1..Hotel) : c[2] <= f[c[1]]}

\* an element of a set, and the recursion that adds up f over it
Pick(s) == CHOOSE x \in s : TRUE
Adds(f, S, iter) ==
  iter = [s \in SUBSET S |-> IF s = {} THEN 0 ELSE f[Pick(s)] + iter[s \ {Pick(s)}]]

\* Sum is the value for S of some function that satisfies the recursion.
LEMMA SumUnfolds ==
  ASSUME NEW f, NEW S
  PROVE  Sum(f, S) = (CHOOSE iter : Adds(f, S, iter))[S]
  BY DEF Sum, MapThenSumSet, MapThenFoldSet, Adds, Pick

\* There are finitely many houses.
LEMMA FloorsFinite ==
  ASSUME NEW f, NEW S, IsFiniteSet(S)
  PROVE  IsFiniteSet(Floors(f, S)) /\ Cardinality(Floors(f, S)) \in Nat
<1>1. IsFiniteSet(1..Hotel)
  <2>1. 1 \in Int /\ Hotel \in Int
    BY DEF Hotel
  <2> QED
    BY <2>1, FS_Interval
<1>2. IsFiniteSet(S \X (1..Hotel))
  BY <1>1, FS_Product
<1>3. Floors(f, S) \subseteq S \X (1..Hotel)
  BY DEF Floors
<1>4. IsFiniteSet(Floors(f, S))
  BY <1>2, <1>3, FS_Subset
<1> QED
  BY <1>4, FS_CardinalityType

\* There are n pairs of x with a number up to n.
LEMMA OneColumn ==
  ASSUME NEW x, NEW n \in Nat
  PROVE  IsFiniteSet({x} \X (1..n)) /\ Cardinality({x} \X (1..n)) = n
<1>1. IsFiniteSet({x}) /\ Cardinality({x}) = 1
  BY FS_Singleton
<1>2. IsFiniteSet(1..n) /\ Cardinality(1..n) = n
  BY FS_Interval
<1>3. /\ IsFiniteSet({x} \X (1..n))
      /\ Cardinality({x} \X (1..n)) = Cardinality({x}) * Cardinality(1..n)
  BY <1>1, <1>2, FS_Product
<1> QED
  BY <1>1, <1>2, <1>3

\* The cardinality of a disjoint union.
LEMMA DisjointUnion ==
  ASSUME NEW S, NEW T, IsFiniteSet(S), IsFiniteSet(T), S \intersect T = {}
  PROVE  /\ IsFiniteSet(S \union T)
         /\ Cardinality(S \union T) = Cardinality(S) + Cardinality(T)
         /\ Cardinality(S) \in Nat /\ Cardinality(T) \in Nat
<1>1. /\ IsFiniteSet(S \union T)
      /\ Cardinality(S \union T) = Cardinality(S) + Cardinality(T) - Cardinality(S \intersect T)
  BY FS_Union
<1>2. Cardinality(S \intersect T) = 0
  BY FS_EmptySet
<1>3. Cardinality(S) \in Nat /\ Cardinality(T) \in Nat
  BY FS_CardinalityType
<1> QED
  BY <1>1, <1>2, <1>3

\* The houses of S are those of x and those of the others.
LEMMA FloorsSplit ==
  ASSUME NEW f, NEW S, IsFiniteSet(S), NEW x \in S, f[x] \in 0..Hotel
  PROVE  Cardinality(Floors(f, S)) = f[x] + Cardinality(Floors(f, S \ {x}))
<1>1. Floors(f, S) = ({x} \X (1..f[x])) \union Floors(f, S \ {x})
  <2>1. ASSUME NEW c \in Floors(f, S)
        PROVE  c \in ({x} \X (1..f[x])) \union Floors(f, S \ {x})
    BY <2>1 DEF Floors, Hotel
  <2>2. ASSUME NEW c \in {x} \X (1..f[x])
        PROVE  c \in Floors(f, S)
    BY <2>2 DEF Floors, Hotel
  <2>3. Floors(f, S \ {x}) \subseteq Floors(f, S)
    BY DEF Floors
  <2> QED
    BY <2>1, <2>2, <2>3
<1>2. ({x} \X (1..f[x])) \intersect Floors(f, S \ {x}) = {}
  BY DEF Floors
<1>3. f[x] \in Nat
  BY DEF Hotel
<1>4. IsFiniteSet({x} \X (1..f[x])) /\ Cardinality({x} \X (1..f[x])) = f[x]
  BY <1>3, OneColumn
<1>5. IsFiniteSet(S \ {x})
  BY FS_RemoveElement
<1>6. IsFiniteSet(Floors(f, S \ {x}))
  BY <1>5, FloorsFinite
<1> QED
  BY <1>1, <1>2, <1>4, <1>6, DisjointUnion

\* What a sum of houses is: their number.
LEMMA SumCounts ==
  ASSUME NEW f, NEW S, IsFiniteSet(S), \A x \in S : f[x] \in 0..Hotel
  PROVE  Sum(f, S) = Cardinality(Floors(f, S))
<1> DEFINE Count == [s \in SUBSET S |-> Cardinality(Floors(f, s))]
<1>1. ASSUME NEW s \in SUBSET S
      PROVE  Count[s] = IF s = {} THEN 0 ELSE f[Pick(s)] + Count[s \ {Pick(s)}]
  <2>1. CASE s = {}
    <3>1. Floors(f, s) = {}
      BY <2>1 DEF Floors
    <3> QED
      BY <2>1, <3>1, FS_EmptySet
  <2>2. CASE s # {}
    <3>1. Pick(s) \in s
      BY <2>2 DEF Pick
    <3>2. IsFiniteSet(s)
      BY FS_Subset
    <3>3. Cardinality(Floors(f, s)) = f[Pick(s)] + Cardinality(Floors(f, s \ {Pick(s)}))
      BY <3>1, <3>2, FloorsSplit
    <3>4. s \ {Pick(s)} \in SUBSET S
      OBVIOUS
    <3> QED
      BY <2>2, <3>3, <3>4
  <2> QED
    BY <2>1, <2>2
<1>2. Adds(f, S, Count)
  BY <1>1 DEF Adds
<1>3. ASSUME NEW iter, Adds(f, S, iter)
      PROVE  iter[S] = Count[S]
  <2> DEFINE Bad == {s \in SUBSET S : iter[s] # Count[s]}
  <2>1. ASSUME NEW s \in SUBSET S
        PROVE  iter[s] = IF s = {} THEN 0 ELSE f[Pick(s)] + iter[s \ {Pick(s)}]
    BY <1>3 DEF Adds
  <2> HIDE DEF Count
  <2>2. CASE Bad # {}
    <3>1. IsWellFoundedOn(StrictSubsetOrdering(S), SUBSET S)
      BY FS_StrictSubsetOrderingWellFounded, FS_FiniteSubsetsOfFinite
    <3>2. PICK s \in Bad : \A r \in Bad : ~(<<r, s>> \in StrictSubsetOrdering(S))
      BY <2>2, <3>1, WFMin
    <3>3. s # {}
      BY <1>1, <2>1, <3>2
    <3>4. Pick(s) \in s
      BY <3>3 DEF Pick
    <3> DEFINE r == s \ {Pick(s)}
    <3>5. r \in SUBSET S /\ <<r, s>> \in StrictSubsetOrdering(S)
      <4>1. r \in SUBSET S /\ s \in SUBSET S /\ r \subseteq s /\ r # s
        BY <3>2, <3>4
      <4> HIDE DEF r
      <4> QED
        BY <4>1 DEF StrictSubsetOrdering
    <3>6. iter[r] = Count[r]
      BY <3>2, <3>5
    <3> QED
      BY <1>1, <2>1, <3>2, <3>3, <3>6
  <2>3. CASE Bad = {}
    BY <2>3
  <2> QED
    BY <2>2, <2>3
<1>4. Adds(f, S, CHOOSE iter : Adds(f, S, iter))
  BY <1>2
<1>5. Count[S] = Cardinality(Floors(f, S))
  OBVIOUS
<1> HIDE DEF Count
<1> QED
  BY <1>3, <1>4, <1>5, SumUnfolds

-----------------------------------------------------------------------------
(* The stock of houses and hotels *)

\* the estates with a hotel, and the houses on the others
HotelsOn(h) == {e \in Estates : h[e] = Hotel}
HousesOn(h) == Floors(h, Estates \ HotelsOn(h))

\* What is out on the estates, as StockConserved counts it.
LEMMA HousesCounted ==
  ASSUME NEW h \in [Estates -> 0..Hotel]
  PROVE  /\ Sum(h, Estates \ HotelsOn(h)) = Cardinality(HousesOn(h))
         /\ IsFiniteSet(HousesOn(h)) /\ Cardinality(HousesOn(h)) \in Nat
         /\ IsFiniteSet(HotelsOn(h)) /\ Cardinality(HotelsOn(h)) \in Nat
<1>1. IsFiniteSet(Estates \ HotelsOn(h)) /\ IsFiniteSet(HotelsOn(h))
  <2>1. HotelsOn(h) \in SUBSET Estates
    BY DEF HotelsOn
  <2> QED
    BY <2>1, FS_Subset, FS_Difference, AssetsAssumption
<1>2. \A x \in Estates \ HotelsOn(h) : h[x] \in 0..Hotel
  OBVIOUS
<1> QED
  BY <1>1, <1>2, SumCounts, FloorsFinite, FS_CardinalityType DEF HousesOn

\* An estate has its houses or its hotel, and the others have the rest.
LEMMA EstateCounted ==
  ASSUME NEW h \in [Estates -> 0..Hotel], NEW e \in Estates
  PROVE  /\ Cardinality(HousesOn(h)) =
              (IF h[e] = Hotel THEN 0 ELSE h[e])
              + Cardinality(Floors(h, (Estates \ HotelsOn(h)) \ {e}))
         /\ Cardinality(Floors(h, (Estates \ HotelsOn(h)) \ {e})) \in Nat
         /\ Cardinality(HotelsOn(h)) =
              (IF h[e] = Hotel THEN 1 ELSE 0) + Cardinality(HotelsOn(h) \ {e})
         /\ Cardinality(HotelsOn(h) \ {e}) \in Nat
<1> DEFINE low == Estates \ HotelsOn(h)
<1>1. IsFiniteSet(low) /\ IsFiniteSet(HotelsOn(h))
  <2>1. HotelsOn(h) \in SUBSET Estates
    BY DEF HotelsOn
  <2> QED
    BY <2>1, FS_Subset, FS_Difference, AssetsAssumption
<1>2. /\ IsFiniteSet(low \ {e}) /\ IsFiniteSet(HotelsOn(h) \ {e})
      /\ Cardinality(HotelsOn(h) \ {e}) =
           IF e \in HotelsOn(h) THEN Cardinality(HotelsOn(h)) - 1 ELSE Cardinality(HotelsOn(h))
  BY <1>1, FS_RemoveElement
<1>3. /\ Cardinality(HotelsOn(h)) \in Nat /\ Cardinality(HotelsOn(h) \ {e}) \in Nat
      /\ Cardinality(Floors(h, low \ {e})) \in Nat
  BY <1>1, <1>2, FS_CardinalityType, FloorsFinite
<1>4. e \in HotelsOn(h) <=> h[e] = Hotel
  BY DEF HotelsOn
<1>5. CASE h[e] = Hotel
  <2>1. low \ {e} = low
    BY <1>4, <1>5
  <2> QED
    BY <1>2, <1>3, <1>4, <1>5, <2>1 DEF HousesOn
<1>6. CASE h[e] # Hotel
  <2>1. e \in low /\ h[e] \in 0..Hotel
    BY <1>4, <1>6
  <2>2. Cardinality(Floors(h, low)) = h[e] + Cardinality(Floors(h, low \ {e}))
    BY <1>1, <2>1, FloorsSplit
  <2> QED
    BY <1>2, <1>3, <1>4, <1>6, <2>2 DEF HousesOn
<1> QED
  BY <1>5, <1>6

\* Two cities that differ on one estate.
LEMMA OneEstateChanged ==
  ASSUME NEW h \in [Estates -> 0..Hotel], NEW g \in [Estates -> 0..Hotel],
         NEW e \in Estates, \A f \in Estates \ {e} : g[f] = h[f]
  PROVE  \E a, b \in Nat :
           /\ Cardinality(HousesOn(h)) = (IF h[e] = Hotel THEN 0 ELSE h[e]) + a
           /\ Cardinality(HousesOn(g)) = (IF g[e] = Hotel THEN 0 ELSE g[e]) + a
           /\ Cardinality(HotelsOn(h)) = (IF h[e] = Hotel THEN 1 ELSE 0) + b
           /\ Cardinality(HotelsOn(g)) = (IF g[e] = Hotel THEN 1 ELSE 0) + b
<1>1. HotelsOn(h) \ {e} = HotelsOn(g) \ {e}
  BY DEF HotelsOn
<1>2. (Estates \ HotelsOn(h)) \ {e} = (Estates \ HotelsOn(g)) \ {e}
  BY <1>1
<1> DEFINE rest == (Estates \ HotelsOn(h)) \ {e}
<1>3. Floors(h, rest) = Floors(g, rest)
  <2>1. \A f \in rest : g[f] = h[f]
    OBVIOUS
  <2> HIDE DEF rest
  <2> QED
    BY <2>1 DEF Floors
<1> DEFINE a == Cardinality(Floors(h, rest))
           b == Cardinality(HotelsOn(h) \ {e})
<1>4. /\ Cardinality(HousesOn(h)) = (IF h[e] = Hotel THEN 0 ELSE h[e]) + a
      /\ Cardinality(HotelsOn(h)) = (IF h[e] = Hotel THEN 1 ELSE 0) + b
      /\ a \in Nat /\ b \in Nat
  BY EstateCounted
<1>5. /\ Cardinality(HousesOn(g)) = (IF g[e] = Hotel THEN 0 ELSE g[e])
                                     + Cardinality(Floors(g, (Estates \ HotelsOn(g)) \ {e}))
      /\ Cardinality(HotelsOn(g)) = (IF g[e] = Hotel THEN 1 ELSE 0)
                                     + Cardinality(HotelsOn(g) \ {e})
  BY EstateCounted
<1>6. Floors(g, (Estates \ HotelsOn(g)) \ {e}) = Floors(h, rest)
  BY <1>2, <1>3
<1>7. /\ Cardinality(HousesOn(g)) = (IF g[e] = Hotel THEN 0 ELSE g[e]) + a
      /\ Cardinality(HotelsOn(g)) = (IF g[e] = Hotel THEN 1 ELSE 0) + b
  BY <1>1, <1>5, <1>6
<1> HIDE DEF a, b
<1> QED
  BY <1>4, <1>7

\* A part of the city is torn down.
LEMMA EstatesEmptied ==
  ASSUME NEW h \in [Estates -> 0..Hotel], NEW g \in [Estates -> 0..Hotel],
         NEW E \in SUBSET Estates,
         \A f \in Estates : g[f] = IF f \in E THEN 0 ELSE h[f]
  PROVE  LET high == {e \in E : h[e] = Hotel}
         IN  /\ Cardinality(HotelsOn(h)) = Cardinality(HotelsOn(g)) + Cardinality(high)
             /\ Cardinality(HousesOn(h)) = Cardinality(HousesOn(g)) + Sum(h, E \ high)
             /\ Sum(h, E \ high) \in Nat /\ Cardinality(high) \in Nat
<1> DEFINE high == {e \in E : h[e] = Hotel}
           low  == E \ high
<1>1. HotelsOn(h) = HotelsOn(g) \union high /\ HotelsOn(g) \intersect high = {}
  BY DEF HotelsOn, Hotel
<1>2. HousesOn(h) = HousesOn(g) \union Floors(h, low)
  <2>1. ASSUME NEW c \in HousesOn(h)
        PROVE  c \in HousesOn(g) \union Floors(h, low)
    <3>1. /\ c \in Estates \X (1..Hotel) /\ c[2] <= h[c[1]]
          /\ c[1] \in Estates /\ h[c[1]] # Hotel
      BY <2>1 DEF HousesOn, HotelsOn, Floors
    <3>2. CASE c[1] \in E
      BY <3>1, <3>2 DEF Floors
    <3>3. CASE c[1] \notin E
      <4>1. g[c[1]] = h[c[1]]
        BY <3>1, <3>3
      <4> QED
        BY <3>1, <4>1 DEF HousesOn, HotelsOn, Floors
    <3> QED
      BY <3>2, <3>3
  <2>2. ASSUME NEW c \in HousesOn(g)
        PROVE  c \in HousesOn(h)
    <3>1. /\ c \in Estates \X (1..Hotel) /\ c[2] <= g[c[1]]
          /\ c[1] \in Estates /\ g[c[1]] # Hotel
      BY <2>2 DEF HousesOn, HotelsOn, Floors
    <3>2. c[2] \in 1..Hotel
      BY <3>1
    <3>3. c[1] \notin E
      BY <3>1, <3>2
    <3>4. g[c[1]] = h[c[1]]
      BY <3>1, <3>3
    <3> QED
      BY <3>1, <3>4 DEF HousesOn, HotelsOn, Floors
  <2>3. ASSUME NEW c \in Floors(h, low)
        PROVE  c \in HousesOn(h)
    BY <2>3 DEF HousesOn, HotelsOn, Floors
  <2> QED
    BY <2>1, <2>2, <2>3
<1>3. HousesOn(g) \intersect Floors(h, low) = {}
  BY DEF HousesOn, HotelsOn, Floors
<1>4. IsFiniteSet(low) /\ IsFiniteSet(high)
  BY FS_Subset, AssetsAssumption
<1>5. \A x \in low : h[x] \in 0..Hotel
  OBVIOUS
<1> HIDE DEF high, low
<1>6. /\ Sum(h, low) = Cardinality(Floors(h, low)) /\ IsFiniteSet(Floors(h, low))
      /\ Cardinality(Floors(h, low)) \in Nat
  BY <1>4, <1>5, SumCounts, FloorsFinite
<1>7. /\ Cardinality(HotelsOn(h)) = Cardinality(HotelsOn(g)) + Cardinality(high)
      /\ Cardinality(high) \in Nat
  BY <1>1, <1>4, HousesCounted, DisjointUnion
<1>8. Cardinality(HousesOn(h)) = Cardinality(HousesOn(g)) + Cardinality(Floors(h, low))
  BY <1>2, <1>3, <1>6, HousesCounted, DisjointUnion
<1> QED
  BY <1>6, <1>7, <1>8 DEF high, low

\* what the bank has
Stocked == stock \in [houses : Nat, hotels : Nat] /\ StockConserved

\* The same by number.
LEMMA StockCounted ==
  ASSUME houses \in [Estates -> 0..Hotel]
  PROVE  StockConserved <=>
           (~UnlimitedHouses =>
              /\ stock.hotels + Cardinality(HotelsOn(houses)) = HotelStock
              /\ stock.houses + Cardinality(HousesOn(houses)) = HouseStock)
BY HousesCounted DEF StockConserved, HotelsOn

\* And after a step.
LEMMA StockCountedNext ==
  ASSUME houses' \in [Estates -> 0..Hotel]
  PROVE  StockConserved' <=>
           (~UnlimitedHouses =>
              /\ stock'.hotels + Cardinality(HotelsOn(houses')) = HotelStock
              /\ stock'.houses + Cardinality(HousesOn(houses')) = HouseStock)
BY HousesCounted DEF StockConserved, HotelsOn

\* A house is taken from the stock or returned, four of them for a hotel.
LEMMA HouseStocked ==
  ASSUME houses \in [Estates -> 0..Hotel], Stocked, NEW p, NEW e \in Estates,
         BuyHouse(p, e) \/ SellHouse(p, e)
  PROVE  Stocked'
<1> DEFINE n == houses[e]
<1>1. CASE UnlimitedHouses
  BY <1>1 DEF BuyHouse, SellHouse, StockTaken, StockReturned, Stocked, StockConserved
<1>2. CASE ~UnlimitedHouses
  <2>1. /\ n \in 0..5 /\ stock.houses \in Nat /\ stock.hotels \in Nat
        /\ stock = [houses |-> stock.houses, hotels |-> stock.hotels]
    BY DEF Stocked, Hotel
  <2>2. \/ /\ n < 4 /\ stock.houses # 0 /\ houses' = [houses EXCEPT ![e] = n + 1]
           /\ stock' = [houses |-> stock.houses - 1, hotels |-> stock.hotels]
        \/ /\ n = 4 /\ stock.hotels # 0 /\ houses' = [houses EXCEPT ![e] = n + 1]
           /\ stock' = [houses |-> stock.houses + 4, hotels |-> stock.hotels - 1]
        \/ /\ n = 5 /\ stock.houses >= 4 /\ houses' = [houses EXCEPT ![e] = n - 1]
           /\ stock' = [houses |-> stock.houses - 4, hotels |-> stock.hotels + 1]
        \/ /\ n \in 1..4 /\ houses' = [houses EXCEPT ![e] = n - 1]
           /\ stock' = [houses |-> stock.houses + 1, hotels |-> stock.hotels]
    <3>1. CASE BuyHouse(p, e)
      <4>1. /\ n # 5 /\ (IF n < 4 THEN stock.houses # 0 ELSE stock.hotels # 0)
            /\ houses' = [houses EXCEPT ![e] = n + 1]
            /\ stock' = IF n + 1 = 5
                        THEN [houses |-> stock.houses + 4, hotels |-> stock.hotels - 1]
                        ELSE [stock EXCEPT !.houses = @ - 1]
        BY <1>2, <3>1 DEF BuyHouse, StockTaken, Hotel
      <4>2. [stock EXCEPT !.houses = @ - 1] =
              [houses |-> stock.houses - 1, hotels |-> stock.hotels]
        BY <2>1
      <4> QED
        BY <2>1, <4>1, <4>2
    <3>2. CASE SellHouse(p, e)
      <4>1. /\ n # 0 /\ (n # 5 \/ stock.houses >= 4)
            /\ houses' = [houses EXCEPT ![e] = n - 1]
            /\ stock' = IF n = 5
                        THEN [houses |-> stock.houses - 4, hotels |-> stock.hotels + 1]
                        ELSE [stock EXCEPT !.houses = @ + 1]
        BY <1>2, <3>2 DEF SellHouse, StockReturned, Hotel
      <4>2. [stock EXCEPT !.houses = @ + 1] =
              [houses |-> stock.houses + 1, hotels |-> stock.hotels]
        BY <2>1
      <4> QED
        BY <2>1, <4>1, <4>2
    <3> QED
      BY <3>1, <3>2
  <2>3. stock' \in [houses : Nat, hotels : Nat]
    BY <2>1, <2>2
  <2>4. /\ houses' \in [Estates -> 0..Hotel] /\ \A f \in Estates \ {e} : houses'[f] = houses[f]
        /\ \/ n < 4 /\ houses'[e] = n + 1
           \/ n = 4 /\ houses'[e] = n + 1
           \/ n = 5 /\ houses'[e] = n - 1
           \/ n \in 1..4 /\ houses'[e] = n - 1
    BY <2>1, <2>2 DEF Hotel
  <2>5. PICK a, b \in Nat :
           /\ Cardinality(HousesOn(houses)) = (IF n = 5 THEN 0 ELSE n) + a
           /\ Cardinality(HousesOn(houses')) = (IF houses'[e] = 5 THEN 0 ELSE houses'[e]) + a
           /\ Cardinality(HotelsOn(houses)) = (IF n = 5 THEN 1 ELSE 0) + b
           /\ Cardinality(HotelsOn(houses')) = (IF houses'[e] = 5 THEN 1 ELSE 0) + b
    BY <2>4, OneEstateChanged DEF Hotel
  <2>6. /\ stock.hotels + Cardinality(HotelsOn(houses)) = HotelStock
        /\ stock.houses + Cardinality(HousesOn(houses)) = HouseStock
    BY <1>2, StockCounted DEF Stocked
  <2>7. /\ stock'.hotels + Cardinality(HotelsOn(houses')) = HotelStock
        /\ stock'.houses + Cardinality(HousesOn(houses')) = HouseStock
    <3>1. houses'[e] \in Nat
      BY <2>1, <2>4
    <3> HIDE DEF n
    <3>2. CASE /\ n < 4 /\ houses' = [houses EXCEPT ![e] = n + 1]
               /\ stock' = [houses |-> stock.houses - 1, hotels |-> stock.hotels]
      <4>1. houses'[e] = n + 1
        BY <3>2
      <4> QED
        BY <2>1, <2>5, <2>6, <3>1, <3>2, <4>1
    <3>3. CASE /\ n = 4 /\ houses' = [houses EXCEPT ![e] = n + 1]
               /\ stock' = [houses |-> stock.houses + 4, hotels |-> stock.hotels - 1]
      <4>1. houses'[e] = 5
        BY <3>3
      <4> QED
        BY <2>1, <2>5, <2>6, <3>1, <3>3, <4>1
    <3>4. CASE /\ n = 5 /\ houses' = [houses EXCEPT ![e] = n - 1]
               /\ stock' = [houses |-> stock.houses - 4, hotels |-> stock.hotels + 1]
      <4>1. houses'[e] = 4
        BY <3>4
      <4> QED
        BY <2>1, <2>5, <2>6, <3>1, <3>4, <4>1
    <3>5. CASE /\ n \in 1..4 /\ houses' = [houses EXCEPT ![e] = n - 1]
               /\ stock' = [houses |-> stock.houses + 1, hotels |-> stock.hotels]
      <4>1. houses'[e] = n - 1
        BY <3>5
      <4> QED
        BY <2>1, <2>5, <2>6, <3>1, <3>5, <4>1
    <3> QED
      BY <2>2, <3>2, <3>3, <3>4, <3>5
  <2> QED
    BY <2>3, <2>4, <2>7, StockCountedNext DEF Stocked
<1> QED
  BY <1>1, <1>2

\* A bankruptcy breaks up all buildings and returns them.
LEMMA BankruptStocked ==
  ASSUME houses \in [Estates -> 0..Hotel], Stocked, NEW p, NEW ds, Bankrupt(p, ds)
  PROVE  Stocked'
<1> DEFINE E == EstatesOf(p)
           high == {e \in E : houses[e] = Hotel}
<1>1. /\ houses' = [e \in Estates |-> IF owner[e] = p THEN 0 ELSE houses[e]]
      /\ stock' = StockFreed(p)
  BY DEF Bankrupt
<1>2. E \in SUBSET Estates /\ \A f \in Estates : houses'[f] = IF f \in E THEN 0 ELSE houses[f]
  BY <1>1 DEF EstatesOf
<1>3. houses' \in [Estates -> 0..Hotel]
  BY <1>1 DEF Hotel
<1> HIDE DEF E
<1>4. /\ Cardinality(HotelsOn(houses)) = Cardinality(HotelsOn(houses')) + Cardinality(high)
      /\ Cardinality(HousesOn(houses)) = Cardinality(HousesOn(houses')) + Sum(houses, E \ high)
      /\ Sum(houses, E \ high) \in Nat /\ Cardinality(high) \in Nat
  BY <1>2, <1>3, EstatesEmptied
<1>5. CASE UnlimitedHouses
  BY <1>1, <1>5 DEF Stocked, StockConserved, StockFreed
<1>6. CASE ~UnlimitedHouses
  <2>1. stock' = [houses |-> stock.houses + Sum(houses, E \ high),
                  hotels |-> stock.hotels + Cardinality(high)]
    BY <1>1, <1>6 DEF StockFreed, E
  <2> HIDE DEF high
  <2>2. stock.houses \in Nat /\ stock.hotels \in Nat
    BY DEF Stocked
  <2>3. stock' \in [houses : Nat, hotels : Nat]
    BY <1>4, <2>1, <2>2
  <2>4. /\ stock.hotels + Cardinality(HotelsOn(houses)) = HotelStock
        /\ stock.houses + Cardinality(HousesOn(houses)) = HouseStock
    BY <1>6, StockCounted DEF Stocked
  <2>5. Cardinality(HotelsOn(houses')) \in Nat /\ Cardinality(HousesOn(houses')) \in Nat
    BY <1>3, HousesCounted
  <2>6. /\ stock'.hotels = stock.hotels + Cardinality(high)
        /\ stock'.houses = stock.houses + Sum(houses, E \ high)
    BY <2>1
  <2>7. /\ stock'.hotels + Cardinality(HotelsOn(houses')) = HotelStock
        /\ stock'.houses + Cardinality(HousesOn(houses')) = HouseStock
    BY <1>4, <2>2, <2>4, <2>5, <2>6
  <2> QED
    BY <1>3, <2>3, <2>7, StockCountedNext DEF Stocked
<1> QED
  BY <1>5, <1>6

-----------------------------------------------------------------------------
(* The types of what remains *)

\* debts and charges are records of players, numbered within the bound
Booked == /\ debts \subseteq [from : Players, to : Owners, at : 1..MaxDebts]
          /\ charges \subseteq [from : Players, to : Players, cash : BOOLEAN]
          /\ dangling \in BOOLEAN

\* A set of numbers up to n that has an element has a greatest one.
LEMMA MaxIn ==
  ASSUME NEW n \in Nat, NEW S \in SUBSET (0..n), S # {}
  PROVE  Max(S) \in S
<1> DEFINE Bounds == {u \in Nat : \A x \in S : x <= u}
<1>1. n \in Bounds
  OBVIOUS
<1>2. IsWellFoundedOn(OpToRel(<, Nat), Nat)
  BY NatLessThanWellFounded
<1>3. PICK u \in Bounds : \A v \in Bounds : ~(<<v, u>> \in OpToRel(<, Nat))
  BY <1>1, <1>2, WFMin
<1>4. u \in S
  <2>1. CASE u = 0
    <3>1. \A x \in S : x \in 0..n /\ x <= 0
      BY <1>3, <2>1
    <3>2. \A x \in S : x = 0
      BY <3>1
    <3> QED
      BY <2>1, <3>2
  <2>2. CASE u # 0 /\ u \notin S
    <3>1. u \in Nat /\ \A x \in S : x <= u
      BY DEF Bounds
    <3>2. u - 1 \in Nat
      BY <2>2, <3>1
    <3>3. \A x \in S : x \in 0..n /\ x <= u /\ x # u
      BY <2>2, <3>1
    <3>4. \A x \in S : x <= u - 1
      BY <3>1, <3>3
    <3>5. u - 1 \in Bounds
      BY <3>2, <3>4
    <3> DEFINE vu == <<u - 1, u>>
    <3>6. vu \in Nat \X Nat /\ vu[1] = u - 1 /\ vu[2] = u /\ u - 1 < u
      BY <3>1, <3>2
    <3>7. vu \in OpToRel(<, Nat)
      BY <3>6 DEF OpToRel
    <3> QED
      BY <1>3, <3>5, <3>7
  <2> QED
    BY <2>1, <2>2
<1>5. \A x \in S : u >= x
  BY <1>3
<1> QED
  BY <1>4, <1>5 DEF Max

\* The number of a new debt is one within the bound that NewDebt checks.
LEMMA NumberIn ==
  ASSUME Booked, NextNumber <= MaxDebts
  PROVE  NextNumber \in 1..MaxDebts
<1> DEFINE S == {0} \union {d.at : d \in debts}
<1>1. S \in SUBSET (0..MaxDebts) /\ S # {}
  BY AssetsAssumption DEF Booked
<1> HIDE DEF S
<1>2. Max(S) \in 0..MaxDebts
  BY <1>1, MaxIn, AssetsAssumption
<1>3. NextNumber = 1 + Max(S)
  BY DEF NextNumber, S
<1> QED
  BY <1>2, <1>3, AssetsAssumption

\* A new debt is made or ruins the debtor, whose debts are gone.
LEMMA NewDebtCounted ==
  ASSUME Typed, Stocked, Booked, NEW from \in Players, NEW to \in Owners,
         NEW broke \in BOOLEAN, NewDebt(from, to, broke)
  PROVE  /\ Stocked'
         /\ debts' \subseteq [from : Players, to : Owners, at : 1..MaxDebts]
<1> DEFINE new == [from |-> from, to |-> to, at |-> NextNumber]
           ds == debts \union {new}
<1>1. CASE UNCHANGED <<active, estateVars, cardVars, debts, trades>>
  BY <1>1 DEF Stocked, StockConserved, Booked, estateVars
<1>2. CASE /\ NextNumber <= MaxDebts
           /\ debts' = ds /\ UNCHANGED <<active, estateVars, cardVars, trades>>
  <2>1. new \in [from : Players, to : Owners, at : 1..MaxDebts]
    BY <1>2, NumberIn
  <2> QED
    BY <1>2, <2>1 DEF Stocked, StockConserved, Booked, estateVars
<1>3. CASE NextNumber <= MaxDebts /\ Bankrupt(from, ds)
  <2>1. Stocked'
    BY <1>3, BankruptStocked DEF Typed
  <2>2. debts' \subseteq ds
    BY <1>3 DEF Bankrupt, Cleared
  <2>3. new \in [from : Players, to : Owners, at : 1..MaxDebts]
    BY <1>3, NumberIn
  <2> QED
    BY <2>1, <2>2, <2>3 DEF Booked
<1> QED
  BY <1>1, <1>2, <1>3 DEF NewDebt

\* everything that is counted or numbered
Counted == Stocked /\ Booked

\* Estate commands keep the count.
LEMMA EstateCommandCounted ==
  ASSUME IInv, Counted, EstateCommand
  PROVE  Counted'
<1>1. PICK p \in Players, e \in Estates :
        \/ AcquireEstate(p, e) \/ SellEstate(p, e)
        \/ Mortgage(p, e) \/ Unmortgage(p, e)
        \/ BuyHouse(p, e) \/ SellHouse(p, e)
  BY DEF EstateCommand
<1>2. debts' \subseteq debts /\ charges' = charges /\ dangling' = dangling
  BY <1>1 DEF AcquireEstate, SellEstate, Mortgage, Unmortgage, BuyHouse, SellHouse,
              SolveDebts, Settled, loopVars
<1>3. Stocked'
  <2>1. CASE BuyHouse(p, e) \/ SellHouse(p, e)
    BY <2>1, HouseStocked DEF Counted, IInv, Core, Typed
  <2>2. CASE \/ AcquireEstate(p, e) \/ SellEstate(p, e)
             \/ Mortgage(p, e) \/ Unmortgage(p, e)
    <3>1. UNCHANGED <<houses, stock>>
      BY <2>2 DEF AcquireEstate, SellEstate, Mortgage, Unmortgage
    <3> QED
      BY <3>1 DEF Counted, Stocked, StockConserved
  <2> QED
    BY <1>1, <2>1, <2>2
<1> QED
  BY <1>2, <1>3 DEF Counted, Booked

\* Losses keep the count.
LEMMA LossCounted ==
  ASSUME IInv, Counted, Loss
  PROVE  Counted'
<1>1. PICK p \in Players :
        \/ Quit(p) \/ Settle(p)
        \/ \E to \in Owners, broke \in BOOLEAN : Owe(p, to, broke)
  BY DEF Loss
<1>2. Typed /\ Stocked /\ Booked
  BY DEF IInv, Core, Counted
<1>3. charges' = charges /\ dangling' = dangling
  BY <1>1 DEF Quit, Settle, Owe, loopVars
<1>4. CASE Quit(p)
  <2>1. Stocked'
    BY <1>2, <1>4, BankruptStocked DEF Quit, Typed
  <2>2. debts' \subseteq debts
    BY <1>4 DEF Quit, Bankrupt, Cleared
  <2> QED
    BY <1>2, <1>3, <2>1, <2>2 DEF Counted, Booked
<1>5. CASE Settle(p)
  <2>1. debts' \subseteq debts /\ UNCHANGED <<houses, stock>>
    BY <1>5 DEF Settle, SolveDebts, Settled, estateVars
  <2> QED
    BY <1>2, <1>3, <2>1 DEF Counted, Booked, Stocked, StockConserved
<1>6. CASE \E to \in Owners, broke \in BOOLEAN : Owe(p, to, broke)
  <2>1. /\ Stocked'
        /\ debts' \subseteq [from : Players, to : Owners, at : 1..MaxDebts]
    BY <1>2, <1>6, NewDebtCounted DEF Owe
  <2> QED
    BY <1>2, <1>3, <2>1 DEF Counted, Booked
<1> QED
  BY <1>1, <1>4, <1>5, <1>6

\* Cards keep the count.
LEMMA CardMoveCounted ==
  ASSUME IInv, Counted, CardMove
  PROVE  Counted'
<1>1. Typed /\ Stocked /\ Booked /\ Loops
  BY DEF IInv, Core, Counted
<1>2. ASSUME NEW p \in Players, DrawCard(p)
      PROVE  Counted'
  <2>1. UNCHANGED <<houses, stock, debts, dangling>>
    BY <1>2 DEF DrawCard, estateVars
  <2> DEFINE others == active \ {p}
             Drawn == [from : Players, to : Players, cash : BOOLEAN]
  <2>2. charges' \in {{},
                      {[from |-> q, to |-> p, cash |-> TRUE] : q \in others},
                      {[from |-> p, to |-> q, cash |-> FALSE] : q \in others}}
    BY <1>2 DEF DrawCard
  <2>3. others \subseteq Players
    BY <1>1 DEF Typed
  <2> HIDE DEF others
  <2>4. \A q \in others : /\ [from |-> q, to |-> p, cash |-> TRUE] \in Drawn
                         /\ [from |-> p, to |-> q, cash |-> FALSE] \in Drawn
    BY <2>3
  <2>5. charges' \subseteq Drawn
    <3>1. CASE charges' = {}
      BY <3>1
    <3>2. CASE charges' = {[from |-> q, to |-> p, cash |-> TRUE] : q \in others}
      BY <2>4, <3>2
    <3>3. CASE charges' = {[from |-> p, to |-> q, cash |-> FALSE] : q \in others}
      BY <2>4, <3>3
    <3> QED
      BY <2>2, <3>1, <3>2, <3>3
  <2> QED
    BY <1>1, <2>1, <2>5 DEF Counted, Booked, Stocked, StockConserved
<1>3. ASSUME NEW p \in Players, NEW c \in Ownable, UseCard(p, c)
      PROVE  Counted'
  <2>1. UNCHANGED <<houses, stock, debts, charges, dangling>>
    BY <1>3 DEF UseCard, estateVars, loopVars
  <2> QED
    BY <1>1, <2>1 DEF Counted, Booked, Stocked, StockConserved
<1>4. ASSUME NEW c \in charges, Charge(c)
      PROVE  Counted'
  <2>1. charges' \subseteq charges /\ dangling' = dangling
    BY <1>4 DEF Charge
  <2>2. c.from \in Players /\ c.to \in Owners
    BY <1>1 DEF Loops, Owners
  <2>3. CASE UNCHANGED <<active, estateVars, cardVars, debts, trades>>
    BY <1>1, <2>1, <2>3 DEF Counted, Booked, Stocked, StockConserved, estateVars
  <2>4. CASE \E broke \in BOOLEAN : NewDebt(c.from, c.to, broke)
    <3>1. /\ Stocked'
          /\ debts' \subseteq [from : Players, to : Owners, at : 1..MaxDebts]
      BY <1>1, <2>2, <2>4, NewDebtCounted
    <3> QED
      BY <1>1, <2>1, <3>1 DEF Counted, Booked
  <2> QED
    BY <1>4, <2>3, <2>4 DEF Charge
<1> QED
  BY <1>2, <1>3, <1>4 DEF CardMove

\* Trade commands touch neither buildings nor debts.
LEMMA TradeCommandCounted ==
  ASSUME Counted, TradeCommand
  PROVE  Counted'
<1>1. UNCHANGED <<houses, stock, debts, charges, dangling>>
  BY DEF TradeCommand, NewTrade, SetObject, SetMoney, AcceptTrade, RejectTrade,
         estateVars, loopVars
<1> QED
  BY <1>1 DEF Counted, Booked, Stocked, StockConserved

\* A completed trade leaves debts at most, or ruins a payer.
LEMMA CompletionCounted ==
  ASSUME IInv, Counted, Completion
  PROVE  Counted'
<1>1. Typed /\ Stocked /\ Booked
  BY DEF IInv, Core, Counted
<1>2. ASSUME NEW c, CompleteObject(c)
      PROVE  Counted'
  <2>1. UNCHANGED <<houses, stock, debts, charges, dangling>>
    BY <1>2 DEF CompleteObject, loopVars
  <2> QED
    BY <1>1, <2>1 DEF Counted, Booked, Stocked, StockConserved
<1>3. ASSUME completing # NoTrade, NEW c \in trades[completing].comps, CompleteMoney(c)
      PROVE  Counted'
  <2>1. c.from \in Players /\ c.to \in Owners
    <3>1. completing \in TradeIds
      BY <1>3 DEF IInv, Loops
    <3>2. trades[completing] \in TradeRecord
      BY <1>1, <3>1 DEF Typed
    <3> QED
      BY <3>2 DEF TradeRecord, Owners
  <2>2. charges' = charges
    BY <1>3 DEF CompleteMoney
  <2>3. CASE UNCHANGED <<active, estateVars, cardVars, debts, completing, dangling>>
    BY <1>1, <2>2, <2>3 DEF Counted, Booked, Stocked, StockConserved, estateVars
  <2>4. CASE /\ NextNumber <= MaxDebts
             /\ debts' = debts \union {[from |-> c.from, to |-> c.to, at |-> NextNumber]}
             /\ UNCHANGED <<active, estateVars, cardVars, completing, dangling>>
    <3>1. NextNumber \in 1..MaxDebts
      BY <1>1, <2>4, NumberIn
    <3>2. debts' \subseteq [from : Players, to : Owners, at : 1..MaxDebts]
      BY <1>1, <2>1, <2>4, <3>1 DEF Booked
    <3> QED
      BY <1>1, <2>2, <2>4, <3>2 DEF Counted, Booked, Stocked, StockConserved, estateVars
  <2>5. CASE NewDebt(c.from, c.to, TRUE) /\ dangling' = TRUE
    <3>1. /\ Stocked'
          /\ debts' \subseteq [from : Players, to : Owners, at : 1..MaxDebts]
      BY <1>1, <2>1, <2>5, NewDebtCounted
    <3> QED
      BY <1>1, <2>2, <2>5, <3>1 DEF Counted, Booked
  <2> QED
    BY <1>3, <2>3, <2>4, <2>5 DEF CompleteMoney
<1>4. CASE CompleteTrade
  <2>1. debts' \subseteq debts /\ UNCHANGED <<houses, stock, charges, dangling>>
    BY <1>4 DEF CompleteTrade, estateVars
  <2> QED
    BY <1>1, <2>1 DEF Counted, Booked, Stocked, StockConserved
<1> QED
  BY <1>2, <1>3, <1>4 DEF Completion

\* At the start everything is in the stock.
LEMMA InitCounted == Init => Counted
<1> SUFFICES ASSUME Init PROVE Counted
  OBVIOUS
<1>1. /\ houses = [e \in Estates |-> 0]
      /\ stock = [houses |-> HouseStock, hotels |-> HotelStock]
      /\ debts = {} /\ charges = {} /\ dangling = FALSE
  BY DEF Init
<1>2. houses \in [Estates -> 0..Hotel]
  BY <1>1 DEF Hotel
<1>3. HotelsOn(houses) = {} /\ HousesOn(houses) = {}
  BY <1>1 DEF HotelsOn, HousesOn, Floors, Hotel
<1>4. Cardinality(HotelsOn(houses)) = 0 /\ Cardinality(HousesOn(houses)) = 0
  BY <1>3, FS_EmptySet
<1>5. StockConserved
  BY <1>1, <1>2, <1>4, StockCounted, AssetsAssumption
<1> QED
  BY <1>1, <1>5, AssetsAssumption DEF Counted, Stocked, Booked

\* The count is an invariant of the specification.
LEMMA AlwaysCounted == Spec => [](IInv /\ Counted)
<1>1. ASSUME IInv, Counted, [Next]_vars
      PROVE  Counted'
  <2>1. CASE UNCHANGED vars
    <3>1. UNCHANGED <<houses, stock, debts, charges, dangling>>
      BY <2>1 DEF vars, estateVars, loopVars
    <3> QED
      BY <1>1, <3>1 DEF Counted, Booked, Stocked, StockConserved
  <2> QED
    BY <1>1, <2>1, EstateCommandCounted, LossCounted, CardMoveCounted,
       TradeCommandCounted, CompletionCounted DEF Next
<1> QED
  BY <1>1, InitCounted, Invariance, PTL DEF Spec

\* The bank's stock and the buildings on the estates always add up to what the game
\* started with, for any city, through sales and bankruptcies.
THEOREM StockIsConserved == Spec => []StockConserved
<1>1. IInv /\ Counted => StockConserved
  BY DEF Counted, Stocked
<1> QED
  BY <1>1, AlwaysCounted, PTL

\* Every part of the state has its type; the stock never gets below zero.
THEOREM TypeCorrect == Spec => []TypeOK
<1>1. IInv /\ Counted => TypeOK
  BY DEF IInv, Core, Typed, DeckSound, Loops, Counted, Stocked, Booked, TypeOK, Owners
<1> QED
  BY <1>1, AlwaysCounted, PTL
=============================================================================
