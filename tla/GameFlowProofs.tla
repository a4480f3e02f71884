--------------------------- MODULE GameFlowProofs ---------------------------
(***************************************************************************)
(* Proofs about GameFlow, for any number of players, any bids, any         *)
(* configuration and any players who trade, leave or lose the connection.  *)
(*                                                                         *)
(* The inductive invariant is a predicate Good on the game record, shown   *)
(* to be preserved by every operator the actions are composed of, together *)
(* with what the auction timer promises.                                   *)
(***************************************************************************)
EXTENDS GameFlow, TLAPS, WellFoundedInduction

-----------------------------------------------------------------------------
(* The inductive invariant *)

Rights(g) ==
  /\ g.status = "run" => g.turn \in g.members
  /\ g.status = "end" => g.turn = NoPlayer
  /\ g.hasTurn = {g.turn} \ {NoPlayer}
  /\ g.canRoll \union g.canRollAgain \union g.canBuy \subseteq g.hasTurn

Alive(g) ==
  IF g.status = "run" THEN \E p, q \in Active(g) : p # q
                      ELSE \A p, q \in Active(g) : p = q

\* debts and bids are those of the players in A
Among(g, A) ==
  /\ \A d \in g.debts : {d.from, d.to} \subseteq A \union {Bank, Hammer}
  /\ g.auction.bidder \in A \union {NoPlayer}

Hammered(g) ==
  /\ ~g.auction.open => g.auction = NoAuction
  /\ HammerDebts(g) = IF g.auction.open /\ g.auction.status = Sold
                      THEN {Debt(g.auction.bidder, Hammer)} ELSE {}

Good(g) ==
  /\ g \in GameState
  /\ Rights(g)
  /\ Alive(g)
  /\ g.status = "run" => Among(g, Active(g)) /\ Hammered(g)
  /\ g.status = "end" => g.auction = NoAuction

IInv ==
  /\ Good(game)
  /\ tokenTimer \in BOOLEAN
  /\ auctionTimer \in BOOLEAN
  /\ auctionTimer /\ game.auction.open => /\ game.auction.bidder # NoPlayer
                                          /\ game.auction.status # Sold

\* while a card collects, those who are still to be charged play, and the one it
\* collects for is not among them
Charging ==
  /\ charges \subseteq [from : Players, to : Players]
  /\ \A c \in charges : c.from \in Active(game) /\ c.to \in game.members
  /\ \A c, d \in charges : c.from # d.to /\ (c.from = d.from => c = d)
  /\ charges # {} => game.status = "run"

-----------------------------------------------------------------------------
(* The next player *)

\* the minimum of a set of numbers is its least member
LEMMA MinIn ==
  ASSUME NEW S \in SUBSET Nat, S # {}
  PROVE  Min(S) \in S /\ \A y \in S : Min(S) <= y
<1>1. IsWellFoundedOn(OpToRel(<, Nat), Nat)
  BY NatLessThanWellFounded
<1>2. PICK x \in S : \A y \in S : ~(<<y, x>> \in OpToRel(<, Nat))
  BY <1>1, WFMin
<1>3. ASSUME NEW y \in S
      PROVE  x <= y
  <2> DEFINE yx == <<y, x>>
  <2>1. yx \in Nat \X Nat /\ yx[1] = y /\ yx[2] = x
    OBVIOUS
  <2>2. ~(y < x)
    BY <1>2, <2>1 DEF OpToRel
  <2> QED
    BY <2>2
<1> QED
  BY <1>3 DEF Min

\* updateTurn finds an active player, wrapping around the end of the list
LEMMA NextPlayerActive ==
  ASSUME NEW g \in GameState, Active(g) # {}
  PROVE  NextPlayer(g) \in Active(g)
<1> DEFINE later == {q \in Active(g) : q > g.turn}
<1>1. Active(g) \in SUBSET Nat /\ later \in SUBSET Nat
  BY ConstantsAssumption DEF Active, GameState, Players
<1>2. Min(Active(g)) \in Active(g)
  BY <1>1, MinIn
<1>3. later # {} => Min(later) \in later
  BY <1>1, MinIn
<1> QED
  BY <1>2, <1>3 DEF NextPlayer

\* with two players active the turn passes to another one
LEMMA NextPlayerOther ==
  ASSUME NEW g \in GameState, NEW p \in Active(g), p # g.turn
  PROVE  NextPlayer(g) # g.turn
<1> DEFINE later == {q \in Active(g) : q > g.turn}
<1>1. Active(g) \in SUBSET Nat /\ later \in SUBSET Nat
  BY ConstantsAssumption DEF Active, GameState, Players
<1>2. CASE later # {}
  <2>1. Min(later) \in later
    BY <1>1, <1>2, MinIn
  <2> QED
    BY <1>1, <1>2, <2>1 DEF NextPlayer
<1>3. CASE later = {}
  <2>1. NextPlayer(g) = Min(Active(g))
    BY <1>3 DEF NextPlayer
  <2>2. Min(Active(g)) <= p
    BY <1>1, MinIn
  <2>3. g.turn \in Nat /\ p \in Nat /\ ~(p > g.turn)
    BY <1>1, <1>3, ConstantsAssumption DEF GameState, Players, NoPlayer
  <2>4. p < g.turn
    BY <2>3
  <2>5. Min(Active(g)) \in Nat
    BY <1>1, MinIn
  <2> QED
    BY <2>1, <2>2, <2>3, <2>4, <2>5
<1> QED
  BY <1>2, <1>3

\* neither nobody, which is also the bank, nor the auctioneer is a player
LEMMA ZeroIsNobody == NoPlayer \notin Players /\ Hammer \notin Players
BY ConstantsAssumption DEF NoPlayer, Hammer, Players

\* the closed auction is an auction
LEMMA NoAuctionType ==
  NoAuction \in [open : BOOLEAN, status : 0..Sold,
                 bidder : Players \union {NoPlayer}, bid : 0..MaxBid]
BY ConstantsAssumption DEF NoAuction, Sold

-----------------------------------------------------------------------------
(* The operators keep the game good *)

\* the auction is left alone or closed
KeepsAuction(g, h) == h.auction \in {g.auction, NoAuction}

\* what UpdateTurn and EndTurn leave alone
SameTable(g, h) ==
  /\ h.status = g.status
  /\ h.members = g.members
  /\ h.spectators = g.spectators
  /\ h.bankrupt = g.bankrupt
  /\ h.online = g.online
  /\ h.auction = g.auction
  /\ h.debts = g.debts
  /\ h.moving = g.moving
  /\ h.jailed = g.jailed
  /\ h.jailCount = g.jailCount

\* updateTurn hands all rights to the next player
LEMMA UpdateTurnGood ==
  ASSUME NEW g, Good(g), g.status = "run"
  PROVE  Good(UpdateTurn(g)) /\ SameTable(g, UpdateTurn(g))
<1> DEFINE q == NextPlayer(g)
           h == UpdateTurn(g)
<1>1. g \in GameState /\ Active(g) # {}
  BY DEF Good, Alive
<1>2. q \in Active(g) /\ q \in Players /\ q \in g.members /\ q # NoPlayer
  BY <1>1, NextPlayerActive, ZeroIsNobody DEF Active, GameState
<1>3. h \in GameState
  BY <1>1, <1>2 DEF UpdateTurn, GameState
<1>4. SameTable(g, h)
  BY <1>1 DEF UpdateTurn, GameState, SameTable
<1>5. /\ h.turn = q
      /\ h.hasTurn = (g.hasTurn \ {g.turn}) \union {q}
      /\ h.canBuy = g.canBuy \ {g.turn, q}
      /\ h.canRoll = (g.canRoll \ {g.turn}) \union ({q} \ g.jailed)
      /\ h.canRollAgain = g.canRollAgain \ {g.turn}
  BY <1>1 DEF UpdateTurn, GameState
<1>6. Rights(h)
  BY <1>2, <1>4, <1>5 DEF Good, Rights, SameTable
<1>7. Active(h) = Active(g) /\ HammerDebts(h) = HammerDebts(g)
  BY <1>4 DEF Active, SameTable, HammerDebts
<1> QED
  BY <1>3, <1>4, <1>6, <1>7 DEF Good, Alive, Among, Hammered, SameTable

\* endTurn, asked for or not, held or not
LEMMA EndTurnGood ==
  ASSUME NEW g, Good(g), g.status = "run", NEW asked
  PROVE  Good(EndTurn(g, asked)) /\ SameTable(g, EndTurn(g, asked))
<1> DEFINE p == g.turn
           h == [g EXCEPT !.canBuy = @ \ {p}]
           r == [h EXCEPT !.canRoll = @ \union {p}, !.canRollAgain = @ \ {p}]
<1>1. g \in GameState /\ p \in Players /\ p \in g.hasTurn
  BY ZeroIsNobody DEF Good, Rights, GameState
<1>2. Good(h) /\ SameTable(g, h)
  <2>1. h \in GameState /\ SameTable(g, h)
    BY <1>1 DEF GameState, SameTable
  <2>2. /\ h.turn = g.turn /\ h.hasTurn = g.hasTurn /\ h.canRoll = g.canRoll
        /\ h.canRollAgain = g.canRollAgain /\ h.canBuy = g.canBuy \ {p}
    BY <1>1 DEF GameState
  <2>3. Active(h) = Active(g) /\ HammerDebts(h) = HammerDebts(g)
    BY <2>1 DEF Active, SameTable, HammerDebts
  <2> QED
    BY <2>1, <2>2, <2>3 DEF Good, Rights, Alive, Among, Hammered, SameTable
<1>3. Good(r) /\ SameTable(g, r)
  <2>1. r \in GameState /\ SameTable(g, r)
    BY <1>1 DEF GameState, SameTable
  <2>2. /\ r.turn = g.turn /\ r.hasTurn = g.hasTurn
        /\ r.canRoll = g.canRoll \union {p}
        /\ r.canRollAgain = g.canRollAgain \ {p} /\ r.canBuy = g.canBuy \ {p}
    BY <1>1 DEF GameState
  <2>3. Active(r) = Active(g) /\ HammerDebts(r) = HammerDebts(g)
    BY <2>1 DEF Active, SameTable, HammerDebts
  <2> QED
    BY <1>1, <2>1, <2>2, <2>3 DEF Good, Rights, Alive, Among, Hammered, SameTable
<1>4. Good(UpdateTurn(h)) /\ SameTable(g, UpdateTurn(h))
  BY <1>2, UpdateTurnGood DEF SameTable
<1>5. SameTable(g, g)
  BY DEF SameTable
<1> QED
  BY <1>2, <1>3, <1>4, <1>5 DEF EndTurn

\* p plays, but is about to go bankrupt, as a member or on his way out
LEMMA BankruptGood ==
  ASSUME NEW g \in GameState, NEW p \in Players,
         g.status = "run", Rights(g), Hammered(g),
         p \notin g.bankrupt \union g.spectators,
         Active(g) \ {p} # {},
         Among(g, Active(g) \union {p})
  PROVE  /\ Good(Bankrupt(g, p))
         /\ Bankrupt(g, p).members = g.members
         /\ KeepsAuction(g, Bankrupt(g, p))
<1> DEFINE h == Ruined(g, p)
           e == EndGame(h)
<1>1. h \in GameState
  BY NoAuctionType DEF Ruined, GameState
<1>2. /\ h.status = g.status /\ h.members = g.members
      /\ h.spectators = g.spectators
      /\ h.bankrupt = g.bankrupt \union {p}
      /\ h.turn = g.turn /\ h.hasTurn = g.hasTurn /\ h.canRoll = g.canRoll
      /\ h.canRollAgain = g.canRollAgain /\ h.canBuy = g.canBuy
      /\ h.auction = IF g.auction.bidder = p THEN NoAuction ELSE g.auction
      /\ h.debts = {d \in g.debts : p \notin {d.from, d.to}}
  BY DEF Ruined, GameState
<1>3. Active(h) = Active(g) \ {p} /\ Active(h) # {}
  BY <1>2 DEF Active
<1>4. Rights(h)
  BY <1>2 DEF Rights
<1>5. Among(h, Active(h)) /\ Hammered(h)
  <2>1. /\ NoAuction.bidder = NoPlayer /\ ~NoAuction.open
        /\ p # NoPlayer /\ p # Hammer /\ p # Bank
    BY ZeroIsNobody DEF NoAuction, Bank, NoPlayer
  <2>2. \A d \in h.debts : {d.from, d.to} \subseteq Active(h) \union {Bank, Hammer}
    BY <1>2, <1>3 DEF Among
  <2>3. h.auction.bidder \in Active(h) \union {NoPlayer}
    BY <1>2, <1>3, <2>1 DEF Among
  <2>4. CASE g.auction.bidder = p
    <3>1. \A d \in HammerDebts(g) : d.from = p
      <4>1. HammerDebts(g) \subseteq {Debt(p, Hammer)} /\ Debt(p, Hammer).from = p
        BY <2>4 DEF Hammered, Debt
      <4> QED
        BY <4>1
    <3>2. HammerDebts(h) = {}
      BY <1>2, <3>1 DEF HammerDebts
    <3> QED
      BY <1>2, <2>1, <2>2, <2>3, <2>4, <3>2 DEF Among, Hammered
  <2>5. CASE g.auction.bidder # p
    <3>1. HammerDebts(h) = HammerDebts(g)
      <4>1. ASSUME NEW d \in HammerDebts(g)
            PROVE  p \notin {d.from, d.to}
        BY <2>1, <2>5 DEF Hammered, HammerDebts, Debt
      <4> QED
        BY <1>2, <4>1 DEF HammerDebts
    <3> QED
      BY <1>2, <2>2, <2>3, <2>5, <3>1 DEF Among, Hammered
  <2> QED
    BY <2>4, <2>5
<1>6. CASE \E w \in Active(h) : Active(h) = {w}
  <2>1. e \in GameState
    BY <1>1, NoAuctionType DEF EndGame, GameState
  <2>2. /\ e.status = "end" /\ e.members = h.members /\ e.turn = NoPlayer
        /\ e.spectators = h.spectators /\ e.bankrupt = h.bankrupt
        /\ e.hasTurn = h.hasTurn \ {h.turn} /\ e.canRoll = h.canRoll \ {h.turn}
        /\ e.canRollAgain = h.canRollAgain \ {h.turn}
        /\ e.canBuy = h.canBuy \ {h.turn}
        /\ e.auction = NoAuction
    BY <1>1 DEF EndGame, GameState
  <2>3. Active(e) = Active(h)
    BY <2>2 DEF Active
  <2>4. Rights(e)
    BY <1>4, <2>2 DEF Rights
  <2>5. Good(e)
    BY <1>6, <2>1, <2>2, <2>3, <2>4 DEF Good, Alive
  <2>6. KeepsAuction(g, e)
    BY <2>2 DEF KeepsAuction
  <2>7. Bankrupt(g, p) = e
    BY <1>6 DEF Bankrupt
  <2> QED
    BY <1>2, <2>2, <2>5, <2>6, <2>7
<1>7. CASE ~ \E w \in Active(h) : Active(h) = {w}
  <2>1. Alive(h)
    BY <1>2, <1>3, <1>7 DEF Alive
  <2>2. Good(h) /\ h.status = "run"
    BY <1>1, <1>2, <1>4, <1>5, <2>1 DEF Good
  <2>3. /\ Good(UpdateTurn(h)) /\ UpdateTurn(h).members = h.members
        /\ UpdateTurn(h).auction = h.auction
    BY <2>2, UpdateTurnGood DEF SameTable
  <2>4. /\ Good(EndTurn(h, FALSE)) /\ EndTurn(h, FALSE).members = h.members
        /\ EndTurn(h, FALSE).auction = h.auction
    BY <2>2, EndTurnGood DEF SameTable
  <2>5. h.auction \in {g.auction, NoAuction}
    BY <1>2
  <2>6. Bankrupt(g, p) \in {h, UpdateTurn(h), EndTurn(h, FALSE)}
    BY <1>7 DEF Bankrupt
  <2> HIDE DEF h
  <2> QED
    BY <1>2, <2>2, <2>3, <2>4, <2>5, <2>6 DEF KeepsAuction
<1> QED
  BY <1>6, <1>7

\* the same for a player of a good game
LEMMA ActiveBankruptGood ==
  ASSUME NEW g, Good(g), g.status = "run", NEW p \in Active(g)
  PROVE  Good(Bankrupt(g, p)) /\ KeepsAuction(g, Bankrupt(g, p))
<1>1. /\ g \in GameState /\ p \in Players
      /\ p \notin g.bankrupt \union g.spectators
      /\ Active(g) \ {p} # {}
      /\ Active(g) \union {p} = Active(g)
  BY DEF Good, Alive, Active, GameState
<1> QED
  BY <1>1, BankruptGood DEF Good

\* debts of active players to active players or to the bank are added
LEMMA AddDebtsGood ==
  ASSUME NEW g, Good(g), g.status = "run", NEW new,
         \A d \in new : /\ d \in [from : Players, to : 0..Hammer]
                        /\ {d.from, d.to} \subseteq Active(g) \union {Bank}
  PROVE  LET h == [g EXCEPT !.debts = @ \union new]
         IN  /\ Good(h) /\ h.status = "run" /\ Active(h) = Active(g)
             /\ h.auction = g.auction /\ h.turn = g.turn
<1> DEFINE h == [g EXCEPT !.debts = @ \union new]
<1>1. g \in GameState /\ Active(g) \subseteq Players
  BY DEF Good, Active, GameState
<1>2. h \in GameState
  BY <1>1 DEF GameState
<1>3. /\ h.status = g.status /\ h.members = g.members
      /\ h.spectators = g.spectators /\ h.bankrupt = g.bankrupt
      /\ h.turn = g.turn /\ h.hasTurn = g.hasTurn /\ h.canRoll = g.canRoll
      /\ h.canRollAgain = g.canRollAgain /\ h.canBuy = g.canBuy
      /\ h.auction = g.auction
      /\ h.debts = g.debts \union new
  BY <1>1 DEF GameState
<1> HIDE DEF h
<1>4. Active(h) = Active(g)
  BY <1>3 DEF Active
<1>5. HammerDebts(h) = HammerDebts(g)
  <2>1. Hammer \notin Active(g) \union {Bank}
    BY <1>1, ZeroIsNobody, ConstantsAssumption DEF Hammer, Bank
  <2>2. \A d \in new : d.to # Hammer
    BY <2>1
  <2> QED
    BY <1>3, <2>2 DEF HammerDebts
<1>6. Good(h)
  BY <1>2, <1>3, <1>4, <1>5 DEF Good, Rights, Alive, Among, Hammered
<1> QED
  BY <1>3, <1>4, <1>6 DEF h

\* the debt of a player to a player or to the bank is well formed
LEMMA DebtType ==
  ASSUME NEW from \in Players, NEW to \in Players \union {Bank}
  PROVE  /\ Debt(from, to) \in [from : Players, to : 0..Hammer]
         /\ Debt(from, to).from = from
         /\ Debt(from, to).to = to
<1>1. to \in 0..Hammer
  BY ConstantsAssumption DEF Players, Hammer, Bank
<1> QED
  BY <1>1 DEF Debt

\* a debt of one active player to another or to the bank
LEMMA NewDebtGood ==
  ASSUME NEW g, Good(g), g.status = "run", NEW from \in Active(g),
         NEW to \in Active(g) \union {Bank}, NEW broke \in BOOLEAN
  PROVE  Good(NewDebt(g, from, to, broke)) /\ KeepsAuction(g, NewDebt(g, from, to, broke))
<1> DEFINE new == {Debt(from, to)}
           h   == [g EXCEPT !.debts = @ \union new]
<1>1. Active(g) \subseteq Players
  BY DEF Good, Active, GameState
<1>2. \A d \in new : /\ d \in [from : Players, to : 0..Hammer]
                     /\ {d.from, d.to} \subseteq Active(g) \union {Bank}
  BY <1>1, DebtType
<1>3. NewDebt(g, from, to, broke) \in {g, h, Bankrupt(h, from)}
  BY DEF NewDebt
<1> HIDE DEF new
<1>4. /\ Good(h) /\ h.status = "run" /\ Active(h) = Active(g)
      /\ h.auction = g.auction
  BY <1>2, AddDebtsGood
<1> HIDE DEF h
<1>5. Good(Bankrupt(h, from)) /\ KeepsAuction(h, Bankrupt(h, from))
  BY <1>4, ActiveBankruptGood
<1> QED
  BY <1>3, <1>4, <1>5 DEF KeepsAuction

\* solveDebts, whichever debts can be paid
LEMMA SolveDebtsGood ==
  ASSUME NEW g, Good(g), g.status = "run", NEW p, NEW paid \in SUBSET Owed(g, p)
  PROVE  /\ Good(SolveDebts(g, p, paid))
         /\ SolveDebts(g, p, paid).status = "run"
         /\ Active(SolveDebts(g, p, paid)) = Active(g)
         /\ KeepsAuction(g, SolveDebts(g, p, paid))
<1> DEFINE h == [g EXCEPT !.debts = @ \ {Debt(p, c) : c \in paid},
                          !.auction = IF Hammer \in paid THEN NoAuction ELSE @]
<1>1. g \in GameState
  BY DEF Good
<1>2. h \in GameState
  BY <1>1, NoAuctionType DEF GameState
<1>3. /\ h.status = g.status /\ h.members = g.members
      /\ h.spectators = g.spectators /\ h.bankrupt = g.bankrupt
      /\ h.turn = g.turn /\ h.hasTurn = g.hasTurn /\ h.canRoll = g.canRoll
      /\ h.canRollAgain = g.canRollAgain /\ h.canBuy = g.canBuy
      /\ h.auction = IF Hammer \in paid THEN NoAuction ELSE g.auction
      /\ h.debts = g.debts \ {Debt(p, c) : c \in paid}
  BY <1>1 DEF GameState
<1> HIDE DEF h
<1>4. Active(h) = Active(g)
  BY <1>3 DEF Active
<1>5. Among(h, Active(h))
  BY <1>3, <1>4 DEF Good, Among, NoAuction
<1>6. Hammered(h)
  <2>1. CASE Hammer \in paid
    <3>1. Debt(p, Hammer) \in HammerDebts(g)
      <4>1. Debt(p, Hammer) \in g.debts /\ Debt(p, Hammer).to = Hammer
        BY <2>1 DEF Owed, Debt
      <4> QED
        BY <4>1 DEF HammerDebts
    <3>2. HammerDebts(g) = {Debt(p, Hammer)}
      BY <3>1 DEF Good, Hammered
    <3>3. HammerDebts(h) = {}
      BY <1>3, <2>1, <3>2 DEF HammerDebts
    <3> QED
      BY <1>3, <2>1, <3>3 DEF Hammered, NoAuction
  <2>2. CASE Hammer \notin paid
    <3>1. \A c \in paid : Debt(p, c).to # Hammer
      BY <2>2 DEF Debt
    <3>2. HammerDebts(h) = HammerDebts(g)
      BY <1>3, <3>1 DEF HammerDebts
    <3> QED
      BY <1>3, <2>2, <3>2 DEF Good, Hammered
  <2> QED
    BY <2>1, <2>2
<1>7. Good(h)
  BY <1>2, <1>3, <1>4, <1>5, <1>6 DEF Good, Rights, Alive
<1>8. Good(EndTurn(h, FALSE)) /\ SameTable(h, EndTurn(h, FALSE))
  BY <1>3, <1>7, EndTurnGood
<1>9. Active(EndTurn(h, FALSE)) = Active(h) /\ EndTurn(h, FALSE).status = "run"
  BY <1>3, <1>8 DEF SameTable, Active
<1>10. SolveDebts(g, p, paid) \in {g, h, EndTurn(h, FALSE)}
  BY DEF SolveDebts, h
<1>11. KeepsAuction(g, h) /\ KeepsAuction(g, EndTurn(h, FALSE))
  BY <1>3, <1>8 DEF KeepsAuction, SameTable
<1>12. KeepsAuction(g, g)
  BY DEF KeepsAuction
<1> QED
  BY <1>3, <1>4, <1>7, <1>8, <1>9, <1>10, <1>11, <1>12

\* counts of turns in jail and of doubles stay counts when one is set
LEMMA CountType ==
  ASSUME NEW g \in GameState, NEW p \in Players, NEW n \in 0..3
  PROVE  /\ [g.jailCount EXCEPT ![p] = n] \in [Players -> 0..3]
         /\ [g.doubleCount EXCEPT ![p] = n] \in [Players -> 0..3]
<1>1. g.jailCount \in [Players -> 0..3] /\ g.doubleCount \in [Players -> 0..3]
  BY DEF GameState
<1> QED
  BY <1>1

\* a player who is no longer a member can be forgotten
LEMMA ForgetGood ==
  ASSUME NEW g, Good(g), NEW p \in Players, p \notin g.members
  PROVE  /\ Good(Forget(g, p)) /\ KeepsAuction(g, Forget(g, p))
         /\ Forget(g, p).members = g.members
<1> DEFINE h == Forget(g, p)
<1>1. g \in GameState
  BY DEF Good
<1>2. h \in GameState
  <2>1. /\ [g.jailCount EXCEPT ![p] = 0] \in [Players -> 0..3]
        /\ [g.doubleCount EXCEPT ![p] = 0] \in [Players -> 0..3]
    BY <1>1, CountType
  <2>2. /\ g.bankrupt \ {p} \in SUBSET Players
        /\ g.spectators \ {p} \in SUBSET Players
        /\ g.online \ {p} \in SUBSET Players
        /\ g.jailed \ {p} \in SUBSET Players
    BY <1>1 DEF GameState
  <2> QED
    BY <1>1, <2>1, <2>2 DEF Forget, GameState
<1>3. /\ h.status = g.status /\ h.members = g.members
      /\ h.spectators = g.spectators \ {p} /\ h.bankrupt = g.bankrupt \ {p}
      /\ h.turn = g.turn /\ h.hasTurn = g.hasTurn /\ h.canRoll = g.canRoll
      /\ h.canRollAgain = g.canRollAgain /\ h.canBuy = g.canBuy
      /\ h.auction = g.auction /\ h.debts = g.debts
  BY <1>1 DEF Forget, GameState
<1> HIDE DEF h
<1>4. Active(h) = Active(g) /\ HammerDebts(h) = HammerDebts(g)
  BY <1>3 DEF Active, HammerDebts
<1>5. Good(h)
  BY <1>2, <1>3, <1>4 DEF Good, Rights, Alive, Among, Hammered
<1> QED
  BY <1>3, <1>5 DEF KeepsAuction, h

\* the fields Good depends on besides the rights of the turn holder
SameSeats(g, h) ==
  /\ h.status = g.status
  /\ h.members = g.members
  /\ h.spectators = g.spectators
  /\ h.bankrupt = g.bankrupt
  /\ h.turn = g.turn
  /\ h.hasTurn = g.hasTurn

\* a change that gives rights to nobody but the turn holder
LEMMA SameSeatsGood ==
  ASSUME NEW g, Good(g), NEW h \in GameState, SameSeats(g, h),
         h.auction = g.auction, h.debts = g.debts,
         h.canRoll \union h.canRollAgain \union h.canBuy \subseteq g.hasTurn
  PROVE  Good(h) /\ Active(h) = Active(g)
<1>1. Active(h) = Active(g) /\ HammerDebts(h) = HammerDebts(g)
  BY DEF SameSeats, Active, HammerDebts
<1> QED
  BY <1>1 DEF SameSeats, Good, Rights, Alive, Among, Hammered

\* who does not hold the turn is erased, and goes bankrupt in a running game
LEMMA ErasedGood ==
  ASSUME NEW g, Good(g), NEW p \in Players, p # g.turn
  PROVE  LET g2 == [g EXCEPT !.members = @ \ {p}, !.moving = @ \ {p},
                             !.dest = @ \ {p}]
             g3 == IF g.status = "run" THEN Bankrupt(g2, p) ELSE g2
         IN  /\ g2 \in GameState /\ Rights(g2) /\ g2.turn = g.turn
             /\ Good(g3) /\ p \notin g3.members /\ KeepsAuction(g, g3)
<1> DEFINE g2 == [g EXCEPT !.members = @ \ {p}, !.moving = @ \ {p},
                           !.dest = @ \ {p}]
           g3 == IF g.status = "run" THEN Bankrupt(g2, p) ELSE g2
<1>1. g \in GameState /\ g.status \in {"run", "end"}
  BY DEF Good, GameState
<1>2. g2 \in GameState
  BY <1>1 DEF GameState
<1>3. /\ g2.status = g.status /\ g2.members = g.members \ {p}
      /\ g2.spectators = g.spectators /\ g2.bankrupt = g.bankrupt
      /\ g2.turn = g.turn /\ g2.hasTurn = g.hasTurn
      /\ g2.canRoll = g.canRoll /\ g2.canRollAgain = g.canRollAgain
      /\ g2.canBuy = g.canBuy
      /\ g2.auction = g.auction /\ g2.debts = g.debts
  BY <1>1 DEF GameState
<1> HIDE DEF g2
<1>4. Active(g2) = Active(g) \ {p} /\ HammerDebts(g2) = HammerDebts(g)
  BY <1>3 DEF Active, HammerDebts
<1>5. Rights(g2)
  BY <1>3 DEF Good, Rights
<1>6. Good(g3) /\ p \notin g3.members /\ KeepsAuction(g, g3)
  <2>1. CASE g.status # "run"
    <3>1. Good(g2)
      BY <1>1, <1>2, <1>3, <1>4, <1>5, <2>1 DEF Good, Alive
    <3> QED
      BY <1>3, <2>1, <3>1 DEF KeepsAuction
  <2>2. CASE g.status = "run" /\ p \in g2.bankrupt \union g2.spectators
    <3>1. Active(g2) = Active(g)
      BY <1>3, <1>4, <2>2 DEF Active
    <3>2. Good(g2)
      BY <1>2, <1>3, <1>4, <1>5, <2>2, <3>1 DEF Good, Alive, Among, Hammered
    <3>3. Bankrupt(g2, p) = g2
      BY <2>2 DEF Bankrupt
    <3> QED
      BY <1>3, <2>2, <3>2, <3>3 DEF KeepsAuction
  <2>3. CASE g.status = "run" /\ p \notin g2.bankrupt \union g2.spectators
    <3>1. Hammered(g2) /\ Among(g2, Active(g2) \union {p})
      BY <1>3, <1>4, <2>3 DEF Good, Among, Hammered
    <3>2. Active(g2) \ {p} # {}
      BY <1>4, <2>3 DEF Good, Alive
    <3>3. /\ Good(Bankrupt(g2, p)) /\ Bankrupt(g2, p).members = g2.members
          /\ KeepsAuction(g2, Bankrupt(g2, p))
      BY <1>2, <1>3, <1>5, <2>3, <3>1, <3>2, BankruptGood
    <3> QED
      BY <1>3, <2>3, <3>3 DEF KeepsAuction
  <2> QED
    BY <2>1, <2>2, <2>3
<1> QED
  BY <1>2, <1>3, <1>5, <1>6 DEF g2

\* a turn holder who leaves takes the dialog and the tokens with him, and passes the turn
LEMMA HandOverGood ==
  ASSUME NEW g, Good(g), NEW p \in g.members, p = g.turn
  PROVE  LET cut == [g EXCEPT !.paused = FALSE, !.moving = @ \ Connected(g)]
             h   == UpdateTurn(cut)
         IN  /\ cut \in GameState /\ Good(cut) /\ cut.turn = p
             /\ Good(h) /\ h.status = g.status /\ h.turn # p /\ h.auction = g.auction
<1> DEFINE cut == [g EXCEPT !.paused = FALSE, !.moving = @ \ Connected(g)]
<1>1. g \in GameState /\ p \in Players /\ p # NoPlayer
  BY ZeroIsNobody DEF Good, GameState
<1>2. cut \in GameState
  BY <1>1 DEF GameState
<1>3. /\ SameSeats(g, cut) /\ cut.canRoll = g.canRoll
      /\ cut.canRollAgain = g.canRollAgain /\ cut.canBuy = g.canBuy
      /\ cut.auction = g.auction /\ cut.debts = g.debts
  BY <1>1 DEF GameState, SameSeats
<1> HIDE DEF cut
<1>4. Good(cut)
  BY <1>2, <1>3, SameSeatsGood DEF Good, Rights
<1>5. cut.status = "run" /\ cut.turn = p
  BY <1>1, <1>3 DEF Good, Rights, GameState, SameSeats
<1>6. Good(UpdateTurn(cut)) /\ SameTable(cut, UpdateTurn(cut))
  BY <1>4, <1>5, UpdateTurnGood
<1>7. \E q \in Active(cut) : q # cut.turn
  BY <1>4, <1>5 DEF Good, Alive
<1>8. UpdateTurn(cut).turn = NextPlayer(cut)
  BY <1>2 DEF UpdateTurn, GameState
<1>9. UpdateTurn(cut).turn # p
  BY <1>2, <1>5, <1>7, <1>8, NextPlayerOther
<1>10. cut.status = g.status
  BY <1>3 DEF SameSeats
<1> QED
  BY <1>2, <1>3, <1>4, <1>5, <1>6, <1>9, <1>10 DEF SameTable, cut

\* removePlayer, of a player, a bankrupt or a spectator, in any game
LEMMA RemovePlayerGood ==
  ASSUME NEW g, Good(g), NEW p \in g.members
  PROVE  /\ Good(RemovePlayer(g, p))
         /\ KeepsAuction(g, RemovePlayer(g, p))
         /\ p \notin RemovePlayer(g, p).members
<1> DEFINE g1  == IF p = g.turn
                  THEN UpdateTurn([g EXCEPT !.paused = FALSE, !.moving = @ \ Connected(g)])
                  ELSE g
           g2  == [g1 EXCEPT !.members = @ \ {p}, !.moving = @ \ {p},
                             !.dest = @ \ {p}]
           g3  == IF g1.status = "run" THEN Bankrupt(g2, p) ELSE g2
<1>1. p \in Players
  BY DEF Good, GameState
<1>2. Good(g1) /\ g1.status = g.status /\ g1.turn # p /\ g1.auction = g.auction
  BY HandOverGood
<1>3. RemovePlayer(g, p) = Forget(g3, p)
  BY <1>2 DEF RemovePlayer
<1> HIDE DEF g1
<1>4. Good(g3) /\ p \notin g3.members /\ KeepsAuction(g1, g3)
  BY <1>1, <1>2, ErasedGood
<1> HIDE DEF g3
<1>5. /\ Good(Forget(g3, p)) /\ KeepsAuction(g3, Forget(g3, p))
      /\ Forget(g3, p).members = g3.members
  BY <1>1, <1>4, ForgetGood
<1> QED
  BY <1>2, <1>3, <1>4, <1>5 DEF KeepsAuction

-----------------------------------------------------------------------------
(* Landing *)

\* the turn holder, bankrupt or not, is charged after landing
LEMMA ChargeGood ==
  ASSUME NEW g, Good(g), g.status = "run",
         NEW to \in Active(g) \union {Bank}, NEW broke \in BOOLEAN
  PROVE  /\ Good(NewDebt(g, g.turn, to, broke))
         /\ KeepsAuction(g, NewDebt(g, g.turn, to, broke))
<1>1. CASE g.turn \in Active(g)
  BY <1>1, NewDebtGood
<1>2. CASE g.turn \notin Active(g)
  <2>1. g.turn \in g.bankrupt \union g.spectators
    BY <1>2 DEF Good, Rights, Active
  <2> QED
    BY <2>1 DEF NewDebt, KeepsAuction
<1> QED
  BY <1>1, <1>2

\* the turn holder owes every other active player
LEMMA NewDebtToAllGood ==
  ASSUME NEW g, Good(g), g.status = "run"
  PROVE  Good(NewDebtToAll(g, g.turn)) /\ KeepsAuction(g, NewDebtToAll(g, g.turn))
<1> DEFINE p   == g.turn
           new == {Debt(p, q) : q \in Active(g) \ {p}}
           h   == [g EXCEPT !.debts = @ \union new]
<1>1. CASE p \in g.bankrupt \union g.spectators
  BY <1>1 DEF NewDebtToAll, KeepsAuction
<1>2. CASE p \notin g.bankrupt \union g.spectators
  <2>1. p \in Active(g) /\ Active(g) \subseteq Players
    BY <1>2 DEF Good, Rights, Active, GameState
  <2>2. \A d \in new : /\ d \in [from : Players, to : 0..Hammer]
                       /\ {d.from, d.to} \subseteq Active(g) \union {Bank}
    BY <2>1, DebtType
  <2>3. NewDebtToAll(g, p) = h
    BY <1>2 DEF NewDebtToAll
  <2> HIDE DEF new
  <2>4. Good(h) /\ h.auction = g.auction
    BY <2>2, AddDebtsGood
  <2> QED
    BY <2>3, <2>4 DEF KeepsAuction
<1> QED
  BY <1>1, <1>2

\* toJail takes rights and gives none
LEMMA ToJailGood ==
  ASSUME NEW g, Good(g), NEW p \in Players
  PROVE  /\ Good(ToJail(g, p))
         /\ ToJail(g, p).status = g.status
         /\ ToJail(g, p).auction = g.auction
<1> DEFINE h == ToJail(g, p)
<1>1. g \in GameState
  BY DEF Good
<1>2. h \in GameState
  <2>1. /\ [g.jailCount EXCEPT ![p] = 1] \in [Players -> 0..3]
        /\ [g.doubleCount EXCEPT ![p] = 0] \in [Players -> 0..3]
    BY <1>1, CountType
  <2>2. g.canRoll \ {p} \in SUBSET Players /\ g.jailed \union {p} \in SUBSET Players
    BY <1>1 DEF GameState
  <2> QED
    BY <1>1, <2>1, <2>2 DEF ToJail, GameState
<1>3. /\ SameSeats(g, h) /\ h.canRoll = g.canRoll \ {p}
      /\ h.canRollAgain = g.canRollAgain /\ h.canBuy = g.canBuy
      /\ h.auction = g.auction /\ h.debts = g.debts
  BY <1>1 DEF ToJail, GameState, SameSeats
<1> HIDE DEF h
<1>4. Good(h) /\ h.status = g.status
  BY <1>2, <1>3, SameSeatsGood DEF SameSeats, Good, Rights
<1> QED
  BY <1>3, <1>4 DEF h

\* every outcome of landPlayer
LEMMA LandingsGood ==
  ASSUME NEW g, Good(g), g.status = "run", NEW l \in Landings(g)
  PROVE  Good(l) /\ KeepsAuction(g, l)
<1> DEFINE p == g.turn
           h == [g EXCEPT !.dest = @ \ {p}]
           offer  == [h EXCEPT !.canRoll = @ \ {p}, !.canBuy = @ \union {p}]
           dialog == [h EXCEPT !.paused = TRUE]
<1>1. g \in GameState /\ p \in Players /\ p \in g.hasTurn
  BY ZeroIsNobody DEF Good, Rights, GameState
<1>2. Good(h) /\ h.status = "run" /\ h.turn = p /\ h.auction = g.auction
  <2>1. h \in GameState
    BY <1>1 DEF GameState
  <2>2. /\ SameSeats(g, h) /\ h.canRoll = g.canRoll
        /\ h.canRollAgain = g.canRollAgain /\ h.canBuy = g.canBuy
        /\ h.auction = g.auction /\ h.debts = g.debts
    BY <1>1 DEF GameState, SameSeats
  <2> HIDE DEF h
  <2> QED
    BY <2>1, <2>2, SameSeatsGood DEF SameSeats, Good, Rights
<1>3. Good(offer) /\ offer.auction = g.auction
  <2>1. offer \in GameState
    BY <1>1 DEF GameState
  <2>2. /\ SameSeats(g, offer) /\ offer.canRoll = g.canRoll \ {p}
        /\ offer.canRollAgain = g.canRollAgain
        /\ offer.canBuy = g.canBuy \union {p}
        /\ offer.auction = g.auction /\ offer.debts = g.debts
    BY <1>1 DEF GameState, SameSeats
  <2> HIDE DEF offer
  <2> QED
    BY <1>1, <2>1, <2>2, SameSeatsGood DEF Good, Rights
<1>4. Good(dialog) /\ dialog.auction = g.auction
  <2>1. dialog \in GameState
    BY <1>1 DEF GameState
  <2>2. /\ SameSeats(g, dialog) /\ dialog.canRoll = g.canRoll
        /\ dialog.canRollAgain = g.canRollAgain /\ dialog.canBuy = g.canBuy
        /\ dialog.auction = g.auction /\ dialog.debts = g.debts
    BY <1>1 DEF GameState, SameSeats
  <2> HIDE DEF dialog
  <2> QED
    BY <2>1, <2>2, SameSeatsGood DEF Good, Rights
<1> HIDE DEF h
<1>5. Good(UpdateTurn(ToJail(h, p))) /\ UpdateTurn(ToJail(h, p)).auction = h.auction
  BY <1>1, <1>2, ToJailGood, UpdateTurnGood DEF SameTable
<1>6. Good(NewDebtToAll(h, p)) /\ KeepsAuction(h, NewDebtToAll(h, p))
  BY <1>2, NewDebtToAllGood
<1>7. ASSUME NEW c \in (Active(h) \ {p}) \union {Bank}, NEW b \in BOOLEAN
      PROVE  Good(NewDebt(h, p, c, b)) /\ KeepsAuction(h, NewDebt(h, p, c, b))
  BY <1>2, ChargeGood
<1>8. \/ l \in {h, offer, dialog, UpdateTurn(ToJail(h, p)), NewDebtToAll(h, p)}
      \/ \E c \in (Active(h) \ {p}) \union {Bank}, b \in BOOLEAN :
           l = NewDebt(h, p, c, b)
  BY DEF Landings, h
<1> HIDE DEF offer, dialog
<1> QED
  BY <1>2, <1>3, <1>4, <1>5, <1>6, <1>7, <1>8 DEF KeepsAuction

\* tokens arrive, the last of them lands the turn holder
LEMMA ArrivalsGood ==
  ASSUME NEW g, Good(g), g.status = "run", NEW ps, NEW r \in Arrivals(g, ps)
  PROVE  Good(r) /\ KeepsAuction(g, r)
<1> DEFINE h == [g EXCEPT !.moving = @ \ ps]
<1>1. g \in GameState
  BY DEF Good
<1>2. Good(h) /\ h.status = "run" /\ h.auction = g.auction
  <2>1. h \in GameState
    BY <1>1 DEF GameState
  <2>2. /\ SameSeats(g, h) /\ h.canRoll = g.canRoll
        /\ h.canRollAgain = g.canRollAgain /\ h.canBuy = g.canBuy
        /\ h.auction = g.auction /\ h.debts = g.debts
    BY <1>1 DEF GameState, SameSeats
  <2> HIDE DEF h
  <2> QED
    BY <2>1, <2>2, SameSeatsGood DEF SameSeats, Good, Rights
<1>3. ASSUME NEW l \in Landings(h)
      PROVE  Good(EndTurnIfAny(l)) /\ KeepsAuction(h, EndTurnIfAny(l))
  <2>1. Good(l) /\ KeepsAuction(h, l)
    BY <1>2, LandingsGood
  <2>2. l.turn # NoPlayer => l.status = "run"
    BY <2>1 DEF Good, Rights, GameState
  <2>3. l.turn # NoPlayer => Good(EndTurn(l, FALSE)) /\ EndTurn(l, FALSE).auction = l.auction
    BY <2>1, <2>2, EndTurnGood DEF SameTable
  <2> QED
    BY <2>1, <2>3 DEF EndTurnIfAny, KeepsAuction
<1> HIDE DEF h
<1>4. r = h \/ \E l \in Landings(h) : r = EndTurnIfAny(l)
  BY DEF Arrivals, h
<1> QED
  BY <1>2, <1>3, <1>4 DEF KeepsAuction

-----------------------------------------------------------------------------
(* The actions *)

\* what the command gate grants
LEMMA MayCommandFacts ==
  ASSUME Good(game), NEW p, MayCommand(p)
  PROVE  /\ game \in GameState /\ game.status = "run"
         /\ p \in Active(game) /\ p \in game.members /\ p \in Players
BY DEF Good, MayCommand, Active, GameState

\* only the turn holder's own commands pass the whole gate
LEMMA MayPlayFacts ==
  ASSUME Good(game), NEW p, MayPlay(p)
  PROVE  /\ game \in GameState /\ game.status = "run"
         /\ p \in Active(game) /\ p \in Players
         /\ p = game.turn /\ p \in game.hasTurn
<1>1. MayCommand(p) /\ p \in game.hasTurn
  BY DEF MayPlay, MayBid, MayDecide
<1>2. p = game.turn
  BY <1>1 DEF Good, Rights
<1> QED
  BY <1>1, <1>2, MayCommandFacts

\* a step that leaves the auction alone or closes it, and its timer alone
LEMMA StepGood ==
  ASSUME IInv, Good(game'), KeepsAuction(game, game'),
         tokenTimer' \in BOOLEAN, auctionTimer' = auctionTimer
  PROVE  IInv'
<1>1. game'.auction = game.auction \/ ~game'.auction.open
  BY DEF KeepsAuction, NoAuction
<1> QED
  BY <1>1 DEF IInv

\* a move gives no right
LEMMA StartMoveGood ==
  ASSUME NEW g, Good(g), NEW p \in Players
  PROVE  Good(StartMove(g, p)) /\ StartMove(g, p).auction = g.auction
<1> DEFINE h == StartMove(g, p)
<1>1. g \in GameState
  BY DEF Good
<1>2. h \in GameState
  BY <1>1 DEF StartMove, Connected, GameState
<1>3. /\ SameSeats(g, h) /\ h.canRoll = g.canRoll
      /\ h.canRollAgain = g.canRollAgain /\ h.canBuy = g.canBuy
      /\ h.auction = g.auction /\ h.debts = g.debts
  BY <1>1 DEF StartMove, GameState, SameSeats
<1> HIDE DEF h
<1>4. Good(h)
  BY <1>2, <1>3, SameSeatsGood DEF Good, Rights
<1> QED
  BY <1>3, <1>4 DEF h

\* a roll: single, double, or the third double
LEMMA RollGood ==
  ASSUME IInv, NEW p \in Players, Roll(p)
  PROVE  IInv'
<1>1. Good(game) /\ MayPlay(p)
  BY DEF IInv, Roll
<1>2. /\ game \in GameState /\ game.status = "run"
      /\ p \in Active(game) /\ p = game.turn /\ p \in game.hasTurn
  BY <1>1, MayPlayFacts
<1>3. tokenTimer' \in BOOLEAN /\ auctionTimer' = auctionTimer
  BY DEF Roll
<1>4. CASE game' = game
  BY <1>1, <1>3, <1>4, StepGood DEF KeepsAuction
<1>5. CASE game' # game
  <2> DEFINE g == [game EXCEPT !.canRoll = @ \ {p}, !.canRollAgain = @ \ {p}]
             n == game.doubleCount[p] + 1
             single == [g EXCEPT !.doubleCount[p] = 0]
             double == [g EXCEPT !.doubleCount[p] = n,
                                 !.canRollAgain = @ \union {p}]
  <2>1. game.doubleCount[p] \in 0..3
    BY <1>2 DEF GameState
  <2>2. Good(g) /\ g.status = "run" /\ g.auction = game.auction
    <3>1. g \in GameState
      BY <1>2 DEF GameState
    <3>2. /\ SameSeats(game, g) /\ g.canRoll = game.canRoll \ {p}
          /\ g.canRollAgain = game.canRollAgain \ {p} /\ g.canBuy = game.canBuy
          /\ g.auction = game.auction /\ g.debts = game.debts
      BY <1>2 DEF GameState, SameSeats
    <3> HIDE DEF g
    <3> QED
      BY <1>1, <1>2, <3>1, <3>2, SameSeatsGood DEF SameSeats, Good, Rights
  <2>3. g \in GameState /\ p \in g.hasTurn
    BY <1>2, <2>2 DEF Good, GameState
  <2> HIDE DEF g
  <2>4. Good(single) /\ single.auction = g.auction
    <3>1. single \in GameState
      <4>1. [g.doubleCount EXCEPT ![p] = 0] \in [Players -> 0..3]
        BY <2>3, CountType
      <4> QED
        BY <2>3, <4>1 DEF GameState
    <3>2. /\ SameSeats(g, single) /\ single.canRoll = g.canRoll
          /\ single.canRollAgain = g.canRollAgain /\ single.canBuy = g.canBuy
          /\ single.auction = g.auction /\ single.debts = g.debts
      BY <2>3 DEF GameState, SameSeats
    <3> HIDE DEF single
    <3> QED
      BY <2>2, <3>1, <3>2, SameSeatsGood DEF Good, Rights
  <2>5. ASSUME n < 3
        PROVE  Good(double) /\ double.auction = g.auction
    <3>1. double \in GameState
      <4>1. n \in 0..3
        BY <2>1, <2>5
      <4>2. [g.doubleCount EXCEPT ![p] = n] \in [Players -> 0..3]
        BY <2>3, <4>1, CountType
      <4>3. g.canRollAgain \union {p} \in SUBSET Players
        BY <2>3 DEF GameState
      <4> QED
        BY <2>3, <4>2, <4>3 DEF GameState
    <3>2. /\ SameSeats(g, double) /\ double.canRoll = g.canRoll
          /\ double.canRollAgain = g.canRollAgain \union {p}
          /\ double.canBuy = g.canBuy
          /\ double.auction = g.auction /\ double.debts = g.debts
      BY <2>3 DEF GameState, SameSeats
    <3> HIDE DEF double, n
    <3> QED
      BY <2>2, <2>3, <3>1, <3>2, SameSeatsGood DEF Good, Rights
  <2>6. /\ Good(UpdateTurn(ToJail(g, p)))
        /\ UpdateTurn(ToJail(g, p)).auction = g.auction
    BY <2>2, ToJailGood, UpdateTurnGood DEF SameTable
  <2>7. \/ game' = StartMove(single, p)
        \/ n < 3 /\ game' = StartMove(double, p)
        \/ game' = UpdateTurn(ToJail(g, p))
    BY <1>5 DEF Roll, g
  <2> HIDE DEF single, double, n
  <2>8. Good(game') /\ KeepsAuction(game, game')
    BY <2>2, <2>4, <2>5, <2>6, <2>7, StartMoveGood DEF KeepsAuction
  <2> QED
    BY <1>3, <2>8, StepGood
<1> QED
  BY <1>4, <1>5

\* a player is let out of jail
LEMMA OutOfJailGood ==
  ASSUME NEW g, Good(g), NEW p \in Players
  PROVE  LET h == [g EXCEPT !.jailed = @ \ {p}, !.jailCount[p] = 0]
         IN  /\ Good(h)
             /\ SameSeats(g, h) /\ h.canRoll = g.canRoll
             /\ h.canRollAgain = g.canRollAgain /\ h.canBuy = g.canBuy
             /\ h.auction = g.auction /\ h.debts = g.debts
<1> DEFINE h == [g EXCEPT !.jailed = @ \ {p}, !.jailCount[p] = 0]
<1>1. g \in GameState
  BY DEF Good
<1>2. h \in GameState
  <2>1. [g.jailCount EXCEPT ![p] = 0] \in [Players -> 0..3]
    BY <1>1, CountType
  <2>2. g.jailed \ {p} \in SUBSET Players
    BY <1>1 DEF GameState
  <2> QED
    BY <1>1, <2>1, <2>2 DEF GameState
<1>3. /\ SameSeats(g, h) /\ h.canRoll = g.canRoll
      /\ h.canRollAgain = g.canRollAgain /\ h.canBuy = g.canBuy
      /\ h.auction = g.auction /\ h.debts = g.debts
  BY <1>1 DEF GameState, SameSeats
<1> HIDE DEF h
<1>4. Good(h)
  BY <1>2, <1>3, SameSeatsGood DEF Good, Rights
<1> QED
  BY <1>3, <1>4 DEF h

\* a right is granted to the turn holder
LEMMA GrantGood ==
  ASSUME NEW g, Good(g), NEW p \in g.hasTurn
  PROVE  LET again == [g EXCEPT !.canRollAgain = @ \union {p}]
             roll  == [g EXCEPT !.canRoll = @ \union {p}]
         IN  /\ Good(again) /\ SameSeats(g, again) /\ again.auction = g.auction
             /\ Good(roll) /\ SameSeats(g, roll) /\ roll.auction = g.auction
<1> DEFINE again == [g EXCEPT !.canRollAgain = @ \union {p}]
           roll  == [g EXCEPT !.canRoll = @ \union {p}]
<1>1. g \in GameState
  BY DEF Good
<1>2. again \in GameState /\ roll \in GameState
  BY <1>1 DEF GameState
<1>3. /\ SameSeats(g, again) /\ again.canRoll = g.canRoll
      /\ again.canRollAgain = g.canRollAgain \union {p}
      /\ again.canBuy = g.canBuy
      /\ again.auction = g.auction /\ again.debts = g.debts
  BY <1>1 DEF GameState, SameSeats
<1>4. /\ SameSeats(g, roll) /\ roll.canRoll = g.canRoll \union {p}
      /\ roll.canRollAgain = g.canRollAgain /\ roll.canBuy = g.canBuy
      /\ roll.auction = g.auction /\ roll.debts = g.debts
  BY <1>1 DEF GameState, SameSeats
<1> HIDE DEF again, roll
<1>5. Good(again)
  BY <1>2, <1>3, SameSeatsGood DEF Good, Rights
<1>6. Good(roll)
  BY <1>2, <1>4, SameSeatsGood DEF Good, Rights
<1> QED
  BY <1>3, <1>4, <1>5, <1>6 DEF again, roll

\* the doubles that leave the jail
LEMMA JailRollDoublesGood ==
  ASSUME IInv, NEW p \in Players, JailRollDoubles(p)
  PROVE  IInv'
<1> DEFINE h == [game EXCEPT !.jailed = @ \ {p}]
<1>1. Good(game) /\ game \in GameState
  BY DEF IInv, Good
<1>2. Good(h) /\ h.auction = game.auction
  <2>1. h \in GameState
    BY <1>1 DEF GameState
  <2>2. /\ SameSeats(game, h) /\ h.canRoll = game.canRoll
        /\ h.canRollAgain = game.canRollAgain /\ h.canBuy = game.canBuy
        /\ h.auction = game.auction /\ h.debts = game.debts
    BY <1>1 DEF GameState, SameSeats
  <2> HIDE DEF h
  <2> QED
    BY <1>1, <2>1, <2>2, SameSeatsGood DEF Good, Rights
<1>3. game' = StartMove(h, p) /\ tokenTimer' = tokenTimer /\ auctionTimer' = auctionTimer
  BY DEF JailRollDoubles
<1> HIDE DEF h
<1> QED
  BY <1>2, <1>3, StartMoveGood, StepGood DEF IInv, KeepsAuction

\* the missed doubles, and the fine after the third
LEMMA JailRollMissedGood ==
  ASSUME IInv, NEW p \in Players, JailRollMissed(p)
  PROVE  IInv'
<1>1. Good(game) /\ MayPlay(p)
  BY DEF IInv, JailRollMissed
<1>2. /\ game \in GameState /\ game.status = "run"
      /\ p \in Active(game) /\ p = game.turn /\ p \in game.hasTurn
  BY <1>1, MayPlayFacts
<1>3. tokenTimer' \in BOOLEAN /\ auctionTimer' = auctionTimer
  BY DEF IInv, JailRollMissed
<1>4. CASE game.jailCount[p] < 3
  <2> DEFINE u == UpdateTurn(game)
             c == game.jailCount[p] + 1
             h == [u EXCEPT !.jailCount[p] = c]
  <2>1. Good(u) /\ u.auction = game.auction
    BY <1>1, <1>2, UpdateTurnGood DEF SameTable
  <2>2. c \in 0..3
    BY <1>2, <1>4 DEF GameState
  <2>3. u \in GameState
    BY <2>1 DEF Good
  <2>4. game' = h
    BY <1>4 DEF JailRollMissed
  <2> HIDE DEF u, c
  <2>5. Good(h) /\ h.auction = u.auction
    <3>1. h \in GameState
      <4>1. [u.jailCount EXCEPT ![p] = c] \in [Players -> 0..3]
        BY <2>2, <2>3, CountType
      <4> QED
        BY <2>3, <4>1 DEF GameState
    <3>2. /\ SameSeats(u, h) /\ h.canRoll = u.canRoll
          /\ h.canRollAgain = u.canRollAgain /\ h.canBuy = u.canBuy
          /\ h.auction = u.auction /\ h.debts = u.debts
      BY <2>3 DEF GameState, SameSeats
    <3> HIDE DEF h
    <3> QED
      BY <2>1, <3>1, <3>2, SameSeatsGood DEF Good, Rights
  <2> HIDE DEF h
  <2> QED
    BY <1>3, <2>1, <2>4, <2>5, StepGood DEF KeepsAuction
<1>5. CASE ~(game.jailCount[p] < 3)
  <2> DEFINE g     == [game EXCEPT !.jailed = @ \ {p}, !.jailCount[p] = 0]
             again == [g EXCEPT !.canRollAgain = @ \union {p}]
             roll  == [g EXCEPT !.canRoll = @ \union {p}]
  <2>1. \/ game' = roll
        \/ \E broke \in BOOLEAN : game' = NewDebt(again, p, Bank, broke)
    BY <1>5 DEF JailRollMissed
  <2>2. Good(g) /\ SameSeats(game, g) /\ g.auction = game.auction
    BY <1>1, OutOfJailGood
  <2> HIDE DEF g
  <2>3. p \in g.hasTurn
    BY <1>2, <2>2 DEF SameSeats
  <2>4. /\ Good(again) /\ SameSeats(g, again) /\ again.auction = g.auction
        /\ Good(roll) /\ roll.auction = g.auction
    BY <2>2, <2>3, GrantGood
  <2> HIDE DEF again, roll
  <2>5. again.turn = p /\ again.status = "run"
    BY <1>2, <2>2, <2>4 DEF SameSeats
  <2>6. ASSUME NEW broke \in BOOLEAN
        PROVE  /\ Good(NewDebt(again, p, Bank, broke))
               /\ KeepsAuction(again, NewDebt(again, p, Bank, broke))
    BY <2>4, <2>5, ChargeGood
  <2>7. Good(game') /\ KeepsAuction(game, game')
    BY <2>1, <2>2, <2>4, <2>6 DEF KeepsAuction
  <2> QED
    BY <1>3, <2>7, StepGood
<1> QED
  BY <1>4, <1>5

\* out of jail, to roll
LEMMA LeaveJailGood ==
  ASSUME IInv, NEW p \in Players, LeaveJail(p)
  PROVE  IInv'
<1> DEFINE g == [game EXCEPT !.jailed = @ \ {p}, !.jailCount[p] = 0]
           h == [g EXCEPT !.canRoll = @ \union {p}]
<1>1. Good(game) /\ MayPlay(p)
  BY DEF IInv, LeaveJail
<1>2. game \in GameState /\ p \in game.hasTurn
  BY <1>1, MayPlayFacts
<1>3. game' = h /\ tokenTimer' \in BOOLEAN /\ auctionTimer' = auctionTimer
  BY <1>2 DEF IInv, LeaveJail, GameState
<1>4. Good(g) /\ SameSeats(game, g) /\ g.auction = game.auction
  BY <1>1, OutOfJailGood
<1> HIDE DEF g
<1>5. Good(h) /\ h.auction = g.auction
  BY <1>2, <1>4, GrantGood DEF SameSeats
<1> HIDE DEF h
<1> QED
  BY <1>3, <1>4, <1>5, StepGood DEF KeepsAuction

\* the offer to the turn holder is withdrawn
LEMMA NoOfferGood ==
  ASSUME NEW g, Good(g), NEW p
  PROVE  LET h == [g EXCEPT !.canBuy = @ \ {p}]
         IN  Good(h) /\ h.status = g.status /\ h.auction = g.auction
<1> DEFINE h == [g EXCEPT !.canBuy = @ \ {p}]
<1>1. g \in GameState
  BY DEF Good
<1>2. h \in GameState
  BY <1>1 DEF GameState
<1>3. /\ SameSeats(g, h) /\ h.canRoll = g.canRoll
      /\ h.canRollAgain = g.canRollAgain /\ h.canBuy = g.canBuy \ {p}
      /\ h.auction = g.auction /\ h.debts = g.debts
  BY <1>1 DEF GameState, SameSeats
<1> HIDE DEF h
<1>4. Good(h)
  BY <1>2, <1>3, SameSeatsGood DEF Good, Rights
<1> QED
  BY <1>3, <1>4 DEF SameSeats, h

\* the offer is taken
LEMMA BuyEstateGood ==
  ASSUME IInv, NEW p \in Players, BuyEstate(p)
  PROVE  IInv'
<1> DEFINE h == [game EXCEPT !.canBuy = @ \ {p}]
<1>1. Good(game) /\ MayPlay(p)
  BY DEF IInv, BuyEstate
<1>2. game.status = "run"
  BY <1>1, MayPlayFacts
<1>3. /\ game' = EndTurn(h, FALSE)
      /\ tokenTimer' \in BOOLEAN /\ auctionTimer' = auctionTimer
  BY DEF IInv, BuyEstate
<1>4. Good(h) /\ h.status = "run" /\ h.auction = game.auction
  BY <1>1, <1>2, NoOfferGood
<1> HIDE DEF h
<1> QED
  BY <1>3, <1>4, EndTurnGood, StepGood DEF KeepsAuction, SameTable

\* the turn ends on demand
LEMMA EndTurnAskedGood ==
  ASSUME IInv, NEW p \in Players, EndTurnAsked(p)
  PROVE  IInv'
<1>1. Good(game) /\ MayPlay(p)
  BY DEF IInv, EndTurnAsked
<1>2. game.status = "run"
  BY <1>1, MayPlayFacts
<1>3. /\ game' = EndTurn(game, TRUE)
      /\ tokenTimer' \in BOOLEAN /\ auctionTimer' = auctionTimer
  BY DEF IInv, EndTurnAsked
<1> QED
  BY <1>1, <1>2, <1>3, EndTurnGood, StepGood DEF KeepsAuction, SameTable

\* the dialog closes before the tax is charged
LEMMA PayTaxGood ==
  ASSUME IInv, NEW p \in Players, PayTax(p)
  PROVE  IInv'
<1> DEFINE g == [game EXCEPT !.paused = FALSE]
<1>1. Good(game) /\ MayCommand(p) /\ p \in game.hasTurn
  BY DEF IInv, PayTax, MayDecide
<1>2. game \in GameState /\ game.status = "run" /\ p = game.turn
  BY <1>1, MayCommandFacts DEF Good, Rights
<1>3. /\ \/ game' = EndTurn(g, FALSE)
         \/ \E broke \in BOOLEAN : game' = NewDebt(g, p, Bank, broke)
      /\ tokenTimer' \in BOOLEAN /\ auctionTimer' = auctionTimer
  BY DEF IInv, PayTax
<1>4. /\ Good(g) /\ g.status = "run" /\ g.turn = p
      /\ g.auction = game.auction
  <2>1. g \in GameState
    BY <1>2 DEF GameState
  <2>2. /\ SameSeats(game, g) /\ g.canRoll = game.canRoll
        /\ g.canRollAgain = game.canRollAgain /\ g.canBuy = game.canBuy
        /\ g.auction = game.auction /\ g.debts = game.debts
    BY <1>2 DEF GameState, SameSeats
  <2> HIDE DEF g
  <2>3. Good(g)
    BY <1>1, <2>1, <2>2, SameSeatsGood DEF Good, Rights
  <2> QED
    BY <1>2, <2>2, <2>3 DEF SameSeats
<1> HIDE DEF g
<1>5. Good(EndTurn(g, FALSE)) /\ KeepsAuction(g, EndTurn(g, FALSE))
  BY <1>4, EndTurnGood DEF KeepsAuction, SameTable
<1>6. ASSUME NEW broke \in BOOLEAN
      PROVE  /\ Good(NewDebt(g, p, Bank, broke))
             /\ KeepsAuction(g, NewDebt(g, p, Bank, broke))
  BY <1>4, ChargeGood
<1>7. Good(game') /\ KeepsAuction(game, game')
  BY <1>3, <1>4, <1>5, <1>6 DEF KeepsAuction
<1> QED
  BY <1>3, <1>7, StepGood

\* only the auction changes, among those who play
LEMMA AuctionSetGood ==
  ASSUME NEW g, Good(g), g.status = "run",
         NEW a \in [open : BOOLEAN, status : 0..Sold,
                    bidder : Players \union {NoPlayer}, bid : 0..MaxBid],
         a.open, a.status # Sold, a.bidder \in Active(g) \union {NoPlayer},
         HammerDebts(g) = {}
  PROVE  LET h == [g EXCEPT !.auction = a] IN Good(h) /\ h.auction = a
<1> DEFINE h == [g EXCEPT !.auction = a]
<1>1. g \in GameState
  BY DEF Good
<1>2. h \in GameState
  BY <1>1 DEF GameState
<1>3. /\ SameSeats(g, h) /\ h.canRoll = g.canRoll
      /\ h.canRollAgain = g.canRollAgain /\ h.canBuy = g.canBuy
      /\ h.auction = a /\ h.debts = g.debts
  BY <1>1 DEF GameState, SameSeats
<1> HIDE DEF h
<1>4. Active(h) = Active(g) /\ HammerDebts(h) = {}
  BY <1>3 DEF SameSeats, Active, HammerDebts
<1>5. Good(h)
  BY <1>2, <1>3, <1>4 DEF SameSeats, Good, Rights, Alive, Among, Hammered
<1> QED
  BY <1>3, <1>5 DEF h

\* a new auction has no bidder and no timer
LEMMA NewAuctionGood ==
  ASSUME IInv, NEW p \in Players, NewAuction(p)
  PROVE  IInv'
<1> DEFINE a == [game.auction EXCEPT !.open = TRUE]
           h == [game EXCEPT !.canBuy = @ \ {p}]
<1>1. Good(game) /\ MayPlay(p) /\ ~game.auction.open
  BY DEF IInv, NewAuction, MayPlay
<1>2. game \in GameState /\ game.status = "run"
  BY <1>1, MayPlayFacts
<1>3. game.auction = NoAuction /\ HammerDebts(game) = {}
  BY <1>1, <1>2 DEF Good, Hammered
<1>4. /\ a \in [open : BOOLEAN, status : 0..Sold,
                bidder : Players \union {NoPlayer}, bid : 0..MaxBid]
      /\ a.open /\ a.status # Sold /\ a.bidder = NoPlayer
  <2>1. game.auction \in [open : BOOLEAN, status : 0..Sold,
                          bidder : Players \union {NoPlayer}, bid : 0..MaxBid]
    BY <1>2 DEF GameState
  <2>2. game.auction.status # Sold /\ game.auction.bidder = NoPlayer
    BY <1>3 DEF NoAuction, Sold
  <2> QED
    BY <2>1, <2>2
<1>5. Good(h) /\ h.status = "run"
  BY <1>1, <1>2, NoOfferGood
<1>6. HammerDebts(h) = {}
  BY <1>2, <1>3 DEF HammerDebts, GameState
<1>7. game' = [h EXCEPT !.auction = a]
  BY <1>2 DEF NewAuction, GameState
<1>8. tokenTimer' \in BOOLEAN /\ auctionTimer' = FALSE
  BY DEF IInv, NewAuction
<1> HIDE DEF a, h
<1>9. Good(game')
  BY <1>4, <1>5, <1>6, <1>7, AuctionSetGood
<1> QED
  BY <1>8, <1>9 DEF IInv

\* a bid restarts the countdown for a bidder who plays
LEMMA BidGood ==
  ASSUME IInv, NEW p \in Players, Bid(p)
  PROVE  IInv'
<1>1. Good(game) /\ MayCommand(p) /\ game.auction.open /\ game.auction.status # Sold
  BY DEF IInv, Bid, MayBid, MayDecide
<1>2. /\ game \in GameState /\ game.status = "run"
      /\ p \in Active(game) /\ p \in Players
  BY <1>1, MayCommandFacts
<1>3. HammerDebts(game) = {}
  BY <1>1, <1>2 DEF Good, Hammered
<1>4. PICK b \in (game.auction.bid + 1)..MaxBid :
        game' = [game EXCEPT !.auction = [@ EXCEPT !.status = 0, !.bidder = p,
                                                   !.bid = b]]
  BY DEF Bid
<1> DEFINE a == [game.auction EXCEPT !.status = 0, !.bidder = p, !.bid = b]
<1>5. b \in 0..MaxBid
  BY <1>2, <1>4, ConstantsAssumption DEF GameState
<1>6. /\ a \in [open : BOOLEAN, status : 0..Sold,
                bidder : Players \union {NoPlayer}, bid : 0..MaxBid]
      /\ a.open /\ a.status # Sold /\ a.bidder = p
  <2>1. game.auction \in [open : BOOLEAN, status : 0..Sold,
                          bidder : Players \union {NoPlayer}, bid : 0..MaxBid]
    BY <1>2 DEF GameState
  <2>2. 0 \in 0..Sold /\ 0 # Sold
    BY DEF Sold
  <2> QED
    BY <1>1, <1>2, <1>5, <2>1, <2>2
<1>7. game' = [game EXCEPT !.auction = a]
  BY <1>4
<1> HIDE DEF a
<1>8. Good(game') /\ game'.auction = a
  BY <1>1, <1>2, <1>3, <1>6, <1>7, AuctionSetGood
<1>9. tokenTimer' \in BOOLEAN /\ auctionTimer' = TRUE /\ p # NoPlayer
  BY ZeroIsNobody DEF IInv, Bid
<1> QED
  BY <1>6, <1>8, <1>9 DEF IInv

\* the countdown, and the sale it ends with
LEMMA AuctionTimeoutGood ==
  ASSUME IInv, AuctionTimeout
  PROVE  IInv'
<1> DEFINE next == game.auction.status + 1
           p    == game.auction.bidder
           a    == [game.auction EXCEPT !.status = next]
           g    == [game EXCEPT !.auction.status = next]
<1>1. Good(game) /\ game \in GameState /\ auctionTimer /\ tokenTimer' \in BOOLEAN
  BY DEF IInv, Good, AuctionTimeout
<1>2. auctionTimer' = (game.auction.open /\ next # Sold)
  BY DEF AuctionTimeout
<1>3. CASE ~game.auction.open
  BY <1>1, <1>2, <1>3 DEF IInv, AuctionTimeout
<1>4. CASE game.auction.open
  <2>1. game.status = "run"
    BY <1>1, <1>4 DEF Good, GameState, NoAuction
  <2>2. /\ p \in Active(game) /\ p # NoPlayer /\ p \in Players
        /\ game.auction.status # Sold /\ HammerDebts(game) = {}
    BY <1>1, <1>4, <2>1 DEF IInv, Good, Among, Hammered, Active, GameState
  <2>3. next \in 0..Sold
    BY <1>1, <2>2 DEF GameState, Sold
  <2>4. /\ a \in [open : BOOLEAN, status : 0..Sold,
                  bidder : Players \union {NoPlayer}, bid : 0..MaxBid]
        /\ a.open /\ a.status = next /\ a.bidder = p
    BY <1>1, <1>4, <2>3 DEF GameState
  <2>5. g = [game EXCEPT !.auction = a]
    BY <1>1 DEF GameState
  <2>6. CASE next # Sold
    <3>1. game' = g
      BY <1>4, <2>6 DEF AuctionTimeout
    <3> HIDE DEF a, g, next, p
    <3>2. Good(game') /\ game'.auction = a
      BY <1>1, <2>1, <2>2, <2>4, <2>5, <2>6, <3>1, AuctionSetGood
    <3>3. auctionTimer' \in BOOLEAN
      BY <1>1, <1>2, <1>4, <2>6
    <3> QED
      BY <1>1, <2>2, <2>4, <2>6, <3>2, <3>3 DEF IInv
  <2>7. CASE next = Sold
    <3> DEFINE done == [game EXCEPT !.auction = NoAuction]
               h    == [g EXCEPT !.debts = @ \union {Debt(p, Hammer)}]
    <3>1. Good(done) /\ done.status = "run"
      <4>1. done \in GameState
        BY <1>1, NoAuctionType DEF GameState
      <4>2. /\ SameSeats(game, done) /\ done.canRoll = game.canRoll
            /\ done.canRollAgain = game.canRollAgain
            /\ done.canBuy = game.canBuy
            /\ done.auction = NoAuction /\ done.debts = game.debts
        BY <1>1 DEF GameState, SameSeats
      <4> HIDE DEF done
      <4>3. Active(done) = Active(game) /\ HammerDebts(done) = {}
        BY <2>2, <4>2 DEF SameSeats, Active, HammerDebts
      <4> QED
        BY <1>1, <2>1, <4>1, <4>2, <4>3
           DEF SameSeats, Good, Rights, Alive, Among, Hammered, NoAuction
    <3>2. Good(h) /\ h.status = "run" /\ p \in Active(h)
      <4>1. {Debt(p, Hammer)} \in SUBSET [from : Players, to : 0..Hammer]
        BY <2>2, ConstantsAssumption DEF Debt, Hammer
      <4>2. g \in GameState
        BY <1>1, <2>4, <2>5 DEF GameState
      <4>3. h \in GameState
        BY <4>1, <4>2 DEF GameState
      <4>4. /\ SameSeats(game, h) /\ h.canRoll = game.canRoll
            /\ h.canRollAgain = game.canRollAgain /\ h.canBuy = game.canBuy
            /\ h.auction = a
            /\ h.debts = game.debts \union {Debt(p, Hammer)}
        BY <1>1, <2>5 DEF GameState, SameSeats
      <4> HIDE DEF h, a, g, next, p
      <4>5. Active(h) = Active(game)
        BY <4>4 DEF SameSeats, Active
      <4>6. Debt(p, Hammer).from = p /\ Debt(p, Hammer).to = Hammer
        BY DEF Debt
      <4>7. HammerDebts(h) = {Debt(p, Hammer)}
        BY <2>2, <4>4, <4>6 DEF HammerDebts
      <4>8. Hammered(h)
        BY <2>4, <2>7, <4>4, <4>7 DEF Hammered
      <4>9. Among(h, Active(h))
        BY <1>1, <2>1, <2>2, <2>4, <4>4, <4>5, <4>6 DEF Good, Among
      <4> QED
        BY <1>1, <2>1, <2>2, <4>3, <4>4, <4>5, <4>8, <4>9
           DEF SameSeats, Good, Rights, Alive
    <3>3. \/ game' = EndTurn(done, FALSE)
          \/ \E broke \in BOOLEAN : game' = NewDebt(g, p, Hammer, broke)
      BY <1>4, <2>7 DEF AuctionTimeout
    <3>4. \A broke \in BOOLEAN : NewDebt(g, p, Hammer, broke) \in {h, Bankrupt(h, p)}
      <4>1. /\ g.bankrupt = game.bankrupt /\ g.spectators = game.spectators
        BY <1>1 DEF GameState
      <4>2. /\ p \notin game.bankrupt \union game.spectators
            /\ Hammer \notin game.bankrupt \union game.spectators
        BY <1>1, <2>2, ZeroIsNobody DEF Active, GameState
      <4> HIDE DEF g, p
      <4> QED
        BY <4>1, <4>2 DEF NewDebt
    <3> HIDE DEF done, h, g, next, p
    <3>5. Good(game')
      BY <3>1, <3>2, <3>3, <3>4, EndTurnGood, ActiveBankruptGood
    <3> QED
      BY <1>1, <1>2, <2>7, <3>5 DEF IInv
  <2> QED
    BY <2>6, <2>7
<1> QED
  BY <1>3, <1>4

\* the turn holder lands on a card that is going to collect
LEMMA CollectsGood ==
  ASSUME Good(game), game.status = "run", NEW ps, Collects(ps)
  PROVE  Good(game') /\ KeepsAuction(game, game') /\ Charging'
<1>1. game \in GameState /\ game.turn \in game.members /\ game.turn \in Players
  BY ZeroIsNobody DEF Good, Rights, GameState
<1>2. game' \in GameState
  BY <1>1 DEF Collects, GameState
<1>3. /\ SameSeats(game, game') /\ game'.canRoll = game.canRoll
      /\ game'.canRollAgain = game.canRollAgain /\ game'.canBuy = game.canBuy
      /\ game'.auction = game.auction /\ game'.debts = game.debts
  BY <1>1 DEF Collects, GameState, SameSeats
<1>4. Good(game') /\ Active(game') = Active(game)
  BY <1>2, <1>3, SameSeatsGood DEF Good, Rights
<1>5. charges' = {Debt(q, game.turn) : q \in Active(game) \ {game.turn}}
  BY DEF Collects
<1>6. Active(game) \subseteq Players
  BY <1>1 DEF Active, GameState
<1>7. Charging'
  <2>1. \A c \in charges' : /\ c.from \in Active(game) \ {game.turn} /\ c.to = game.turn
                            /\ c = Debt(c.from, game.turn)
    BY <1>5 DEF Debt
  <2>2. charges' \subseteq [from : Players, to : Players]
    BY <1>1, <1>5, <1>6 DEF Debt
  <2>3. game'.members = game.members /\ game'.status = "run"
    BY <1>3 DEF SameSeats
  <2> QED
    BY <1>1, <1>4, <2>1, <2>2, <2>3 DEF Charging
<1> QED
  BY <1>3, <1>4, <1>7 DEF KeepsAuction

\* a confirmation lands at most the turn holder and stops at most the token timer
LEMMA ConfirmTokenGood ==
  ASSUME IInv, charges = {}, NEW p \in Players, ConfirmToken(p)
  PROVE  IInv' /\ Charging'
<1>1. Good(game) /\ game.status = "run"
  BY DEF IInv, ConfirmToken
<1>2. \/ Collects({p})
      \/ (game' \in Arrivals(game, {p}) \/ game' = game) /\ charges' = {}
  BY DEF ConfirmToken
<1>3. Good(game') /\ KeepsAuction(game, game') /\ Charging'
  BY <1>1, <1>2, ArrivalsGood, CollectsGood DEF KeepsAuction, Charging
<1>4. tokenTimer' \in BOOLEAN /\ auctionTimer' = auctionTimer
  BY DEF ConfirmToken
<1> QED
  BY <1>3, <1>4, StepGood

\* the timer confirms for everybody; after the end it does nothing
LEMMA TokenTimeoutGood ==
  ASSUME IInv, charges = {}, TokenTimeout
  PROVE  IInv' /\ Charging'
<1>1. Good(game)
  BY DEF IInv
<1>2. \/ game.turn \in game.dest /\ Collects(game.moving)
      \/ /\ game.turn \in game.dest /\ game' \in Arrivals(game, game.moving)
         /\ charges' = {}
      \/ game' = game /\ charges' = {}
  BY DEF TokenTimeout
<1>3. game.turn \in game.dest => game.status = "run"
  BY <1>1, ZeroIsNobody DEF Good, Rights, GameState
<1>4. Good(game') /\ KeepsAuction(game, game') /\ Charging'
  BY <1>1, <1>2, <1>3, ArrivalsGood, CollectsGood DEF KeepsAuction, Charging
<1>5. tokenTimer' \in BOOLEAN /\ auctionTimer' = auctionTimer
  BY DEF TokenTimeout
<1> QED
  BY <1>4, <1>5, StepGood

\* a turn that passes or ends takes nobody out of the game
LEMMA EndTurnKeepsPlayers ==
  ASSUME NEW g \in GameState, NEW h \in {UpdateTurn(g), EndTurn(g, FALSE)}
  PROVE  h.members = g.members /\ h.spectators = g.spectators /\ h.bankrupt = g.bankrupt
<1> DEFINE p == g.turn
           k == [g EXCEPT !.canBuy = @ \ {p}]
           r == [k EXCEPT !.canRoll = @ \union {p}, !.canRollAgain = @ \ {p}]
<1>1. k \in GameState
  BY DEF GameState
<1>2. /\ k.members = g.members /\ k.spectators = g.spectators /\ k.bankrupt = g.bankrupt
      /\ r.members = g.members /\ r.spectators = g.spectators /\ r.bankrupt = g.bankrupt
  BY DEF GameState
<1>3. ASSUME NEW x \in GameState
      PROVE  /\ UpdateTurn(x).members = x.members
             /\ UpdateTurn(x).spectators = x.spectators
             /\ UpdateTurn(x).bankrupt = x.bankrupt
  BY DEF UpdateTurn, GameState
<1>4. h \in {UpdateTurn(g), g, k, r, UpdateTurn(k)}
  BY DEF EndTurn
<1> HIDE DEF k, r
<1> QED
  BY <1>1, <1>2, <1>3, <1>4

\* a debt takes at most its debtor out of the game
LEMMA NewDebtKeepsOthers ==
  ASSUME NEW g \in GameState, NEW from \in Players, NEW to \in Players, NEW broke
  PROVE  LET h == NewDebt(g, from, to, broke)
         IN  h.members = g.members /\ Active(g) \ {from} \subseteq Active(h)
<1> DEFINE h == [g EXCEPT !.debts = @ \union {Debt(from, to)}]
           k == Ruined(h, from)
           e == EndGame(k)
<1>1. h \in GameState
  <2>1. to \in 0..Hammer
    BY ConstantsAssumption DEF Players, Hammer
  <2> QED
    BY <2>1 DEF GameState, Debt
<1>2. h.members = g.members /\ h.spectators = g.spectators /\ h.bankrupt = g.bankrupt
  BY DEF GameState
<1> HIDE DEF h
<1>3. k \in GameState
  BY <1>1, NoAuctionType DEF Ruined, GameState
<1>4. /\ k.members = g.members /\ k.spectators = g.spectators
      /\ k.bankrupt = g.bankrupt \union {from}
  BY <1>1, <1>2 DEF Ruined, GameState
<1>5. NewDebt(g, from, to, broke) \in {g, h, e, k, UpdateTurn(k), EndTurn(k, FALSE)}
  BY DEF NewDebt, Bankrupt, h
<1> HIDE DEF k
<1>6. e.members = k.members /\ e.spectators = k.spectators /\ e.bankrupt = k.bankrupt
  BY <1>3 DEF EndGame, GameState
<1> HIDE DEF e
<1> DEFINE r == NewDebt(g, from, to, broke)
<1>7. /\ r.members = g.members /\ r.spectators = g.spectators
      /\ r.bankrupt \subseteq g.bankrupt \union {from}
  BY <1>2, <1>3, <1>4, <1>5, <1>6, EndTurnKeepsPlayers
<1> HIDE DEF r
<1>8. Active(g) \ {from} \subseteq Active(r)
  BY <1>7 DEF Active
<1> QED
  BY <1>7, <1>8 DEF r

\* a round of a collecting card, which ends the loop or leaves charges of others
LEMMA RoundGood ==
  ASSUME IInv, Charging, NEW c \in charges, Charge(c)
  PROVE  IInv' /\ Charging'
<1>1. /\ Good(game) /\ game.status = "run" /\ game \in GameState
      /\ c.from \in Active(game) /\ c.from \in Players
      /\ c.to \in game.members /\ c.to \in Players
  BY DEF IInv, Charging, Good
<1>2. PICK h \in {game} \union {NewDebt(game, c.from, c.to, b) : b \in BOOLEAN} :
        game' = IF charges' = {} THEN EndTurnIfAny(h) ELSE h
  BY DEF Charge
<1>3. charges' = charges \ {c}
  BY DEF Charge
<1>4. h = game \/ (c.to \in Active(game) /\ \E b \in BOOLEAN : h = NewDebt(game, c.from, c.to, b))
  <2>1. c.to \notin Active(game) => c.to \in game.bankrupt \union game.spectators
    BY <1>1 DEF Active
  <2> QED
    BY <1>2, <2>1 DEF NewDebt
<1>5. Good(h) /\ KeepsAuction(game, h)
  BY <1>1, <1>4, NewDebtGood DEF KeepsAuction
<1>6. /\ h.members = game.members
      /\ Active(game) \ {c.from} \subseteq Active(h)
  BY <1>1, <1>4, NewDebtKeepsOthers
<1>7. CASE charges' = {}
  <2>1. game' = EndTurnIfAny(h)
    BY <1>2, <1>7
  <2>2. h.turn # NoPlayer => h.status = "run"
    BY <1>5 DEF Good, Rights, GameState
  <2>3. h.turn # NoPlayer => Good(EndTurn(h, FALSE)) /\ EndTurn(h, FALSE).auction = h.auction
    BY <1>5, <2>2, EndTurnGood DEF SameTable
  <2>4. Good(game') /\ KeepsAuction(game, game')
    BY <1>5, <2>1, <2>3 DEF EndTurnIfAny, KeepsAuction
  <2>5. tokenTimer' \in BOOLEAN /\ auctionTimer' = auctionTimer
    BY DEF Charge, timers, IInv
  <2> QED
    BY <1>7, <2>4, <2>5, StepGood DEF Charging
<1>8. CASE charges' # {}
  <2>1. game' = h
    BY <1>2, <1>8
  <2>2. tokenTimer' \in BOOLEAN /\ auctionTimer' = auctionTimer
    BY DEF Charge, timers, IInv
  <2>3. IInv'
    BY <1>5, <2>1, <2>2, StepGood
  <2>4. \A d \in charges' : d.from \in Active(game') /\ d.to \in game'.members
    BY <1>3, <1>6, <2>1 DEF Charging
  <2>5. game'.status = "run"
    <3>1. CASE h = game
      BY <1>1, <2>1, <3>1
    <3>2. CASE h # game
      <4>1. PICK d \in charges' : TRUE
        BY <1>8
      <4>2. c.to \in Active(h) /\ d.from \in Active(h) /\ d.from # c.to
        BY <1>3, <1>4, <1>6, <2>1, <2>4, <3>2 DEF Charging
      <4> QED
        BY <1>5, <2>1, <4>2 DEF Good, Alive, GameState
    <3> QED
      BY <3>1, <3>2
  <2> QED
    BY <1>3, <2>3, <2>4, <2>5 DEF Charging
<1> QED
  BY <1>7, <1>8

\* debts paid on demand or from raised money
LEMMA SettleGood ==
  ASSUME IInv, NEW p \in Players, Settle(p)
  PROVE  IInv'
<1>1. Good(game) /\ MayCommand(p)
  BY DEF IInv, Settle
<1>2. game.status = "run"
  BY <1>1, MayCommandFacts
<1>3. /\ \E paid \in SUBSET Owed(game, p) : game' = SolveDebts(game, p, paid)
      /\ tokenTimer' \in BOOLEAN /\ auctionTimer' = auctionTimer
  BY DEF IInv, Settle
<1>4. Good(game') /\ KeepsAuction(game, game')
  BY <1>1, <1>2, <1>3, SolveDebtsGood
<1> QED
  BY <1>3, <1>4, StepGood

\* a debtor gives up
LEMMA DeclareBankruptGood ==
  ASSUME IInv, NEW p \in Players, DeclareBankrupt(p)
  PROVE  IInv'
<1>1. Good(game) /\ MayCommand(p)
  BY DEF IInv, DeclareBankrupt, MayDecide
<1>2. game.status = "run" /\ p \in Active(game)
  BY <1>1, MayCommandFacts
<1>3. /\ game' = Bankrupt(game, p)
      /\ tokenTimer' \in BOOLEAN /\ auctionTimer' = auctionTimer
  BY DEF IInv, DeclareBankrupt
<1>4. Good(game') /\ KeepsAuction(game, game')
  BY <1>1, <1>2, <1>3, ActiveBankruptGood
<1> QED
  BY <1>3, <1>4, StepGood

\* money that is missing becomes debts, and both parties settle
LEMMA CompleteTradeGood ==
  ASSUME IInv, NEW p \in Players, NEW q \in Players, CompleteTrade(p, q)
  PROVE  IInv'
<1>1. Good(game) /\ {p, q} \subseteq Active(game)
  BY DEF IInv, CompleteTrade
<1>2. game.status = "run"
  BY DEF CompleteTrade, MayCommand
<1>3. tokenTimer' \in BOOLEAN /\ auctionTimer' = auctionTimer
  BY DEF IInv, CompleteTrade
<1>4. PICK new \in SUBSET {Debt(p, q), Debt(q, p)} :
        \E paid \in SUBSET Owed([game EXCEPT !.debts = @ \union new], p) :
          LET h == SolveDebts([game EXCEPT !.debts = @ \union new], p, paid)
          IN  \E rest \in SUBSET Owed(h, q) : game' = SolveDebts(h, q, rest)
  BY DEF CompleteTrade
<1> DEFINE g == [game EXCEPT !.debts = @ \union new]
<1>5. Good(g) /\ g.status = "run" /\ g.auction = game.auction
  <2>1. \A d \in new : /\ d \in [from : Players, to : 0..Hammer]
                       /\ {d.from, d.to} \subseteq Active(game) \union {Bank}
    BY <1>1, DebtType
  <2> QED
    BY <1>1, <1>2, <2>1, AddDebtsGood
<1>6. PICK paid \in SUBSET Owed(g, p) :
        \E rest \in SUBSET Owed(SolveDebts(g, p, paid), q) :
          game' = SolveDebts(SolveDebts(g, p, paid), q, rest)
  BY <1>4
<1> HIDE DEF g
<1> DEFINE h == SolveDebts(g, p, paid)
<1>7. Good(h) /\ h.status = "run" /\ KeepsAuction(g, h)
  BY <1>5, SolveDebtsGood
<1>8. PICK rest \in SUBSET Owed(h, q) : game' = SolveDebts(h, q, rest)
  BY <1>6
<1> HIDE DEF h
<1>9. Good(game') /\ KeepsAuction(h, game')
  BY <1>7, <1>8, SolveDebtsGood
<1>10. KeepsAuction(game, game')
  BY <1>5, <1>7, <1>9 DEF KeepsAuction
<1> QED
  BY <1>3, <1>9, <1>10, StepGood

\* a player is removed, by his wish or by the timeout
LEMMA DepartureGood ==
  ASSUME IInv, NEW p \in Players, Leave(p) \/ PlayerTimeout(p)
  PROVE  IInv'
<1>1. Good(game) /\ p \in game.members
  BY DEF IInv, Leave, PlayerTimeout, Connected
<1>2. /\ game' = RemovePlayer(game, p)
      /\ tokenTimer' \in BOOLEAN /\ auctionTimer' = auctionTimer
  BY DEF IInv, Leave, PlayerTimeout
<1>3. Good(game') /\ KeepsAuction(game, game')
  BY <1>1, <1>2, RemovePlayerGood
<1> QED
  BY <1>2, <1>3, StepGood

\* sockets come and go without any effect on the game
LEMMA ConnectionGood ==
  ASSUME IInv, NEW p \in Players, Disconnect(p) \/ Reconnect(p)
  PROVE  IInv'
<1>1. Good(game) /\ game \in GameState
  BY DEF IInv, Good
<1>2. /\ game' \in {[game EXCEPT !.online = @ \ {p}],
                    [game EXCEPT !.online = @ \union {p}]}
      /\ tokenTimer' \in BOOLEAN /\ auctionTimer' = auctionTimer
  BY DEF IInv, Disconnect, Reconnect
<1>3. game' \in GameState
  BY <1>1, <1>2 DEF GameState
<1>4. /\ SameSeats(game, game') /\ game'.canRoll = game.canRoll
      /\ game'.canRollAgain = game.canRollAgain /\ game'.canBuy = game.canBuy
      /\ game'.auction = game.auction /\ game'.debts = game.debts
  BY <1>1, <1>2 DEF GameState, SameSeats
<1>5. Good(game')
  BY <1>1, <1>3, <1>4, SameSeatsGood DEF Good, Rights
<1> QED
  BY <1>2, <1>4, <1>5, StepGood DEF KeepsAuction

\* a spectator adds no active player
LEMMA WatchGood ==
  ASSUME IInv, NEW p \in Players, Watch(p)
  PROVE  IInv'
<1>1. /\ Good(game) /\ game \in GameState /\ game.status = "run"
      /\ p \notin game.members
  BY DEF IInv, Good, Watch
<1>2. /\ game' = [game EXCEPT !.members = @ \union {p},
                              !.spectators = @ \union {p},
                              !.online = @ \union {p}]
      /\ tokenTimer' \in BOOLEAN /\ auctionTimer' = auctionTimer
  BY DEF IInv, Watch
<1>3. game' \in GameState
  BY <1>1, <1>2 DEF GameState
<1>4. /\ game'.status = game.status /\ game'.bankrupt = game.bankrupt
      /\ game'.members = game.members \union {p}
      /\ game'.spectators = game.spectators \union {p}
      /\ game'.turn = game.turn /\ game'.hasTurn = game.hasTurn
      /\ game'.canRoll = game.canRoll
      /\ game'.canRollAgain = game.canRollAgain /\ game'.canBuy = game.canBuy
      /\ game'.auction = game.auction /\ game'.debts = game.debts
  BY <1>1, <1>2 DEF GameState
<1>5. Active(game') = Active(game) /\ HammerDebts(game') = HammerDebts(game)
  BY <1>1, <1>4 DEF Active, HammerDebts
<1>6. Good(game')
  BY <1>1, <1>3, <1>4, <1>5 DEF Good, Rights, Alive, Among, Hammered
<1> QED
  BY <1>2, <1>4, <1>6, StepGood DEF KeepsAuction

\* a promotion adds one active player and removes none
LEMMA UpgradeGood ==
  ASSUME IInv, NEW p \in Players, Upgrade(p)
  PROVE  IInv'
<1>1. Good(game) /\ game \in GameState /\ game.status = "run"
  BY DEF IInv, Good, Upgrade
<1>2. /\ game' = [game EXCEPT !.spectators = @ \ {p}, !.moving = @ \ {p}]
      /\ tokenTimer' \in BOOLEAN /\ auctionTimer' = auctionTimer
  BY DEF IInv, Upgrade
<1>3. game' \in GameState
  BY <1>1, <1>2 DEF GameState
<1>4. /\ game'.status = game.status /\ game'.bankrupt = game.bankrupt
      /\ game'.members = game.members
      /\ game'.spectators = game.spectators \ {p}
      /\ game'.turn = game.turn /\ game'.hasTurn = game.hasTurn
      /\ game'.canRoll = game.canRoll
      /\ game'.canRollAgain = game.canRollAgain /\ game'.canBuy = game.canBuy
      /\ game'.auction = game.auction /\ game'.debts = game.debts
  BY <1>1, <1>2 DEF GameState
<1>5. /\ Active(game) \subseteq Active(game')
      /\ HammerDebts(game') = HammerDebts(game)
  BY <1>4 DEF Active, HammerDebts
<1>6. Good(game')
  BY <1>1, <1>3, <1>4, <1>5 DEF Good, Rights, Alive, Among, Hammered
<1> QED
  BY <1>2, <1>4, <1>6, StepGood DEF KeepsAuction

-----------------------------------------------------------------------------
(* The theorems *)

\* a started game satisfies the invariant
LEMMA InitGood == Init => IInv /\ Charging
<1> SUFFICES ASSUME Init PROVE IInv /\ Charging
  OBVIOUS
<1>1. /\ 1..Seats \in SUBSET Players /\ 1 \in 1..Seats /\ 2 \in 1..Seats
      /\ 1 \in Players
  BY ConstantsAssumption DEF Players
<1>2. [q \in Players |-> 0] \in [Players -> 0..3]
  OBVIOUS
<1>3. game \in GameState
  BY <1>1, <1>2, NoAuctionType DEF Init, GameState
<1>4. /\ game.status = "run" /\ game.members = 1..Seats
      /\ game.spectators = {} /\ game.bankrupt = {}
      /\ game.turn = 1 /\ game.hasTurn = {1} /\ game.canRoll = {1}
      /\ game.canRollAgain = {} /\ game.canBuy = {}
      /\ game.auction = NoAuction /\ game.debts = {}
      /\ tokenTimer = FALSE /\ auctionTimer = FALSE
  BY DEF Init
<1>5. Active(game) = 1..Seats /\ HammerDebts(game) = {}
  BY <1>4 DEF Active, HammerDebts
<1>6. Rights(game)
  BY <1>1, <1>4 DEF Rights, NoPlayer
<1>7. Alive(game)
  <2>1. 1 \in Active(game) /\ 2 \in Active(game) /\ 1 # 2
    BY <1>1, <1>5
  <2> QED
    BY <1>4, <2>1 DEF Alive
<1>8. Among(game, Active(game)) /\ Hammered(game)
  BY <1>4, <1>5 DEF Among, Hammered, NoAuction
<1>9. Charging
  BY DEF Init, Charging
<1> QED
  BY <1>3, <1>4, <1>6, <1>7, <1>8, <1>9 DEF IInv, Good

\* every command of a player preserves the invariant
LEMMA CommandGood ==
  ASSUME IInv, NEW p \in Players, Command(p)
  PROVE  IInv'
<1>1. CASE Roll(p)
  BY <1>1, RollGood
<1>2. CASE JailRollDoubles(p)
  BY <1>2, JailRollDoublesGood
<1>3. CASE JailRollMissed(p)
  BY <1>3, JailRollMissedGood
<1>4. CASE LeaveJail(p)
  BY <1>4, LeaveJailGood
<1>5. CASE BuyEstate(p)
  BY <1>5, BuyEstateGood
<1>6. CASE NewAuction(p)
  BY <1>6, NewAuctionGood
<1>7. CASE EndTurnAsked(p)
  BY <1>7, EndTurnAskedGood
<1>8. CASE PayTax(p)
  BY <1>8, PayTaxGood
<1>9. CASE Bid(p)
  BY <1>9, BidGood
<1>10. CASE Settle(p)
  BY <1>10, SettleGood
<1>11. CASE DeclareBankrupt(p)
  BY <1>11, DeclareBankruptGood
<1>12. ASSUME NEW q \in Players, CompleteTrade(p, q) PROVE IInv'
  BY <1>12, CompleteTradeGood
<1>13. CASE Leave(p) \/ PlayerTimeout(p)
  BY <1>13, DepartureGood
<1>14. CASE Disconnect(p) \/ Reconnect(p)
  BY <1>14, ConnectionGood
<1>15. CASE Watch(p)
  BY <1>15, WatchGood
<1>16. CASE Upgrade(p)
  BY <1>16, UpgradeGood
<1> QED
  BY <1>1, <1>2, <1>3, <1>4, <1>5, <1>6, <1>7, <1>8, <1>9, <1>10, <1>11,
     <1>12, <1>13, <1>14, <1>15, <1>16 DEF Command

\* every step preserves the invariant
LEMMA NextGood == IInv /\ Charging /\ [Next]_vars => IInv' /\ Charging'
<1> SUFFICES ASSUME IInv, Charging, [Next]_vars PROVE IInv' /\ Charging'
  OBVIOUS
<1>1. CASE charges = {} /\ (AuctionTimeout \/ \E p \in Players : Command(p)) /\ UNCHANGED charges
  <2>1. IInv'
    BY <1>1, AuctionTimeoutGood, CommandGood
  <2> QED
    BY <1>1, <2>1 DEF Charging
<1>2. CASE charges = {} /\ TokenTimeout
  BY <1>2, TokenTimeoutGood
<1>3. CASE charges = {} /\ \E p \in Players : ConfirmToken(p)
  BY <1>3, ConfirmTokenGood
<1>4. CASE \E c \in charges : Charge(c)
  BY <1>4, RoundGood
<1>5. CASE UNCHANGED vars
  BY <1>5 DEF vars, timers, IInv, Charging
<1> QED
  BY <1>1, <1>2, <1>3, <1>4, <1>5 DEF Next

\* In every reachable state, whatever the number of players and whoever quits,
\* drops or trades, the inductive invariant holds.
THEOREM InductiveInvariant == Spec => [](IInv /\ Charging)
BY InitGood, NextGood, PTL DEF Spec

\* Every reachable state has its type: no counter of turns in jail or of
\* doubles leaves its range, and the turn is always a player's or nobody's.
THEOREM TypeCorrect == Spec => []TypeOK
<1>1. IInv /\ Charging => TypeOK
  BY DEF IInv, Charging, Good, TypeOK
<1> QED
  BY <1>1, InductiveInvariant, PTL

\* In a running game exactly one member holds the turn, and all rights are his.
THEOREM OneHolder == Spec => []OneTurnHolder
<1>1. IInv => OneTurnHolder
  <2> SUFFICES ASSUME IInv PROVE OneTurnHolder
    OBVIOUS
  <2>1. game \in GameState /\ Rights(game)
    BY DEF IInv, Good
  <2>2. game.status \in {"run", "end"} /\ NoPlayer \notin game.members
    BY <2>1, ZeroIsNobody DEF GameState
  <2> QED
    BY <2>1, <2>2 DEF Rights, OneTurnHolder, Running
<1> QED
  BY <1>1, InductiveInvariant, PTL

\* A game runs exactly as long as two players are active.
THEOREM RunsWhileTwoPlay == Spec => []EndsWithOneActive
<1>1. IInv => EndsWithOneActive
  BY DEF IInv, Good, Alive, EndsWithOneActive, Running
<1> QED
  BY <1>1, InductiveInvariant, PTL

\* No debt is left to or by somebody who no longer plays.
THEOREM DebtsAreSettled == Spec => []DebtsBetweenActive
<1>1. IInv => DebtsBetweenActive
  BY DEF IInv, Good, Among, DebtsBetweenActive, Running
<1> QED
  BY <1>1, InductiveInvariant, PTL

\* The estate sold in an auction and the debt of its buyer come and go together.
THEOREM SalesArePaid == Spec => []SoldAwaitsPayment
<1>1. IInv => SoldAwaitsPayment
  BY DEF IInv, Good, Hammered, SoldAwaitsPayment, Running
<1> QED
  BY <1>1, InductiveInvariant, PTL

\* No timer left behind by an aborted auction ever sells to nobody.
THEOREM TimersHaveBidders == Spec => []TimedAuctionHasBidder
<1>1. IInv => TimedAuctionHasBidder
  <2> SUFFICES ASSUME IInv, auctionTimer, game.auction.open
               PROVE  TimedAuctionHasBidder
    BY DEF TimedAuctionHasBidder
  <2>1. game.status = "run"
    BY DEF IInv, Good, GameState, NoAuction
  <2>2. game.auction.bidder \in Active(game) \union {NoPlayer}
    BY <2>1 DEF IInv, Good, Among
  <2> QED
    BY <2>2 DEF IInv, TimedAuctionHasBidder
<1> QED
  BY <1>1, InductiveInvariant, PTL
=============================================================================
