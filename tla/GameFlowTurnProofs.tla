------------------------- MODULE GameFlowTurnProofs -------------------------
(***************************************************************************)
(* The proof that a turn is never taken from a player who stays in the     *)
(* game, out of jail, while something is unsettled.                        *)
(*                                                                         *)
(* A step is a composition of operators on the game record, and several of *)
(* them can pass the turn: endTurn, bankruptPlayer, solveDebts, the        *)
(* landing and removePlayer.  Fair(t, h) says that h is acceptable as the  *)
(* outcome of a step that t began as the turn holder; it holds as long as  *)
(* t keeps the turn, and every operator keeps it.                          *)
(***************************************************************************)
EXTENDS GameFlowProofs

\* nothing holds up the turn
Settled(h) ==
  /\ h.debts = {}
  /\ ~h.auction.open
  /\ ~h.paused
  /\ h.moving = {}
  /\ h.canBuy = {}

\* if t lost the turn to somebody, and still plays out of jail, all is settled
Fair(t, h) ==
  h.turn \notin {t, NoPlayer} /\ t \in Active(h) \ h.jailed => Settled(h)

\* whose turn it is and who plays, out of jail
SameTurn(g, h) ==
  /\ h.turn = g.turn
  /\ Active(h) \ h.jailed \subseteq Active(g) \ g.jailed

-----------------------------------------------------------------------------
(* The operators keep a game fair *)

\* a change that unsettles nothing and passes no turn
LEMMA SameTurnFair ==
  ASSUME NEW t, NEW g, Fair(t, g), NEW h, SameTurn(g, h),
         Settled(g) => Settled(h)
  PROVE  Fair(t, h)
BY DEF Fair, SameTurn

\* the turn stays
LEMMA KeptTurnFair ==
  ASSUME NEW t, NEW h, h.turn = t
  PROVE  Fair(t, h)
BY DEF Fair

\* updateTurn touches nothing that can be unsettled but the offers
LEMMA UpdateTurnKeeps ==
  ASSUME NEW g \in GameState
  PROVE  LET h == UpdateTurn(g)
         IN  /\ h.debts = g.debts /\ h.auction = g.auction
             /\ h.paused = g.paused /\ h.moving = g.moving
             /\ h.canBuy \subseteq g.canBuy
             /\ Active(h) = Active(g) /\ h.jailed = g.jailed
<1> DEFINE h == UpdateTurn(g)
<1>1. /\ h.debts = g.debts /\ h.auction = g.auction
      /\ h.paused = g.paused /\ h.moving = g.moving
      /\ h.canBuy \subseteq g.canBuy /\ h.jailed = g.jailed
      /\ h.members = g.members /\ h.bankrupt = g.bankrupt
      /\ h.spectators = g.spectators
  BY DEF UpdateTurn, GameState
<1> QED
  BY <1>1 DEF Active

\* the checks of endTurn are those of a settled game
LEMMA EndTurnFair ==
  ASSUME NEW t, NEW g \in GameState, Rights(g), Fair(t, g), NEW asked
  PROVE  Fair(t, EndTurn(g, asked))
<1> DEFINE p == g.turn
           h == [g EXCEPT !.canBuy = @ \ {p}]
           r == [h EXCEPT !.canRoll = @ \union {p}, !.canRollAgain = @ \ {p}]
<1>1. CASE TurnHeld(g, asked)
  BY <1>1 DEF EndTurn
<1>2. CASE ~TurnHeld(g, asked)
  <2>1. /\ h \in GameState
        /\ h.turn = g.turn /\ h.debts = g.debts /\ h.auction = g.auction
        /\ h.paused = g.paused /\ h.moving = g.moving
        /\ h.canBuy = g.canBuy \ {p} /\ h.jailed = g.jailed
        /\ h.members = g.members /\ h.bankrupt = g.bankrupt
        /\ h.spectators = g.spectators
    BY DEF GameState
  <2>2. /\ r.turn = g.turn /\ r.debts = g.debts /\ r.auction = g.auction
        /\ r.paused = g.paused /\ r.moving = g.moving
        /\ r.canBuy = g.canBuy \ {p}
    BY DEF GameState
  <2>3. EndTurn(g, asked) \in {h, r, UpdateTurn(h)}
    BY <1>2 DEF EndTurn
  <2> HIDE DEF h, r
  <2>4. /\ g.debts = {} /\ ~g.auction.open /\ ~g.paused /\ g.moving = {}
        /\ g.canBuy \ {p} = {}
    BY <1>2 DEF TurnHeld, Rights
  <2>5. Settled(h) /\ Settled(r)
    BY <2>1, <2>2, <2>4 DEF Settled
  <2>6. Settled(UpdateTurn(h))
    BY <2>1, <2>5, UpdateTurnKeeps DEF Settled
  <2> QED
    BY <2>3, <2>5, <2>6 DEF Fair
<1> QED
  BY <1>1, <1>2

\* a bankruptcy takes the turn of the bankrupt only, or ends the game
LEMMA BankruptFair ==
  ASSUME NEW t, NEW g \in GameState, Rights(g), Fair(t, g), NEW p \in Players
  PROVE  Fair(t, Bankrupt(g, p))
<1> DEFINE h == Ruined(g, p)
<1>1. h \in GameState
  BY NoAuctionType DEF Ruined, GameState
<1>2. /\ h.status = g.status /\ h.members = g.members /\ h.turn = g.turn
      /\ h.hasTurn = g.hasTurn /\ h.canRoll = g.canRoll
      /\ h.canRollAgain = g.canRollAgain /\ h.canBuy = g.canBuy
      /\ h.spectators = g.spectators /\ h.jailed = g.jailed
      /\ h.bankrupt = g.bankrupt \union {p}
      /\ h.paused = g.paused /\ h.moving = g.moving
      /\ h.auction \in {g.auction, NoAuction}
      /\ h.debts \subseteq g.debts
  BY DEF Ruined, GameState
<1>3. \/ Bankrupt(g, p) \in {g, EndGame(h), h}
      \/ p = h.turn /\ Bankrupt(g, p) = UpdateTurn(h)
      \/ Bankrupt(g, p) = EndTurn(h, FALSE)
  BY DEF Bankrupt
<1> HIDE DEF h
<1>4. Active(h) = Active(g) \ {p}
  BY <1>2 DEF Active
<1>5. Settled(g) => Settled(h)
  BY <1>2 DEF Settled, NoAuction
<1>6. Fair(t, h)
  BY <1>2, <1>4, <1>5, SameTurnFair DEF SameTurn
<1>7. Rights(h)
  BY <1>2 DEF Rights
<1>8. Fair(t, EndGame(h))
  <2>1. EndGame(h).turn = NoPlayer
    BY <1>1 DEF EndGame, GameState
  <2> QED
    BY <2>1 DEF Fair
<1>9. Fair(t, EndTurn(h, FALSE))
  BY <1>1, <1>6, <1>7, EndTurnFair
<1>10. ASSUME p = h.turn
       PROVE  Fair(t, UpdateTurn(h))
  <2>1. /\ Active(UpdateTurn(h)) = Active(h)
        /\ UpdateTurn(h).jailed = h.jailed
    BY <1>1, UpdateTurnKeeps
  <2>2. Settled(h) => Settled(UpdateTurn(h))
    BY <1>1, UpdateTurnKeeps DEF Settled
  <2>3. CASE t \in Active(h) \ h.jailed
    <3>1. h.turn \notin {t, NoPlayer}
      BY <1>4, <1>10, <2>3, ZeroIsNobody
    <3> QED
      BY <1>6, <2>2, <2>3, <3>1 DEF Fair
  <2>4. CASE t \notin Active(h) \ h.jailed
    BY <2>1, <2>4 DEF Fair
  <2> QED
    BY <2>3, <2>4
<1> QED
  BY <1>3, <1>6, <1>8, <1>9, <1>10

\* a new debt does not pass the turn, unless it ruins the turn holder
LEMMA NewDebtFair ==
  ASSUME NEW g \in GameState, Rights(g), NEW from \in Players,
         NEW to \in 0..Hammer, NEW broke
  PROVE  Fair(g.turn, NewDebt(g, from, to, broke))
<1> DEFINE h == [g EXCEPT !.debts = @ \union {Debt(from, to)}]
<1>1. Debt(from, to) \in [from : Players, to : 0..Hammer]
  BY DEF Debt
<1>2. /\ h \in GameState
      /\ h.status = g.status /\ h.members = g.members /\ h.turn = g.turn
      /\ h.hasTurn = g.hasTurn /\ h.canRoll = g.canRoll
      /\ h.canRollAgain = g.canRollAgain /\ h.canBuy = g.canBuy
  BY <1>1 DEF GameState
<1>3. NewDebt(g, from, to, broke) \in {g, h, Bankrupt(h, from)}
  BY DEF NewDebt
<1> HIDE DEF h
<1>4. Fair(g.turn, g) /\ Fair(g.turn, h) /\ Rights(h)
  BY <1>2, KeptTurnFair DEF Rights
<1>5. Fair(g.turn, Bankrupt(h, from))
  BY <1>2, <1>4, BankruptFair
<1> QED
  BY <1>3, <1>4, <1>5

\* debts are solved in a settled game, or the turn holder still has the turn
LEMMA SolveDebtsFair ==
  ASSUME NEW t, NEW g \in GameState, Rights(g), Fair(t, g), NEW p, NEW paid
  PROVE  Fair(t, SolveDebts(g, p, paid))
<1> DEFINE h == [g EXCEPT !.debts = @ \ {Debt(p, c) : c \in paid},
                          !.auction = IF Hammer \in paid THEN NoAuction ELSE @]
<1>1. /\ h \in GameState
      /\ h.status = g.status /\ h.members = g.members /\ h.turn = g.turn
      /\ h.hasTurn = g.hasTurn /\ h.canRoll = g.canRoll
      /\ h.canRollAgain = g.canRollAgain /\ h.canBuy = g.canBuy
      /\ h.spectators = g.spectators /\ h.jailed = g.jailed
      /\ h.bankrupt = g.bankrupt /\ h.paused = g.paused
      /\ h.moving = g.moving /\ h.debts \subseteq g.debts
      /\ h.auction \in {g.auction, NoAuction}
  BY NoAuctionType DEF GameState
<1>2. SolveDebts(g, p, paid) \in {g, h, EndTurn(h, FALSE)}
  BY DEF SolveDebts
<1> HIDE DEF h
<1>3. SameTurn(g, h) /\ Rights(h)
  BY <1>1 DEF SameTurn, Active, Rights
<1>4. Settled(g) => Settled(h)
  BY <1>1 DEF Settled, NoAuction
<1>5. Fair(t, h)
  BY <1>3, <1>4, SameTurnFair
<1>6. Fair(t, EndTurn(h, FALSE))
  BY <1>1, <1>3, <1>5, EndTurnFair
<1> QED
  BY <1>2, <1>5, <1>6

\* who goes to jail may lose the turn
LEMMA JailedFair ==
  ASSUME NEW g \in GameState, NEW p \in Players
  PROVE  Fair(p, UpdateTurn(ToJail(g, p)))
<1> DEFINE h == ToJail(g, p)
<1>1. h \in GameState /\ p \in h.jailed
  <2>1. /\ [g.jailCount EXCEPT ![p] = 1] \in [Players -> 0..3]
        /\ [g.doubleCount EXCEPT ![p] = 0] \in [Players -> 0..3]
    BY CountType
  <2>2. g.canRoll \ {p} \in SUBSET Players /\ g.jailed \union {p} \in SUBSET Players
    BY DEF GameState
  <2> QED
    BY <2>1, <2>2 DEF ToJail, GameState
<1> HIDE DEF h
<1>2. UpdateTurn(h).jailed = h.jailed
  BY <1>1, UpdateTurnKeeps
<1> QED
  BY <1>1, <1>2 DEF Fair, h

\* who lands keeps the turn, is ruined, or goes to jail
LEMMA LandingsFair ==
  ASSUME NEW g, Good(g), g.status = "run", NEW l \in Landings(g)
  PROVE  Fair(g.turn, l)
<1> DEFINE p == g.turn
           h == [g EXCEPT !.dest = @ \ {p}]
           offer  == [h EXCEPT !.canRoll = @ \ {p}, !.canBuy = @ \union {p}]
           dialog == [h EXCEPT !.paused = TRUE]
           all    == NewDebtToAll(h, p)
           jail   == UpdateTurn(ToJail(h, p))
<1>1. g \in GameState /\ p \in Players /\ Rights(g)
  BY ZeroIsNobody DEF Good, Rights, GameState
<1>2. /\ h \in GameState
      /\ h.status = g.status /\ h.members = g.members /\ h.turn = g.turn
      /\ h.hasTurn = g.hasTurn /\ h.canRoll = g.canRoll
      /\ h.canRollAgain = g.canRollAgain /\ h.canBuy = g.canBuy
  BY <1>1 DEF GameState
<1>3. offer.turn = p /\ dialog.turn = p
  BY <1>1 DEF GameState
<1>4. \/ l \in {h, offer, dialog, jail, all}
      \/ \E c \in (Active(h) \ {p}) \union {Bank}, b \in BOOLEAN :
           l = NewDebt(h, p, c, b)
  BY DEF Landings
<1> HIDE DEF h
<1>5. all.turn = p
  BY <1>2 DEF NewDebtToAll, GameState
<1>6. Fair(p, jail)
  BY <1>1, <1>2, JailedFair
<1>7. ASSUME NEW c \in (Active(h) \ {p}) \union {Bank}, NEW b \in BOOLEAN
      PROVE  Fair(p, NewDebt(h, p, c, b))
  <2>1. c \in 0..Hammer
    BY <1>2, ConstantsAssumption DEF Active, GameState, Players, Hammer, Bank
  <2>2. Rights(h)
    BY <1>1, <1>2 DEF Rights
  <2> QED
    BY <1>1, <1>2, <2>1, <2>2, NewDebtFair
<1> HIDE DEF offer, dialog, all, jail
<1> QED
  BY <1>2, <1>3, <1>4, <1>5, <1>6, <1>7, KeptTurnFair

\* tokens that arrive, with the landing and the end of the turn
LEMMA ArrivalsFair ==
  ASSUME NEW g, Good(g), g.status = "run", NEW ps, NEW r \in Arrivals(g, ps)
  PROVE  Fair(g.turn, r)
<1> DEFINE h == [g EXCEPT !.moving = @ \ ps]
<1>1. g \in GameState
  BY DEF Good
<1>2. /\ h \in GameState /\ SameSeats(g, h) /\ h.canRoll = g.canRoll
      /\ h.canRollAgain = g.canRollAgain /\ h.canBuy = g.canBuy
      /\ h.auction = g.auction /\ h.debts = g.debts
  BY <1>1 DEF GameState, SameSeats
<1>3. r = h \/ \E l \in Landings(h) : r = EndTurnIfAny(l)
  BY DEF Arrivals
<1> HIDE DEF h
<1>4. Good(h) /\ h.status = "run" /\ h.turn = g.turn
  BY <1>2, SameSeatsGood DEF SameSeats, Good, Rights
<1>5. ASSUME NEW l \in Landings(h)
      PROVE  Fair(g.turn, EndTurnIfAny(l))
  <2>1. l \in GameState /\ Rights(l) /\ Fair(g.turn, l)
    BY <1>4, LandingsGood, LandingsFair DEF Good
  <2>2. Fair(g.turn, EndTurn(l, FALSE))
    BY <2>1, EndTurnFair
  <2> QED
    BY <2>1, <2>2 DEF EndTurnIfAny
<1> QED
  BY <1>3, <1>4, <1>5, KeptTurnFair

\* forgetting who is no member changes neither turn nor players
LEMMA ForgetFair ==
  ASSUME NEW t, NEW g \in GameState, Fair(t, g), NEW p, p \notin g.members, t # p
  PROVE  Fair(t, Forget(g, p))
<1> DEFINE h == Forget(g, p)
<1>1. /\ h.members = g.members /\ h.turn = g.turn
      /\ h.spectators = g.spectators \ {p} /\ h.bankrupt = g.bankrupt \ {p}
      /\ h.jailed = g.jailed \ {p} /\ h.debts = g.debts
      /\ h.auction = g.auction /\ h.paused = g.paused
      /\ h.moving = g.moving /\ h.canBuy = g.canBuy
  BY DEF Forget, GameState
<1> HIDE DEF h
<1>2. /\ t \in Active(h) \ h.jailed => t \in Active(g) \ g.jailed
      /\ Settled(g) => Settled(h)
  BY <1>1 DEF Active, Settled
<1> QED
  BY <1>1, <1>2 DEF Fair, h

\* a departure takes the turn of who leaves only
LEMMA RemovePlayerFair ==
  ASSUME NEW g, Good(g), NEW p \in g.members
  PROVE  Fair(g.turn, RemovePlayer(g, p))
<1>1. p \in Players /\ p # NoPlayer
  BY ZeroIsNobody DEF Good, GameState
<1>2. CASE p = g.turn
  <2>1. p \notin RemovePlayer(g, p).members
    BY RemovePlayerGood
  <2> QED
    BY <1>2, <2>1 DEF Fair, Active
<1>3. CASE p # g.turn
  <2> DEFINE g2 == [g EXCEPT !.members = @ \ {p}, !.moving = @ \ {p},
                             !.dest = @ \ {p}]
             g3 == IF g.status = "run" THEN Bankrupt(g2, p) ELSE g2
  <2>1. /\ g2 \in GameState /\ Rights(g2) /\ g2.turn = g.turn
        /\ Good(g3) /\ p \notin g3.members
    BY <1>1, <1>3, ErasedGood
  <2>2. RemovePlayer(g, p) = Forget(g3, p)
    BY <1>3 DEF RemovePlayer
  <2> HIDE DEF g2
  <2>3. Fair(g.turn, g2)
    BY <2>1, KeptTurnFair
  <2>4. Fair(g.turn, g3)
    BY <1>1, <2>1, <2>3, BankruptFair
  <2> HIDE DEF g3
  <2> QED
    BY <1>3, <2>1, <2>2, <2>4, ForgetFair DEF Good
<1> QED
  BY <1>2, <1>3

-----------------------------------------------------------------------------
(* The actions *)

\* the command gate and the rights of who passes it
LEMMA GateFacts ==
  ASSUME IInv, NEW p, MayPlay(p)
  PROVE  /\ Good(game) /\ game \in GameState /\ Rights(game)
         /\ p \in Players /\ p = game.turn
BY MayPlayFacts DEF IInv, Good

\* a roll moves the turn holder or sends him to jail
LEMMA RollFair ==
  ASSUME IInv, NEW p \in Players, Roll(p)
  PROVE  Fair(game.turn, game')
<1> DEFINE g == [game EXCEPT !.canRoll = @ \ {p}, !.canRollAgain = @ \ {p}]
           n == game.doubleCount[p] + 1
           single == [g EXCEPT !.doubleCount[p] = 0]
           double == [g EXCEPT !.doubleCount[p] = n, !.canRollAgain = @ \union {p}]
<1>1. game \in GameState /\ p = game.turn
  BY GateFacts DEF Roll
<1>2. game' \in {game, StartMove(single, p), StartMove(double, p),
                 UpdateTurn(ToJail(g, p))}
  BY DEF Roll
<1>3. g \in GameState /\ single.turn = p /\ double.turn = p
  BY <1>1 DEF GameState
<1> HIDE DEF single, double, g
<1>4. StartMove(single, p).turn = p /\ StartMove(double, p).turn = p
  BY <1>3 DEF StartMove
<1>5. Fair(p, UpdateTurn(ToJail(g, p)))
  BY <1>3, JailedFair
<1> QED
  BY <1>1, <1>2, <1>4, <1>5, KeptTurnFair

\* who misses his roll is in jail, out of it, or charged
LEMMA JailRollMissedFair ==
  ASSUME IInv, NEW p \in Players, JailRollMissed(p)
  PROVE  Fair(game.turn, game')
<1> DEFINE g == [game EXCEPT !.jailed = @ \ {p}, !.jailCount[p] = 0]
           again == [g EXCEPT !.canRollAgain = @ \union {p}]
           roll  == [g EXCEPT !.canRoll = @ \union {p}]
           next  == UpdateTurn(game)
           stays == [next EXCEPT !.jailCount[p] = game.jailCount[p] + 1]
<1>1. /\ game \in GameState /\ Rights(game) /\ p = game.turn
      /\ p \in game.jailed
  BY GateFacts DEF JailRollMissed
<1>2. \/ game' \in {stays, roll}
      \/ \E broke \in BOOLEAN : game' = NewDebt(again, p, Bank, broke)
  BY DEF JailRollMissed
<1>3. roll.turn = p
  BY <1>1 DEF GameState
<1>4. Fair(p, stays)
  <2>1. next.jailed = game.jailed
    BY <1>1, UpdateTurnKeeps
  <2>2. stays.jailed = game.jailed
    BY <2>1
  <2> QED
    BY <1>1, <2>2 DEF Fair
<1>5. /\ again \in GameState /\ again.turn = p /\ Rights(again)
  <2>1. g \in GameState
    <3>1. [game.jailCount EXCEPT ![p] = 0] \in [Players -> 0..3]
      BY <1>1, CountType
    <3> QED
      BY <1>1, <3>1 DEF GameState
  <2>2. /\ g.status = game.status /\ g.members = game.members
        /\ g.turn = game.turn /\ g.hasTurn = game.hasTurn
        /\ g.canRoll = game.canRoll
        /\ g.canRollAgain = game.canRollAgain /\ g.canBuy = game.canBuy
    BY <1>1 DEF GameState
  <2> HIDE DEF g
  <2>3. again \in GameState
    BY <2>1 DEF GameState
  <2>4. /\ again.status = g.status /\ again.members = g.members
        /\ again.turn = g.turn /\ again.hasTurn = g.hasTurn
        /\ again.canRoll = g.canRoll /\ again.canBuy = g.canBuy
        /\ again.canRollAgain = g.canRollAgain \union {p}
    BY <2>1 DEF GameState
  <2>5. p \in game.hasTurn
    BY <1>1, ZeroIsNobody DEF Rights
  <2> QED
    BY <1>1, <2>2, <2>3, <2>4, <2>5 DEF Rights
<1> HIDE DEF again, roll, stays
<1>6. ASSUME NEW broke \in BOOLEAN
      PROVE  Fair(p, NewDebt(again, p, Bank, broke))
  BY <1>5, NewDebtFair, ConstantsAssumption DEF Bank, Hammer
<1> QED
  BY <1>1, <1>2, <1>3, <1>4, <1>6, KeptTurnFair

\* an estate is bought, or the turn ended, only past all pauses
LEMMA BuyEstateFair ==
  ASSUME IInv, NEW p \in Players, BuyEstate(p)
  PROVE  Fair(game.turn, game')
<1> DEFINE g == [game EXCEPT !.canBuy = @ \ {p}]
<1>1. game \in GameState /\ Rights(game)
  BY GateFacts DEF BuyEstate
<1>2. game' = EndTurn(g, FALSE)
  BY DEF BuyEstate
<1>3. /\ g \in GameState
      /\ g.status = game.status /\ g.members = game.members
      /\ g.turn = game.turn /\ g.hasTurn = game.hasTurn
      /\ g.canRoll = game.canRoll /\ g.canRollAgain = game.canRollAgain
      /\ g.canBuy = game.canBuy \ {p}
  BY <1>1 DEF GameState
<1> HIDE DEF g
<1>4. Rights(g) /\ Fair(game.turn, g)
  BY <1>1, <1>3, KeptTurnFair DEF Rights
<1> QED
  BY <1>2, <1>3, <1>4, EndTurnFair

\* .E goes through the checks of endTurn
LEMMA EndTurnAskedFair ==
  ASSUME IInv, NEW p \in Players, EndTurnAsked(p)
  PROVE  Fair(game.turn, game')
<1>1. game \in GameState /\ Rights(game) /\ game' = EndTurn(game, TRUE)
  BY GateFacts DEF EndTurnAsked
<1> QED
  BY <1>1, KeptTurnFair, EndTurnFair

\* the answer to the tax dialog leads to endTurn or to a debt
LEMMA PayTaxFair ==
  ASSUME IInv, NEW p \in Players, PayTax(p)
  PROVE  Fair(game.turn, game')
<1> DEFINE g == [game EXCEPT !.paused = FALSE]
<1>1. game \in GameState /\ Rights(game)
  BY DEF IInv, Good
<1>2. \/ game' = EndTurn(g, FALSE)
      \/ \E broke \in BOOLEAN : game' = NewDebt(g, p, Bank, broke)
  BY DEF PayTax
<1>3. /\ g \in GameState
      /\ g.status = game.status /\ g.members = game.members
      /\ g.turn = game.turn /\ g.hasTurn = game.hasTurn
      /\ g.canRoll = game.canRoll /\ g.canRollAgain = game.canRollAgain
      /\ g.canBuy = game.canBuy
  BY <1>1 DEF GameState
<1> HIDE DEF g
<1>4. Rights(g) /\ Fair(game.turn, g)
  BY <1>1, <1>3, KeptTurnFair DEF Rights
<1>5. Fair(game.turn, EndTurn(g, FALSE))
  BY <1>3, <1>4, EndTurnFair
<1>6. ASSUME NEW broke \in BOOLEAN
      PROVE  Fair(game.turn, NewDebt(g, p, Bank, broke))
  BY <1>3, <1>4, NewDebtFair, ConstantsAssumption DEF Bank, Hammer
<1> QED
  BY <1>2, <1>5, <1>6

\* tokens are confirmed one by one or by the timer
LEMMA TokensFair ==
  ASSUME IInv, TokenTimeout \/ \E p \in Players : ConfirmToken(p)
  PROVE  Fair(game.turn, game')
<1>1. Good(game)
  BY DEF IInv
<1>2. \/ game' = game
      \/ \E ps : Collects(ps)
      \/ game.turn \in game.dest /\ \E ps : game' \in Arrivals(game, ps)
  BY DEF TokenTimeout, ConfirmToken
<1>3. (\E ps : Collects(ps)) => game'.turn = game.turn
  BY <1>1 DEF Collects, Good, GameState
<1>4. game.turn \in game.dest => game.status = "run"
  BY <1>1, ZeroIsNobody DEF Good, Rights, GameState
<1> QED
  BY <1>1, <1>2, <1>3, <1>4, ArrivalsFair, KeptTurnFair

\* a round of a collecting card may end a settled turn, or pass on that of the bankrupt
LEMMA RoundFair ==
  ASSUME IInv, Charging, NEW c \in charges, Charge(c)
  PROVE  Fair(game.turn, game')
<1>1. /\ Good(game) /\ game.status = "run" /\ game \in GameState /\ Rights(game)
      /\ c.from \in Active(game) /\ c.from \in Players
      /\ c.to \in game.members /\ c.to \in Players
  BY DEF IInv, Charging, Good
<1>2. PICK h \in {game} \union {NewDebt(game, c.from, c.to, b) : b \in BOOLEAN} :
        game' = IF charges' = {} THEN EndTurnIfAny(h) ELSE h
  BY DEF Charge
<1>3. h = game \/ (c.to \in Active(game) /\ \E b \in BOOLEAN : h = NewDebt(game, c.from, c.to, b))
  <2>1. c.to \notin Active(game) => c.to \in game.bankrupt \union game.spectators
    BY <1>1 DEF Active
  <2> QED
    BY <1>2, <2>1 DEF NewDebt
<1>4. h \in GameState /\ Rights(h)
  BY <1>1, <1>3, NewDebtGood DEF Good
<1>5. c.to \in 0..Hammer
  BY <1>1, ConstantsAssumption DEF Players, Hammer
<1>6. Fair(game.turn, h)
  BY <1>1, <1>3, <1>5, NewDebtFair, KeptTurnFair
<1>7. Fair(game.turn, EndTurnIfAny(h))
  BY <1>4, <1>6, EndTurnFair DEF EndTurnIfAny
<1> QED
  BY <1>2, <1>6, <1>7

\* a sale ends the turn or leaves the debt of the buyer
LEMMA AuctionTimeoutFair ==
  ASSUME IInv, AuctionTimeout
  PROVE  Fair(game.turn, game')
<1> DEFINE next   == game.auction.status + 1
           p      == game.auction.bidder
           g      == [game EXCEPT !.auction.status = next]
           closed == [game EXCEPT !.auction = NoAuction]
<1>1. Good(game) /\ game \in GameState /\ Rights(game)
  BY DEF IInv, Good
<1>2. \/ game' \in {game, g}
      \/ game' = EndTurn(closed, FALSE)
      \/ /\ game.auction.open
         /\ \E broke \in BOOLEAN : game' = NewDebt(g, p, Hammer, broke)
  BY DEF AuctionTimeout
<1>3. g.turn = game.turn
  BY <1>1 DEF GameState
<1>4. /\ closed \in GameState
      /\ closed.status = game.status /\ closed.members = game.members
      /\ closed.turn = game.turn /\ closed.hasTurn = game.hasTurn
      /\ closed.canRoll = game.canRoll
      /\ closed.canRollAgain = game.canRollAgain
      /\ closed.canBuy = game.canBuy
  BY <1>1, NoAuctionType DEF GameState
<1> HIDE DEF closed
<1>5. Fair(game.turn, EndTurn(closed, FALSE))
  <2>1. Rights(closed) /\ Fair(game.turn, closed)
    BY <1>1, <1>4, KeptTurnFair DEF Rights
  <2> QED
    BY <1>4, <2>1, EndTurnFair
<1>6. ASSUME game.auction.open, NEW broke \in BOOLEAN,
             game' = NewDebt(g, p, Hammer, broke)
      PROVE  Fair(game.turn, game')
  <2>1. game.status = "run"
    BY <1>1, <1>6 DEF Good, GameState, NoAuction
  <2>2. auctionTimer /\ p \in Players /\ game.auction.status # Sold
    BY <1>1, <1>6, <2>1 DEF AuctionTimeout, IInv, Good, Among, Active, GameState
  <2>3. next \in 0..Sold
    BY <1>1, <2>2 DEF GameState, Sold
  <2>4. [game.auction EXCEPT !.status = next]
          \in [open : BOOLEAN, status : 0..Sold,
               bidder : Players \union {NoPlayer}, bid : 0..MaxBid]
    BY <1>1, <2>3 DEF GameState
  <2>5. g = [game EXCEPT !.auction = [game.auction EXCEPT !.status = next]]
    BY <1>1 DEF GameState
  <2>6. /\ g \in GameState
        /\ g.status = game.status /\ g.members = game.members
        /\ g.hasTurn = game.hasTurn /\ g.canRoll = game.canRoll
        /\ g.canRollAgain = game.canRollAgain /\ g.canBuy = game.canBuy
    BY <1>1, <2>4, <2>5 DEF GameState
  <2> HIDE DEF g
  <2>7. Rights(g)
    BY <1>1, <1>3, <2>6 DEF Rights
  <2>8. Hammer \in 0..Hammer
    BY ConstantsAssumption DEF Hammer
  <2> QED
    BY <1>3, <1>6, <2>2, <2>6, <2>7, <2>8, NewDebtFair
<1> HIDE DEF g
<1> QED
  BY <1>2, <1>3, <1>5, <1>6, KeptTurnFair

\* paid debts end the turn through endTurn only
LEMMA SettleFair ==
  ASSUME IInv, NEW p \in Players, Settle(p)
  PROVE  Fair(game.turn, game')
<1>1. game \in GameState /\ Rights(game)
  BY DEF IInv, Good
<1>2. \E paid : game' = SolveDebts(game, p, paid)
  BY DEF Settle
<1> QED
  BY <1>1, <1>2, KeptTurnFair, SolveDebtsFair

\* a debtor who gives up may be somebody else than the turn holder
LEMMA DeclareBankruptFair ==
  ASSUME IInv, NEW p \in Players, DeclareBankrupt(p)
  PROVE  Fair(game.turn, game')
<1>1. game \in GameState /\ Rights(game) /\ game' = Bankrupt(game, p)
  BY DEF IInv, Good, DeclareBankrupt
<1> QED
  BY <1>1, KeptTurnFair, BankruptFair

\* both parties of a trade settle, the second perhaps after the turn has passed
LEMMA CompleteTradeFair ==
  ASSUME IInv, NEW p \in Players, NEW q \in Players, CompleteTrade(p, q)
  PROVE  Fair(game.turn, game')
<1>1. Good(game) /\ {p, q} \subseteq Active(game) /\ game.status = "run"
  BY DEF IInv, CompleteTrade, MayCommand
<1>2. PICK new \in SUBSET {Debt(p, q), Debt(q, p)} :
        \E paid \in SUBSET Owed([game EXCEPT !.debts = @ \union new], p) :
          LET h == SolveDebts([game EXCEPT !.debts = @ \union new], p, paid)
          IN  \E rest \in SUBSET Owed(h, q) : game' = SolveDebts(h, q, rest)
  BY DEF CompleteTrade
<1> DEFINE g == [game EXCEPT !.debts = @ \union new]
<1>3. Good(g) /\ g.status = "run" /\ g.turn = game.turn
  <2>1. \A d \in new : /\ d \in [from : Players, to : 0..Hammer]
                       /\ {d.from, d.to} \subseteq Active(game) \union {Bank}
    BY <1>1, DebtType
  <2> QED
    BY <1>1, <2>1, AddDebtsGood
<1>4. PICK paid \in SUBSET Owed(g, p) :
        \E rest : game' = SolveDebts(SolveDebts(g, p, paid), q, rest)
  BY <1>2
<1> HIDE DEF g
<1> DEFINE h == SolveDebts(g, p, paid)
<1>5. Good(h)
  BY <1>3, SolveDebtsGood
<1>6. Fair(game.turn, h)
  BY <1>3, KeptTurnFair, SolveDebtsFair DEF Good
<1>7. PICK rest : game' = SolveDebts(h, q, rest)
  BY <1>4
<1> HIDE DEF h
<1> QED
  BY <1>5, <1>6, <1>7, SolveDebtsFair DEF Good

\* the other actions leave the turn where it is
LEMMA OtherActionsFair ==
  ASSUME IInv, NEW p \in Players,
         \/ JailRollDoubles(p) \/ LeaveJail(p) \/ NewAuction(p) \/ Bid(p)
         \/ Disconnect(p) \/ Reconnect(p) \/ Watch(p) \/ Upgrade(p)
  PROVE  Fair(game.turn, game')
<1>1. game \in GameState
  BY DEF IInv, Good
<1>2. CASE JailRollDoubles(p) \/ LeaveJail(p)
  <2>1. game'.turn = game.turn
    BY <1>1, <1>2 DEF JailRollDoubles, StartMove, LeaveJail, GameState
  <2> QED
    BY <2>1, KeptTurnFair
<1>3. CASE NewAuction(p) \/ Bid(p)
  <2>1. game'.turn = game.turn
    BY <1>1, <1>3 DEF NewAuction, Bid, GameState
  <2> QED
    BY <2>1, KeptTurnFair
<1>4. CASE Disconnect(p) \/ Reconnect(p) \/ Watch(p) \/ Upgrade(p)
  <2>1. game'.turn = game.turn
    BY <1>1, <1>4 DEF Disconnect, Reconnect, Watch, Upgrade, GameState
  <2> QED
    BY <2>1, KeptTurnFair
<1> QED
  BY <1>2, <1>3, <1>4

-----------------------------------------------------------------------------
(* The theorem *)

\* every step of a good game is fair to the player who had the turn
LEMMA NextFair ==
  ASSUME IInv, Charging, [Next]_vars
  PROVE  Fair(game.turn, game')
<1>1. ASSUME NEW p \in Players, Roll(p) PROVE Fair(game.turn, game')
  BY <1>1, RollFair
<1>2. ASSUME NEW p \in Players, JailRollMissed(p) PROVE Fair(game.turn, game')
  BY <1>2, JailRollMissedFair
<1>3. ASSUME NEW p \in Players, BuyEstate(p) PROVE Fair(game.turn, game')
  BY <1>3, BuyEstateFair
<1>4. ASSUME NEW p \in Players, EndTurnAsked(p) PROVE Fair(game.turn, game')
  BY <1>4, EndTurnAskedFair
<1>5. ASSUME NEW p \in Players, PayTax(p) PROVE Fair(game.turn, game')
  BY <1>5, PayTaxFair
<1>6. ASSUME NEW p \in Players, ConfirmToken(p) PROVE Fair(game.turn, game')
  BY <1>6, TokensFair
<1>7. CASE TokenTimeout
  BY <1>7, TokensFair
<1>8. CASE AuctionTimeout
  BY <1>8, AuctionTimeoutFair
<1>9. ASSUME NEW p \in Players, Settle(p) PROVE Fair(game.turn, game')
  BY <1>9, SettleFair
<1>10. ASSUME NEW p \in Players, DeclareBankrupt(p) PROVE Fair(game.turn, game')
  BY <1>10, DeclareBankruptFair
<1>11. ASSUME NEW p \in Players, NEW q \in Players, CompleteTrade(p, q)
       PROVE  Fair(game.turn, game')
  BY <1>11, CompleteTradeFair
<1>12. ASSUME NEW p \in Players, Leave(p) \/ PlayerTimeout(p)
       PROVE  Fair(game.turn, game')
  <2>1. /\ Good(game) /\ p \in game.members
        /\ game' = RemovePlayer(game, p)
    BY <1>12 DEF IInv, Leave, PlayerTimeout, Connected
  <2> QED
    BY <2>1, RemovePlayerFair
<1>13. ASSUME NEW p \in Players,
              \/ JailRollDoubles(p) \/ LeaveJail(p) \/ NewAuction(p) \/ Bid(p)
              \/ Disconnect(p) \/ Reconnect(p) \/ Watch(p) \/ Upgrade(p)
       PROVE  Fair(game.turn, game')
  BY <1>13, OtherActionsFair
<1>14. ASSUME NEW c \in charges, Charge(c) PROVE Fair(game.turn, game')
  BY <1>14, RoundFair
<1>15. CASE UNCHANGED vars
  BY <1>15, KeptTurnFair DEF vars
<1> QED
  BY <1>1, <1>2, <1>3, <1>4, <1>5, <1>6, <1>7, <1>8, <1>9, <1>10, <1>11,
     <1>12, <1>13, <1>14, <1>15 DEF Next, Command

\* For any number of players, whoever trades, leaves, drops or goes broke, the
\* turn of a player who stays in the game, out of jail, passes only when no
\* token moves and no dialog, auction, offer or debt is open.
THEOREM TurnsPassSettled == Spec => TurnPassesSettled
<1>1. IInv /\ Charging /\ [Next]_vars
        => [game'.turn \notin {game.turn, NoPlayer}
              /\ game.turn \in Active(game') \ game'.jailed
              => /\ game'.debts = {}
                 /\ ~game'.auction.open
                 /\ ~game'.paused
                 /\ game'.moving = {}
                 /\ game'.canBuy = {}]_vars
  BY NextFair DEF Fair, Settled
<1> QED
  BY <1>1, InductiveInvariant, PTL DEF Spec, TurnPassesSettled
=============================================================================
