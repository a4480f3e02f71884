------------------------ MODULE GameFlowPhaseProofs ------------------------
(***************************************************************************)
(* What a turn leaves behind: that doubles count only within a turn,       *)
(* whoever leaves or is cut off, and, while nobody loses his connection,   *)
(* that at most one thing holds up the turn and that a player in jail has  *)
(* neither rolls nor offers pending.                                       *)
(*                                                                         *)
(* As in GameFlowProofs each is a predicate on the game record which the   *)
(* operators keep: Rests(g, x) for the doubles, Quiet(g) for the phases    *)
(* and the jail.                                                           *)
(***************************************************************************)
EXTENDS GameFlowProofs

\* who has rolled doubles has the turn and the right to roll on, now or after his
\* move; nobody counts doubles in jail.  The one who is leaving is not looked at
Rests(g, x) ==
  g.status = "run" =>
    \A p \in Players \ (g.bankrupt \union {x}) :
      /\ p \in g.jailed => g.doubleCount[p] = 0
      /\ g.doubleCount[p] > 0 => /\ p = g.turn
                                 /\ p \in g.canRoll \union g.canRollAgain
                                 /\ p \in g.canRoll => g.moving = {}

\* the turn holder counts no doubles, or not any more
Clean(g, x) == g.turn \in g.bankrupt \union {x} \/ g.doubleCount[g.turn] = 0

-----------------------------------------------------------------------------
(* Doubles *)

\* nothing changes that doubles depend on
LEMMA SameDoubles ==
  ASSUME NEW x, NEW g, Rests(g, x), NEW h,
         h.status = g.status \/ h.status = "end",
         g.bankrupt \subseteq h.bankrupt, h.jailed \subseteq g.jailed,
         h.doubleCount = g.doubleCount, h.turn = g.turn,
         g.canRoll = h.canRoll, g.canRollAgain = h.canRollAgain,
         h.moving \subseteq g.moving
  PROVE  Rests(h, x)
BY DEF Rests

\* the turn passes from a player with a clean count
LEMMA UpdateTurnRests ==
  ASSUME NEW x, NEW g \in GameState, Rests(g, x), Clean(g, x)
  PROVE  Rests(UpdateTurn(g), x)
<1> DEFINE h == UpdateTurn(g)
<1>1. /\ h.status = g.status /\ h.bankrupt = g.bankrupt
      /\ h.jailed = g.jailed /\ h.doubleCount = g.doubleCount
  BY DEF UpdateTurn, GameState
<1> HIDE DEF h
<1>2. ASSUME g.status = "run", NEW p \in Players \ (g.bankrupt \union {x})
      PROVE  ~(g.doubleCount[p] > 0)
  <2>1. g.doubleCount[p] > 0 => p = g.turn
    BY <1>2 DEF Rests
  <2> QED
    BY <1>2, <2>1 DEF Clean
<1>3. \A p \in Players \ (h.bankrupt \union {x}) : h.status = "run" =>
        (p \in h.jailed => h.doubleCount[p] = 0) /\ ~(h.doubleCount[p] > 0)
  BY <1>1, <1>2 DEF Rests
<1> QED
  BY <1>3 DEF Rests, h

\* endTurn gives another roll after doubles, or passes a clean turn
LEMMA EndTurnRests ==
  ASSUME NEW x, NEW g \in GameState, Rights(g), Rests(g, x), NEW asked
  PROVE  Rests(EndTurn(g, asked), x)
<1> DEFINE p == g.turn
           h == [g EXCEPT !.canBuy = @ \ {p}]
           r == [h EXCEPT !.canRoll = @ \union {p}, !.canRollAgain = @ \ {p}]
<1>1. CASE TurnHeld(g, asked)
  BY <1>1 DEF EndTurn
<1>2. CASE ~TurnHeld(g, asked)
  <2>1. /\ h \in GameState
        /\ h.status = g.status /\ h.bankrupt = g.bankrupt /\ h.jailed = g.jailed
        /\ h.doubleCount = g.doubleCount /\ h.turn = g.turn
        /\ h.canRoll = g.canRoll /\ h.canRollAgain = g.canRollAgain
        /\ h.moving = g.moving
    BY DEF GameState
  <2>2. /\ r.status = g.status /\ r.bankrupt = g.bankrupt /\ r.jailed = g.jailed
        /\ r.doubleCount = g.doubleCount /\ r.turn = g.turn
        /\ r.canRoll = g.canRoll \union {p}
        /\ r.canRollAgain = g.canRollAgain \ {p}
        /\ r.moving = g.moving
    BY DEF GameState
  <2>3. \/ EndTurn(g, asked) \in {h, r}
        \/ p \notin g.canRoll \union g.canRollAgain \union g.jailed
           /\ EndTurn(g, asked) = UpdateTurn(h)
    BY <1>2 DEF EndTurn
  <2>4. g.moving = {} /\ p \in Players
    BY <1>2, ZeroIsNobody DEF TurnHeld, Rights, GameState
  <2> HIDE DEF h, r
  <2>5. Rests(h, x)
    BY <2>1, SameDoubles
  <2>6. Rests(r, x)
    BY <2>2, <2>4 DEF Rests
  <2>7. ASSUME p \notin g.canRoll \union g.canRollAgain \union g.jailed
        PROVE  Rests(UpdateTurn(h), x)
    <3>1. CASE g.status = "run"
      <4>1. g.doubleCount[p] \in 0..3
        BY <2>4 DEF GameState
      <4>2. p \notin g.bankrupt \union {x} => ~(g.doubleCount[p] > 0)
        BY <2>4, <2>7, <3>1 DEF Rests
      <4>3. Clean(h, x)
        BY <2>1, <4>1, <4>2 DEF Clean
      <4> QED
        BY <2>1, <2>5, <4>3, UpdateTurnRests
    <3>2. CASE g.status # "run"
      <4>1. UpdateTurn(h).status = h.status
        BY <2>1 DEF UpdateTurn, GameState
      <4> QED
        BY <2>1, <3>2, <4>1 DEF Rests
    <3> QED
      BY <3>1, <3>2
  <2> QED
    BY <2>3, <2>5, <2>6, <2>7
<1> QED
  BY <1>1, <1>2

\* the same where the game may have ended
LEMMA EndTurnIfAnyRests ==
  ASSUME NEW x, NEW g \in GameState, Rights(g), Rests(g, x)
  PROVE  Rests(EndTurnIfAny(g), x)
BY EndTurnRests DEF EndTurnIfAny

\* the doubles of a bankrupt count no more
LEMMA BankruptRests ==
  ASSUME NEW x, NEW g \in GameState, Rights(g), Rests(g, x), NEW p \in Players
  PROVE  Rests(Bankrupt(g, p), x)
<1> DEFINE h == Ruined(g, p)
<1>1. h \in GameState
  BY NoAuctionType DEF Ruined, GameState
<1>2. /\ h.status = g.status /\ h.members = g.members /\ h.turn = g.turn
      /\ h.hasTurn = g.hasTurn /\ h.canRoll = g.canRoll
      /\ h.canRollAgain = g.canRollAgain /\ h.canBuy = g.canBuy
      /\ h.jailed = g.jailed /\ h.doubleCount = g.doubleCount
      /\ h.bankrupt = g.bankrupt \union {p} /\ h.moving = g.moving
  BY DEF Ruined, GameState
<1>3. \/ Bankrupt(g, p) \in {g, EndGame(h), h}
      \/ p = h.turn /\ Bankrupt(g, p) = UpdateTurn(h)
      \/ Bankrupt(g, p) = EndTurn(h, FALSE)
  BY DEF Bankrupt
<1> HIDE DEF h
<1>4. Rests(h, x) /\ Rights(h)
  BY <1>2, SameDoubles DEF Rights
<1>5. EndGame(h).status = "end"
  BY <1>1 DEF EndGame, GameState
<1>6. Rests(EndGame(h), x)
  BY <1>5 DEF Rests
<1>7. ASSUME p = h.turn
      PROVE  Rests(UpdateTurn(h), x)
  <2>1. Clean(h, x)
    BY <1>2, <1>7 DEF Clean
  <2> QED
    BY <1>1, <1>4, <2>1, UpdateTurnRests
<1>8. Rests(EndTurn(h, FALSE), x)
  BY <1>1, <1>4, EndTurnRests
<1> QED
  BY <1>3, <1>4, <1>6, <1>7, <1>8

\* a new debt changes no doubles, unless it ruins somebody
LEMMA NewDebtRests ==
  ASSUME NEW x, NEW g \in GameState, Rights(g), Rests(g, x), NEW from \in Players,
         NEW to \in 0..Hammer, NEW broke
  PROVE  Rests(NewDebt(g, from, to, broke), x)
<1> DEFINE h == [g EXCEPT !.debts = @ \union {Debt(from, to)}]
<1>1. Debt(from, to) \in [from : Players, to : 0..Hammer]
  BY DEF Debt
<1>2. /\ h \in GameState
      /\ h.status = g.status /\ h.members = g.members /\ h.turn = g.turn
      /\ h.hasTurn = g.hasTurn /\ h.canRoll = g.canRoll
      /\ h.canRollAgain = g.canRollAgain /\ h.canBuy = g.canBuy
      /\ h.jailed = g.jailed /\ h.doubleCount = g.doubleCount
      /\ h.bankrupt = g.bankrupt /\ h.moving = g.moving
  BY <1>1 DEF GameState
<1>3. NewDebt(g, from, to, broke) \in {g, h, Bankrupt(h, from)}
  BY DEF NewDebt
<1> HIDE DEF h
<1>4. Rests(h, x) /\ Rights(h)
  BY <1>2, SameDoubles DEF Rights
<1>5. Rests(Bankrupt(h, from), x)
  BY <1>2, <1>4, BankruptRests
<1> QED
  BY <1>3, <1>4, <1>5

\* debts that are paid end the turn at most
LEMMA SolveDebtsRests ==
  ASSUME NEW x, NEW g \in GameState, Rights(g), Rests(g, x), NEW p, NEW paid
  PROVE  Rests(SolveDebts(g, p, paid), x)
<1> DEFINE h == [g EXCEPT !.debts = @ \ {Debt(p, c) : c \in paid},
                          !.auction = IF Hammer \in paid THEN NoAuction ELSE @]
<1>1. /\ h \in GameState
      /\ h.status = g.status /\ h.members = g.members /\ h.turn = g.turn
      /\ h.hasTurn = g.hasTurn /\ h.canRoll = g.canRoll
      /\ h.canRollAgain = g.canRollAgain /\ h.canBuy = g.canBuy
      /\ h.jailed = g.jailed /\ h.doubleCount = g.doubleCount
      /\ h.bankrupt = g.bankrupt /\ h.moving = g.moving
  BY NoAuctionType DEF GameState
<1>2. SolveDebts(g, p, paid) \in {g, h, EndTurn(h, FALSE)}
  BY DEF SolveDebts
<1> HIDE DEF h
<1>3. Rests(h, x) /\ Rights(h)
  BY <1>1, SameDoubles DEF Rights
<1> QED
  BY <1>1, <1>2, <1>3, EndTurnRests

\* a debt to everybody changes no doubles
LEMMA NewDebtToAllRests ==
  ASSUME NEW x, NEW g \in GameState, Rests(g, x), NEW p
  PROVE  Rests(NewDebtToAll(g, p), x)
<1> DEFINE h == [g EXCEPT !.debts = @ \union {Debt(p, q) : q \in Active(g) \ {p}}]
<1>1. /\ h.status = g.status /\ h.turn = g.turn
      /\ h.canRoll = g.canRoll /\ h.canRollAgain = g.canRollAgain
      /\ h.jailed = g.jailed /\ h.doubleCount = g.doubleCount
      /\ h.bankrupt = g.bankrupt /\ h.moving = g.moving
  BY DEF GameState
<1>2. NewDebtToAll(g, p) \in {g, h}
  BY DEF NewDebtToAll
<1> HIDE DEF h
<1>3. Rests(h, x)
  BY <1>1, SameDoubles
<1> QED
  BY <1>2, <1>3

\* toJail clears the count
LEMMA ToJailRests ==
  ASSUME NEW x, NEW g \in GameState, Rests(g, x), NEW p \in Players
  PROVE  /\ Rests(ToJail(g, p), x)
         /\ p = g.turn => Clean(ToJail(g, p), x)
<1> DEFINE h == ToJail(g, p)
<1>1. /\ h.status = g.status /\ h.turn = g.turn
      /\ h.canRoll = g.canRoll \ {p} /\ h.canRollAgain = g.canRollAgain
      /\ h.jailed = g.jailed \union {p}
      /\ h.doubleCount = [g.doubleCount EXCEPT ![p] = 0]
      /\ h.bankrupt = g.bankrupt /\ h.moving = g.moving
  BY DEF ToJail, GameState
<1>2. h.doubleCount[p] = 0 /\ \A q \in Players \ {p} : h.doubleCount[q] = g.doubleCount[q]
  BY <1>1 DEF GameState
<1> HIDE DEF h
<1>3. Rests(h, x)
  <2>1. SUFFICES ASSUME g.status = "run", NEW q \in Players \ (g.bankrupt \union {x})
                 PROVE  /\ q \in h.jailed => h.doubleCount[q] = 0
                        /\ h.doubleCount[q] > 0 => /\ q = g.turn
                                                   /\ q \in h.canRoll \union h.canRollAgain
                                                   /\ q \in h.canRoll => g.moving = {}
    BY <1>1 DEF Rests
  <2>2. CASE q = p
    BY <1>2, <2>2
  <2>3. CASE q # p
    BY <1>1, <1>2, <2>1, <2>3 DEF Rests
  <2> QED
    BY <2>2, <2>3
<1> QED
  BY <1>1, <1>2, <1>3 DEF Clean, h

\* every outcome of landPlayer, for a turn holder who may not roll on before he lands
LEMMA LandingsRests ==
  ASSUME NEW x, NEW g, Good(g), g.status = "run", Rests(g, x),
         g.turn \in g.canRoll => Clean(g, x),
         NEW l \in Landings(g)
  PROVE  Rests(l, x)
<1> DEFINE p == g.turn
           h == [g EXCEPT !.dest = @ \ {p}]
           offer  == [h EXCEPT !.canRoll = @ \ {p}, !.canBuy = @ \union {p}]
           dialog == [h EXCEPT !.paused = TRUE]
<1>1. g \in GameState /\ p \in Players /\ Rights(g)
  BY ZeroIsNobody DEF Good, Rights, GameState
<1>2. /\ h \in GameState
      /\ h.status = g.status /\ h.turn = g.turn /\ h.members = g.members
      /\ h.hasTurn = g.hasTurn /\ h.canBuy = g.canBuy
      /\ h.canRoll = g.canRoll /\ h.canRollAgain = g.canRollAgain
      /\ h.jailed = g.jailed /\ h.doubleCount = g.doubleCount
      /\ h.bankrupt = g.bankrupt /\ h.moving = g.moving /\ h.spectators = g.spectators
  BY <1>1 DEF GameState
<1>3. /\ offer.status = g.status /\ offer.turn = g.turn
      /\ offer.canRoll = g.canRoll \ {p} /\ offer.canRollAgain = g.canRollAgain
      /\ offer.jailed = g.jailed /\ offer.doubleCount = g.doubleCount
      /\ offer.bankrupt = g.bankrupt /\ offer.moving = g.moving
      /\ dialog.status = g.status /\ dialog.turn = g.turn
      /\ dialog.canRoll = g.canRoll /\ dialog.canRollAgain = g.canRollAgain
      /\ dialog.jailed = g.jailed /\ dialog.doubleCount = g.doubleCount
      /\ dialog.bankrupt = g.bankrupt /\ dialog.moving = g.moving
  BY <1>1 DEF GameState
<1>4. \/ l \in {h, offer, dialog, UpdateTurn(ToJail(h, p)), NewDebtToAll(h, p)}
      \/ \E c \in (Active(h) \ {p}) \union {Bank}, b \in BOOLEAN : l = NewDebt(h, p, c, b)
  BY DEF Landings
<1> HIDE DEF h, offer, dialog
<1>5. Rests(h, x) /\ Rights(h)
  BY <1>1, <1>2, SameDoubles DEF Rights
<1>6. Rests(dialog, x)
  BY <1>3, SameDoubles
<1>7. Rests(offer, x)
  <2>1. SUFFICES ASSUME NEW q \in Players \ (g.bankrupt \union {x}), g.doubleCount[q] > 0
                 PROVE  q = p /\ q \in offer.canRollAgain
    BY <1>3 DEF Rests
  <2>2. q = p /\ q \in g.canRoll \union g.canRollAgain
    BY <2>1 DEF Rests
  <2>3. q \notin g.canRoll
    BY <2>1, <2>2 DEF Clean
  <2> QED
    BY <1>3, <2>2, <2>3
<1>8. Rests(UpdateTurn(ToJail(h, p)), x)
  <2>1. ToJail(h, p) \in GameState
    <3>1. /\ [h.jailCount EXCEPT ![p] = 1] \in [Players -> 0..3]
          /\ [h.doubleCount EXCEPT ![p] = 0] \in [Players -> 0..3]
      BY <1>1, <1>2, CountType
    <3>2. h.canRoll \ {p} \in SUBSET Players /\ h.jailed \union {p} \in SUBSET Players
      BY <1>1, <1>2 DEF GameState
    <3> QED
      BY <1>2, <3>1, <3>2 DEF ToJail, GameState
  <2> QED
    BY <1>1, <1>2, <1>5, <2>1, ToJailRests, UpdateTurnRests
<1>9. Rests(NewDebtToAll(h, p), x)
  BY <1>2, <1>5, NewDebtToAllRests
<1>10. ASSUME NEW c \in (Active(h) \ {p}) \union {Bank}, NEW b \in BOOLEAN
       PROVE  Rests(NewDebt(h, p, c, b), x)
  <2>1. c \in 0..Hammer
    BY <1>2, ConstantsAssumption DEF Active, GameState, Players, Hammer, Bank
  <2> QED
    BY <1>1, <1>2, <1>5, <2>1, NewDebtRests
<1> QED
  BY <1>4, <1>5, <1>6, <1>7, <1>8, <1>9, <1>10

\* tokens arrive, and a player on the move has no roll before he lands
LEMMA ArrivalsRests ==
  ASSUME NEW x, NEW g, Good(g), g.status = "run", Rests(g, x),
         NEW ps \in SUBSET g.moving, NEW r \in Arrivals(g, ps)
  PROVE  Rests(r, x)
<1> DEFINE h == [g EXCEPT !.moving = @ \ ps]
<1>1. g \in GameState /\ g.turn \in Players
  BY ZeroIsNobody DEF Good, Rights, GameState
<1>2. /\ h \in GameState
      /\ SameSeats(g, h) /\ h.canRoll = g.canRoll
      /\ h.canRollAgain = g.canRollAgain /\ h.canBuy = g.canBuy
      /\ h.auction = g.auction /\ h.debts = g.debts
      /\ h.jailed = g.jailed /\ h.doubleCount = g.doubleCount
      /\ h.moving = g.moving \ ps
  BY <1>1 DEF GameState, SameSeats
<1>3. r = h \/ (ps # {} /\ \E l \in Landings(h) : r = EndTurnIfAny(l))
  BY DEF Arrivals
<1> HIDE DEF h
<1>4. Good(h) /\ h.status = "run" /\ Rests(h, x)
  BY <1>2, SameSeatsGood, SameDoubles DEF SameSeats, Good, Rights
<1>5. ASSUME ps # {}, NEW l \in Landings(h)
      PROVE  Rests(EndTurnIfAny(l), x)
  <2>1. h.turn \in h.canRoll => Clean(h, x)
    <3>1. SUFFICES ASSUME g.turn \in g.canRoll, g.turn \notin g.bankrupt \union {x}
                   PROVE  g.doubleCount[g.turn] = 0
      BY <1>2 DEF Clean, SameSeats
    <3>2. ~(g.doubleCount[g.turn] > 0)
      BY <1>1, <1>5, <3>1 DEF Rests
    <3>3. g.doubleCount[g.turn] \in 0..3
      BY <1>1 DEF GameState
    <3> QED
      BY <3>2, <3>3
  <2>2. Rests(l, x) /\ Good(l)
    BY <1>4, <1>5, <2>1, LandingsRests, LandingsGood
  <2> QED
    BY <2>2, EndTurnIfAnyRests DEF Good
<1> QED
  BY <1>3, <1>4, <1>5

\* a move sets out when the roll is spent
LEMMA StartMoveRests ==
  ASSUME NEW x, NEW g \in GameState, Rights(g), Rests(g, x), NEW p,
         g.turn \notin g.canRoll \/ Clean(g, x)
  PROVE  Rests(StartMove(g, p), x)
<1> DEFINE h == StartMove(g, p)
<1>1. /\ h.status = g.status /\ h.turn = g.turn
      /\ h.canRoll = g.canRoll /\ h.canRollAgain = g.canRollAgain
      /\ h.jailed = g.jailed /\ h.doubleCount = g.doubleCount
      /\ h.bankrupt = g.bankrupt
  BY DEF StartMove, GameState
<1> HIDE DEF h
<1>2. SUFFICES ASSUME g.status = "run", NEW q \in Players \ (g.bankrupt \union {x}),
                      g.doubleCount[q] > 0
               PROVE  q \notin g.canRoll
  BY <1>1 DEF Rests, h
<1>3. q = g.turn
  BY <1>2 DEF Rests
<1> QED
  BY <1>2, <1>3 DEF Clean

\* the one who leaves is not looked at, and is forgotten with a clean count
LEMMA ForgetRests ==
  ASSUME NEW g \in GameState, NEW p \in Players, Rests(g, p)
  PROVE  Rests(Forget(g, p), NoPlayer)
<1> DEFINE h == Forget(g, p)
<1>1. /\ h.status = g.status /\ h.turn = g.turn
      /\ h.canRoll = g.canRoll /\ h.canRollAgain = g.canRollAgain
      /\ h.jailed = g.jailed \ {p}
      /\ h.doubleCount = [g.doubleCount EXCEPT ![p] = 0]
      /\ h.bankrupt = g.bankrupt \ {p} /\ h.moving = g.moving
  BY DEF Forget, GameState
<1>2. h.doubleCount[p] = 0 /\ \A q \in Players \ {p} : h.doubleCount[q] = g.doubleCount[q]
  BY <1>1 DEF GameState
<1> HIDE DEF h
<1>3. SUFFICES ASSUME g.status = "run", NEW q \in Players \ h.bankrupt
               PROVE  /\ q \in h.jailed => h.doubleCount[q] = 0
                      /\ h.doubleCount[q] > 0 => /\ q = g.turn
                                                 /\ q \in g.canRoll \union g.canRollAgain
                                                 /\ q \in g.canRoll => g.moving = {}
  BY <1>1 DEF Rests, h
<1>4. CASE q = p
  BY <1>2, <1>4
<1>5. CASE q # p
  BY <1>1, <1>2, <1>3, <1>5 DEF Rests
<1> QED
  BY <1>4, <1>5

\* who is removed takes his doubles with him
LEMMA RemovePlayerRests ==
  ASSUME NEW g, Good(g), Rests(g, NoPlayer), NEW p \in g.members
  PROVE  Rests(RemovePlayer(g, p), NoPlayer)
<1> DEFINE cut == [g EXCEPT !.paused = FALSE, !.moving = @ \ Connected(g)]
           g1  == IF p = g.turn THEN UpdateTurn(cut) ELSE g
           g2  == [g1 EXCEPT !.members = @ \ {p}, !.moving = @ \ {p},
                             !.dest = @ \ {p}]
           g3  == IF g1.status = "run" THEN Bankrupt(g2, p) ELSE g2
<1>1. g \in GameState /\ p \in Players
  BY DEF Good, GameState
<1>2. Good(g1) /\ g1.status = g.status /\ g1.turn # p
  BY HandOverGood
<1>3. Rests(g, p)
  BY ZeroIsNobody DEF Rests
<1>4. Rests(g1, p)
  <2>1. CASE p = g.turn
    <3>1. cut \in GameState /\ cut.turn = p
      BY <2>1, HandOverGood
    <3>2. /\ cut.status = g.status /\ cut.turn = g.turn
          /\ cut.canRoll = g.canRoll /\ cut.canRollAgain = g.canRollAgain
          /\ cut.jailed = g.jailed /\ cut.doubleCount = g.doubleCount
          /\ cut.bankrupt = g.bankrupt /\ cut.moving \subseteq g.moving
      BY <1>1 DEF GameState
    <3> HIDE DEF cut
    <3>3. Rests(cut, p)
      BY <1>3, <3>2, SameDoubles
    <3>4. Clean(cut, p)
      BY <3>1 DEF Clean
    <3> QED
      BY <2>1, <3>1, <3>3, <3>4, UpdateTurnRests
  <2>2. CASE p # g.turn
    BY <1>3, <2>2
  <2> QED
    BY <2>1, <2>2
<1>5. RemovePlayer(g, p) = Forget(g3, p)
  BY <1>2 DEF RemovePlayer
<1> HIDE DEF g1
<1>6. g2 \in GameState /\ Rights(g2) /\ Good(g3)
  BY <1>1, <1>2, ErasedGood
<1>7. Rests(g2, p)
  <2>1. /\ g2.status = g1.status /\ g2.turn = g1.turn
        /\ g2.canRoll = g1.canRoll /\ g2.canRollAgain = g1.canRollAgain
        /\ g2.jailed = g1.jailed /\ g2.doubleCount = g1.doubleCount
        /\ g2.bankrupt = g1.bankrupt /\ g2.moving = g1.moving \ {p}
    BY <1>2 DEF Good, GameState
  <2> HIDE DEF g2
  <2> QED
    BY <1>4, <2>1, SameDoubles
<1> HIDE DEF g2
<1>8. Rests(g3, p)
  BY <1>1, <1>6, <1>7, BankruptRests
<1> HIDE DEF g3
<1> QED
  BY <1>1, <1>5, <1>6, <1>8, ForgetRests DEF Good

-----------------------------------------------------------------------------
(* The steps and the doubles *)

\* a roll counts: from nothing, one more, or once too often
LEMMA RollRests ==
  ASSUME IInv, Rests(game, NoPlayer), NEW p \in Players, Roll(p)
  PROVE  Rests(game', NoPlayer)
<1> DEFINE g == [game EXCEPT !.canRoll = @ \ {p}, !.canRollAgain = @ \ {p}]
           n == game.doubleCount[p] + 1
           single == [g EXCEPT !.doubleCount[p] = 0]
           double == [g EXCEPT !.doubleCount[p] = n, !.canRollAgain = @ \union {p}]
<1>1. /\ game \in GameState /\ game.status = "run" /\ Rights(game)
      /\ p = game.turn /\ p \in game.hasTurn
  BY MayPlayFacts DEF IInv, Good, Roll
<1>2. CASE game' = game
  BY <1>2
<1>3. CASE game' # game
  <2>1. \/ game' = StartMove(single, p)
        \/ n < 3 /\ game' = StartMove(double, p)
        \/ game' = UpdateTurn(ToJail(g, p))
    BY <1>3 DEF Roll
  <2>2. p \notin game.jailed
    BY <1>3 DEF Roll
  <2>3. /\ g \in GameState
        /\ g.status = "run" /\ g.turn = p /\ g.hasTurn = game.hasTurn
        /\ g.members = game.members /\ g.canBuy = game.canBuy
        /\ g.canRoll = game.canRoll \ {p} /\ g.canRollAgain = game.canRollAgain \ {p}
        /\ g.jailed = game.jailed /\ g.doubleCount = game.doubleCount
        /\ g.bankrupt = game.bankrupt /\ g.moving = game.moving
    BY <1>1 DEF GameState
  <2>4. n \in 1..4
    BY <1>1 DEF GameState
  <2> HIDE DEF g, n
  <2>5. Rights(g)
    BY <1>1, <2>3 DEF Rights
  <2>6. Rests(g, p)
    <3>1. SUFFICES ASSUME NEW q \in Players \ (game.bankrupt \union {p})
                   PROVE  /\ q \in game.jailed => game.doubleCount[q] = 0
                          /\ ~(game.doubleCount[q] > 0)
      BY <2>3 DEF Rests
    <3>2. q # NoPlayer /\ q # game.turn
      BY <1>1, <3>1, ZeroIsNobody
    <3> QED
      BY <1>1, <3>1, <3>2 DEF Rests
  <2>7. Rests(StartMove(single, p), NoPlayer)
    <3>1. /\ single.status = "run" /\ single.turn = p /\ single.hasTurn = g.hasTurn
          /\ single.members = g.members /\ single.canBuy = g.canBuy
          /\ single.canRoll = g.canRoll /\ single.canRollAgain = g.canRollAgain
          /\ single.doubleCount = [g.doubleCount EXCEPT ![p] = 0]
          /\ single.jailed = g.jailed
          /\ single.bankrupt = g.bankrupt /\ single.moving = g.moving
      BY <2>3 DEF GameState
    <3>2. single \in GameState
      <4>1. [g.doubleCount EXCEPT ![p] = 0] \in [Players -> 0..3]
        BY <2>3, CountType
      <4> QED
        BY <2>3, <4>1 DEF GameState
    <3>3. /\ single.doubleCount[p] = 0
          /\ \A q \in Players \ {p} : single.doubleCount[q] = g.doubleCount[q]
      BY <2>3, <3>1 DEF GameState
    <3> HIDE DEF single
    <3>4. Rests(single, NoPlayer)
      <4>1. SUFFICES ASSUME NEW q \in Players \ g.bankrupt
                     PROVE  /\ q \in g.jailed => single.doubleCount[q] = 0
                            /\ single.doubleCount[q] > 0 =>
                                 /\ q = p
                                 /\ q \in g.canRoll \union g.canRollAgain
                                 /\ q \in g.canRoll => g.moving = {}
        BY <3>1 DEF Rests
      <4>2. CASE q = p
        BY <3>3, <4>2
      <4>3. CASE q # p
        BY <2>3, <2>6, <3>3, <4>1, <4>3 DEF Rests
      <4> QED
        BY <4>2, <4>3
    <3> QED
      BY <2>3, <2>5, <3>1, <3>2, <3>4, StartMoveRests DEF Rights
  <2>8. ASSUME n < 3
        PROVE  Rests(StartMove(double, p), NoPlayer)
    <3>1. /\ double.status = "run" /\ double.turn = p /\ double.hasTurn = g.hasTurn
          /\ double.members = g.members /\ double.canBuy = g.canBuy
          /\ double.canRoll = g.canRoll
          /\ double.canRollAgain = g.canRollAgain \union {p}
          /\ double.doubleCount = [g.doubleCount EXCEPT ![p] = n]
          /\ double.jailed = g.jailed
          /\ double.bankrupt = g.bankrupt /\ double.moving = g.moving
      BY <2>3 DEF GameState
    <3>2. double \in GameState
      <4>1. [g.doubleCount EXCEPT ![p] = n] \in [Players -> 0..3]
        BY <2>3, <2>4, <2>8, CountType
      <4>2. g.canRollAgain \union {p} \in SUBSET Players
        BY <2>3 DEF GameState
      <4> QED
        BY <2>3, <4>1, <4>2 DEF GameState
    <3>3. \A q \in Players \ {p} : double.doubleCount[q] = g.doubleCount[q]
      BY <2>3, <3>1 DEF GameState
    <3> HIDE DEF double
    <3>4. Rests(double, NoPlayer)
      <4>1. SUFFICES ASSUME NEW q \in Players \ g.bankrupt
                     PROVE  /\ q \in g.jailed => double.doubleCount[q] = 0
                            /\ double.doubleCount[q] > 0 =>
                                 /\ q = p
                                 /\ q \in double.canRoll \union double.canRollAgain
                                 /\ q \in double.canRoll => g.moving = {}
        BY <3>1 DEF Rests
      <4>2. CASE q = p
        BY <2>2, <2>3, <3>1, <4>2
      <4>3. CASE q # p
        BY <2>3, <2>6, <3>3, <4>1, <4>3 DEF Rests
      <4> QED
        BY <4>2, <4>3
    <3>5. Rights(double)
      BY <1>1, <2>3, <2>5, <3>1 DEF Rights
    <3> QED
      BY <2>3, <3>1, <3>2, <3>4, <3>5, StartMoveRests
  <2>9. Rests(UpdateTurn(ToJail(g, p)), NoPlayer)
    <3>1. ToJail(g, p) \in GameState
      <4>1. /\ [g.jailCount EXCEPT ![p] = 1] \in [Players -> 0..3]
            /\ [g.doubleCount EXCEPT ![p] = 0] \in [Players -> 0..3]
        BY <2>3, CountType
      <4>2. g.canRoll \ {p} \in SUBSET Players /\ g.jailed \union {p} \in SUBSET Players
        BY <2>3 DEF GameState
      <4> QED
        BY <2>3, <4>1, <4>2 DEF ToJail, GameState
    <3>2. /\ ToJail(g, p).doubleCount[p] = 0 /\ ToJail(g, p).turn = p
          /\ ToJail(g, p).status = "run" /\ ToJail(g, p).bankrupt = g.bankrupt
      BY <2>3 DEF ToJail, GameState
    <3>3. Rests(ToJail(g, p), p)
      BY <2>3, <2>6, ToJailRests
    <3>4. Rests(ToJail(g, p), NoPlayer)
      BY <3>2, <3>3 DEF Rests
    <3>5. Clean(ToJail(g, p), NoPlayer)
      BY <3>2 DEF Clean
    <3> QED
      BY <3>1, <3>4, <3>5, UpdateTurnRests
  <2> QED
    BY <2>1, <2>7, <2>8, <2>9
<1> QED
  BY <1>2, <1>3

\* nobody in jail who is out of it by doubles, by the fine or by a card counts any
LEMMA OutOfJailRests ==
  ASSUME IInv, Rests(game, NoPlayer), NEW p \in Players, MayPlay(p), p \in game.jailed
  PROVE  /\ game \in GameState /\ game.status = "run" /\ Rights(game)
         /\ p = game.turn /\ p \in game.hasTurn /\ p \notin game.bankrupt
         /\ game.doubleCount[p] = 0 /\ Clean(game, NoPlayer)
         /\ \A q \in Players \ game.bankrupt : ~(game.doubleCount[q] > 0)
<1>1. /\ game \in GameState /\ game.status = "run" /\ Rights(game)
      /\ p = game.turn /\ p \in game.hasTurn /\ p \in Active(game)
  BY MayPlayFacts DEF IInv, Good
<1>2. p \notin game.bankrupt
  BY <1>1 DEF Active
<1>3. game.doubleCount[p] = 0
  BY <1>1, <1>2, ZeroIsNobody DEF Rests
<1>4. ASSUME NEW q \in Players \ game.bankrupt
      PROVE  ~(game.doubleCount[q] > 0)
  <2>1. game.doubleCount[q] > 0 => q = p
    BY <1>1, <1>4, ZeroIsNobody DEF Rests
  <2> QED
    BY <1>3, <2>1
<1> QED
  BY <1>1, <1>2, <1>3, <1>4 DEF Clean

\* where nobody counts any doubles, rights and moves are free
LEMMA NoDoublesRests ==
  ASSUME NEW x, NEW g, Rests(g, x), g.status = "run", NEW h,
         \A q \in Players \ g.bankrupt : ~(g.doubleCount[q] > 0),
         h.status = g.status, h.bankrupt = g.bankrupt, h.jailed \subseteq g.jailed,
         h.doubleCount = g.doubleCount
  PROVE  Rests(h, x)
BY DEF Rests

\* out of jail on a move
LEMMA JailRollDoublesRests ==
  ASSUME IInv, Rests(game, NoPlayer), NEW p \in Players, JailRollDoubles(p)
  PROVE  Rests(game', NoPlayer)
<1> DEFINE h == [game EXCEPT !.jailed = @ \ {p}]
<1>1. /\ game \in GameState /\ game.status = "run"
      /\ \A q \in Players \ game.bankrupt : ~(game.doubleCount[q] > 0)
  BY OutOfJailRests DEF JailRollDoubles
<1>2. /\ h \in GameState
      /\ h.status = game.status /\ h.bankrupt = game.bankrupt
      /\ h.jailed = game.jailed \ {p} /\ h.doubleCount = game.doubleCount
  BY <1>1 DEF GameState
<1>3. game' = StartMove(h, p)
  BY DEF JailRollDoubles
<1> HIDE DEF h
<1>4. /\ game'.status = h.status /\ game'.bankrupt = h.bankrupt
      /\ game'.jailed = h.jailed /\ game'.doubleCount = h.doubleCount
  BY <1>2, <1>3 DEF StartMove, GameState
<1> QED
  BY <1>1, <1>2, <1>4, NoDoublesRests

\* who stays in jail passes a clean turn, who is out of it may roll
LEMMA JailRollMissedRests ==
  ASSUME IInv, Rests(game, NoPlayer), NEW p \in Players, JailRollMissed(p)
  PROVE  Rests(game', NoPlayer)
<1> DEFINE g == [game EXCEPT !.jailed = @ \ {p}, !.jailCount[p] = 0]
           again == [g EXCEPT !.canRollAgain = @ \union {p}]
           roll  == [g EXCEPT !.canRoll = @ \union {p}]
           next  == UpdateTurn(game)
           stays == [next EXCEPT !.jailCount[p] = game.jailCount[p] + 1]
<1>1. /\ game \in GameState /\ game.status = "run" /\ Good(game)
      /\ p = game.turn /\ p \in game.hasTurn /\ Clean(game, NoPlayer)
      /\ \A q \in Players \ game.bankrupt : ~(game.doubleCount[q] > 0)
  BY OutOfJailRests DEF JailRollMissed, IInv
<1>2. \/ game' \in {stays, roll}
      \/ \E broke \in BOOLEAN : game' = NewDebt(again, p, Bank, broke)
  BY DEF JailRollMissed
<1>3. Rests(stays, NoPlayer)
  <2>1. next \in GameState
    BY <1>1, UpdateTurnGood DEF Good
  <2>2. Rests(next, NoPlayer)
    BY <1>1, UpdateTurnRests
  <2> HIDE DEF next
  <2>3. /\ stays.status = next.status /\ stays.turn = next.turn
        /\ stays.canRoll = next.canRoll /\ stays.canRollAgain = next.canRollAgain
        /\ stays.jailed = next.jailed /\ stays.doubleCount = next.doubleCount
        /\ stays.bankrupt = next.bankrupt /\ stays.moving = next.moving
    BY <2>1 DEF GameState
  <2> HIDE DEF stays
  <2> QED
    BY <2>2, <2>3, SameDoubles
<1>4. /\ Good(g) /\ SameSeats(game, g)
  BY <1>1, OutOfJailGood
<1>5. g.jailed = game.jailed \ {p} /\ g.doubleCount = game.doubleCount
  BY <1>1 DEF GameState
<1> HIDE DEF g, next, stays
<1>6. /\ Good(again) /\ SameSeats(g, again) /\ Good(roll) /\ SameSeats(g, roll)
  BY <1>1, <1>4, GrantGood DEF SameSeats
<1>7. /\ again.jailed = g.jailed /\ again.doubleCount = g.doubleCount
      /\ roll.jailed = g.jailed /\ roll.doubleCount = g.doubleCount
  BY <1>4 DEF Good, GameState
<1> HIDE DEF again, roll
<1>8. Rests(again, NoPlayer) /\ Rests(roll, NoPlayer)
  BY <1>1, <1>4, <1>5, <1>6, <1>7, NoDoublesRests DEF SameSeats
<1>9. \A broke \in BOOLEAN : Rests(NewDebt(again, p, Bank, broke), NoPlayer)
  <2>1. Bank \in 0..Hammer
    BY ConstantsAssumption DEF Bank, Hammer
  <2> QED
    BY <1>6, <1>8, <2>1, NewDebtRests DEF Good
<1> QED
  BY <1>2, <1>3, <1>8, <1>9

\* out of jail, to roll
LEMMA LeaveJailRests ==
  ASSUME IInv, Rests(game, NoPlayer), NEW p \in Players, LeaveJail(p)
  PROVE  Rests(game', NoPlayer)
<1>1. /\ game \in GameState /\ game.status = "run"
      /\ \A q \in Players \ game.bankrupt : ~(game.doubleCount[q] > 0)
  BY OutOfJailRests DEF LeaveJail
<1>2. /\ game'.status = game.status /\ game'.bankrupt = game.bankrupt
      /\ game'.jailed = game.jailed \ {p} /\ game'.doubleCount = game.doubleCount
  BY <1>1 DEF LeaveJail, GameState
<1> QED
  BY <1>1, <1>2, NoDoublesRests

\* the commands that may end the turn, and those that do not touch it
LEMMA TurnCommandsRest ==
  ASSUME IInv, Rests(game, NoPlayer), NEW p \in Players,
         BuyEstate(p) \/ NewAuction(p) \/ EndTurnAsked(p) \/ PayTax(p) \/ Bid(p)
  PROVE  Rests(game', NoPlayer)
<1> DEFINE h == [game EXCEPT !.canBuy = @ \ {p}]
           g == [game EXCEPT !.paused = FALSE]
<1>1. game \in GameState /\ Rights(game)
  BY DEF IInv, Good
<1>2. /\ h \in GameState
      /\ h.status = game.status /\ h.members = game.members /\ h.turn = game.turn
      /\ h.hasTurn = game.hasTurn /\ h.canRoll = game.canRoll
      /\ h.canRollAgain = game.canRollAgain /\ h.canBuy = game.canBuy \ {p}
      /\ h.jailed = game.jailed /\ h.doubleCount = game.doubleCount
      /\ h.bankrupt = game.bankrupt /\ h.moving = game.moving
  BY <1>1 DEF GameState
<1>3. /\ g \in GameState
      /\ g.status = game.status /\ g.members = game.members /\ g.turn = game.turn
      /\ g.hasTurn = game.hasTurn /\ g.canRoll = game.canRoll
      /\ g.canRollAgain = game.canRollAgain /\ g.canBuy = game.canBuy
      /\ g.jailed = game.jailed /\ g.doubleCount = game.doubleCount
      /\ g.bankrupt = game.bankrupt /\ g.moving = game.moving
  BY <1>1 DEF GameState
<1>4. Bank \in 0..Hammer
  BY ConstantsAssumption DEF Bank, Hammer
<1>5. CASE BuyEstate(p)
  <2>1. game' = EndTurn(h, FALSE)
    BY <1>5 DEF BuyEstate
  <2> HIDE DEF h
  <2>2. Rests(h, NoPlayer) /\ Rights(h)
    BY <1>1, <1>2, SameDoubles DEF Rights
  <2> QED
    BY <1>2, <2>1, <2>2, EndTurnRests
<1>6. CASE NewAuction(p) \/ Bid(p)
  <2>1. /\ game'.status = game.status /\ game'.turn = game.turn
        /\ game'.canRoll = game.canRoll /\ game'.canRollAgain = game.canRollAgain
        /\ game'.jailed = game.jailed /\ game'.doubleCount = game.doubleCount
        /\ game'.bankrupt = game.bankrupt /\ game'.moving = game.moving
    BY <1>1, <1>6 DEF NewAuction, Bid, GameState
  <2> QED
    BY <2>1, SameDoubles
<1>7. CASE EndTurnAsked(p)
  BY <1>1, <1>7, EndTurnRests DEF EndTurnAsked
<1>8. CASE PayTax(p)
  <2>1. \/ game' = EndTurn(g, FALSE)
        \/ \E broke \in BOOLEAN : game' = NewDebt(g, p, Bank, broke)
    BY <1>8 DEF PayTax
  <2> HIDE DEF g
  <2>2. Rests(g, NoPlayer) /\ Rights(g)
    BY <1>1, <1>3, SameDoubles DEF Rights
  <2> QED
    BY <1>3, <1>4, <2>1, <2>2, EndTurnRests, NewDebtRests
<1> QED
  BY <1>5, <1>6, <1>7, <1>8

\* debts that are settled, given up or made by a trade
LEMMA DebtCommandsRest ==
  ASSUME IInv, Rests(game, NoPlayer), NEW p \in Players,
         Settle(p) \/ DeclareBankrupt(p) \/ \E q \in Players : CompleteTrade(p, q)
  PROVE  Rests(game', NoPlayer)
<1>1. game \in GameState /\ Rights(game) /\ Good(game)
  BY DEF IInv, Good
<1>2. CASE Settle(p)
  BY <1>1, <1>2, SolveDebtsRests DEF Settle
<1>3. CASE DeclareBankrupt(p)
  BY <1>1, <1>3, BankruptRests DEF DeclareBankrupt
<1>4. ASSUME NEW q \in Players, CompleteTrade(p, q)
      PROVE  Rests(game', NoPlayer)
  <2>1. game.status = "run" /\ {p, q} \subseteq Active(game)
    BY <1>4 DEF CompleteTrade, MayCommand
  <2>2. PICK new \in SUBSET {Debt(p, q), Debt(q, p)} :
          \E paid \in SUBSET Owed([game EXCEPT !.debts = @ \union new], p) :
            LET h == SolveDebts([game EXCEPT !.debts = @ \union new], p, paid)
            IN  \E rest \in SUBSET Owed(h, q) : game' = SolveDebts(h, q, rest)
    BY <1>4 DEF CompleteTrade
  <2> DEFINE g == [game EXCEPT !.debts = @ \union new]
  <2>3. /\ g.status = game.status /\ g.turn = game.turn
        /\ g.canRoll = game.canRoll /\ g.canRollAgain = game.canRollAgain
        /\ g.jailed = game.jailed /\ g.doubleCount = game.doubleCount
        /\ g.bankrupt = game.bankrupt /\ g.moving = game.moving
    BY <1>1 DEF GameState
  <2>4. Good(g) /\ g.status = "run"
    <3>1. \A d \in new : /\ d \in [from : Players, to : 0..Hammer]
                         /\ {d.from, d.to} \subseteq Active(game) \union {Bank}
      BY <2>1, DebtType
    <3> QED
      BY <1>1, <2>1, <3>1, AddDebtsGood
  <2>5. PICK paid \in SUBSET Owed(g, p) :
          \E rest \in SUBSET Owed(SolveDebts(g, p, paid), q) :
            game' = SolveDebts(SolveDebts(g, p, paid), q, rest)
    BY <2>2
  <2> HIDE DEF g
  <2> DEFINE h == SolveDebts(g, p, paid)
  <2>6. Rests(g, NoPlayer)
    BY <2>3, SameDoubles
  <2>7. Rests(h, NoPlayer) /\ Good(h)
    BY <2>4, <2>6, SolveDebtsRests, SolveDebtsGood DEF Good
  <2>8. PICK rest \in SUBSET Owed(h, q) : game' = SolveDebts(h, q, rest)
    BY <2>5
  <2> HIDE DEF h
  <2> QED
    BY <2>7, <2>8, SolveDebtsRests DEF Good
<1> QED
  BY <1>2, <1>3, <1>4

\* players come and go
LEMMA SeatCommandsRest ==
  ASSUME IInv, Rests(game, NoPlayer), NEW p \in Players,
         \/ Leave(p) \/ PlayerTimeout(p) \/ Disconnect(p) \/ Reconnect(p)
         \/ Watch(p) \/ Upgrade(p)
  PROVE  Rests(game', NoPlayer)
<1>1. game \in GameState /\ Good(game)
  BY DEF IInv, Good
<1>2. CASE Leave(p) \/ PlayerTimeout(p)
  <2>1. p \in game.members /\ game' = RemovePlayer(game, p)
    BY <1>2 DEF Leave, PlayerTimeout, Connected
  <2> QED
    BY <1>1, <2>1, RemovePlayerRests
<1>3. CASE Disconnect(p) \/ Reconnect(p) \/ Watch(p) \/ Upgrade(p)
  <2>1. /\ game'.status = game.status /\ game'.turn = game.turn
        /\ game'.canRoll = game.canRoll /\ game'.canRollAgain = game.canRollAgain
        /\ game'.jailed = game.jailed /\ game'.doubleCount = game.doubleCount
        /\ game'.bankrupt = game.bankrupt /\ game'.moving \subseteq game.moving
    <3>1. CASE Disconnect(p)
      BY <1>1, <3>1 DEF Disconnect, GameState
    <3>2. CASE Reconnect(p)
      BY <1>1, <3>2 DEF Reconnect, GameState
    <3>3. CASE Watch(p)
      BY <1>1, <3>3 DEF Watch, GameState
    <3>4. CASE Upgrade(p)
      BY <1>1, <3>4 DEF Upgrade, GameState
    <3> QED
      BY <1>3, <3>1, <3>2, <3>3, <3>4
  <2> QED
    BY <2>1, SameDoubles
<1> QED
  BY <1>2, <1>3

\* the turn holder lands on a card that is going to collect
LEMMA CollectsRests ==
  ASSUME game \in GameState, Rests(game, NoPlayer), NEW ps, Collects(ps)
  PROVE  Rests(game', NoPlayer)
<1>1. /\ game'.status = game.status /\ game'.turn = game.turn
      /\ game'.canRoll = game.canRoll /\ game'.canRollAgain = game.canRollAgain
      /\ game'.jailed = game.jailed /\ game'.doubleCount = game.doubleCount
      /\ game'.bankrupt = game.bankrupt /\ game'.moving = {}
  BY DEF Collects, GameState
<1> QED
  BY <1>1, SameDoubles

\* tokens arrive by confirmation or by the timer
LEMMA TokensRest ==
  ASSUME IInv, Rests(game, NoPlayer),
         TokenTimeout \/ \E p \in Players : ConfirmToken(p)
  PROVE  Rests(game', NoPlayer)
<1>1. Good(game) /\ game \in GameState
  BY DEF IInv, Good
<1>2. CASE TokenTimeout
  <2>1. \/ game.turn \in game.dest /\ Collects(game.moving)
        \/ game.turn \in game.dest /\ game' \in Arrivals(game, game.moving)
        \/ game' = game
    BY <1>2 DEF TokenTimeout
  <2>2. game.turn \in game.dest => game.status = "run"
    BY <1>1, ZeroIsNobody DEF Good, Rights, GameState
  <2> QED
    BY <1>1, <2>1, <2>2, CollectsRests, ArrivalsRests
<1>3. ASSUME NEW p \in Players, ConfirmToken(p)
      PROVE  Rests(game', NoPlayer)
  <2>1. \/ Collects({p})
        \/ p \in game.moving /\ game' \in Arrivals(game, {p})
        \/ game' = game
    BY <1>3 DEF ConfirmToken
  <2>2. game.status = "run"
    BY <1>3 DEF ConfirmToken
  <2>3. p \in game.moving => {p} \in SUBSET game.moving
    OBVIOUS
  <2> QED
    BY <1>1, <2>1, <2>2, <2>3, CollectsRests, ArrivalsRests
<1> QED
  BY <1>2, <1>3

\* the auction goes on, ends the turn or leaves a debt
LEMMA AuctionTimeoutRests ==
  ASSUME IInv, Rests(game, NoPlayer), AuctionTimeout
  PROVE  Rests(game', NoPlayer)
<1> DEFINE next == game.auction.status + 1
           p    == game.auction.bidder
           g    == [game EXCEPT !.auction.status = next]
           done == [game EXCEPT !.auction = NoAuction]
<1>1. game \in GameState /\ Rights(game) /\ auctionTimer
  BY DEF IInv, Good, AuctionTimeout
<1>2. CASE ~game.auction.open
  BY <1>2 DEF AuctionTimeout
<1>3. CASE game.auction.open
  <2>1. \/ game' \in {g, EndTurn(done, FALSE)}
        \/ \E broke \in BOOLEAN : game' = NewDebt(g, p, Hammer, broke)
    BY <1>3 DEF AuctionTimeout
  <2>2. p \in Players /\ Hammer \in 0..Hammer
    BY <1>1, <1>3, ConstantsAssumption DEF IInv, GameState, Hammer
  <2>3. g \in GameState /\ done \in GameState
    <3>1. game.auction.status \in 0..2
      BY <1>1, <1>3 DEF IInv, GameState, Sold
    <3>2. next \in 0..Sold
      BY <3>1 DEF Sold
    <3> HIDE DEF next
    <3> QED
      BY <1>1, <3>2, NoAuctionType DEF GameState
  <2>4. /\ g.status = game.status /\ g.members = game.members /\ g.turn = game.turn
        /\ g.hasTurn = game.hasTurn /\ g.canRoll = game.canRoll
        /\ g.canRollAgain = game.canRollAgain /\ g.canBuy = game.canBuy
        /\ g.jailed = game.jailed /\ g.doubleCount = game.doubleCount
        /\ g.bankrupt = game.bankrupt /\ g.moving = game.moving
    BY <1>1 DEF GameState
  <2>5. /\ done.status = game.status /\ done.members = game.members
        /\ done.turn = game.turn
        /\ done.hasTurn = game.hasTurn /\ done.canRoll = game.canRoll
        /\ done.canRollAgain = game.canRollAgain /\ done.canBuy = game.canBuy
        /\ done.jailed = game.jailed /\ done.doubleCount = game.doubleCount
        /\ done.bankrupt = game.bankrupt /\ done.moving = game.moving
    BY <1>1 DEF GameState
  <2> HIDE DEF g, done, next, p
  <2>6. Rests(g, NoPlayer) /\ Rights(g)
    BY <1>1, <2>4, SameDoubles DEF Rights
  <2>7. Rests(done, NoPlayer) /\ Rights(done)
    BY <1>1, <2>5, SameDoubles DEF Rights
  <2> QED
    BY <2>1, <2>2, <2>3, <2>6, <2>7, EndTurnRests, NewDebtRests
<1> QED
  BY <1>2, <1>3

\* a round of a collecting card, the last with endTurn
LEMMA RoundRests ==
  ASSUME IInv, Charging, Rests(game, NoPlayer), NEW c \in charges, Charge(c)
  PROVE  Rests(game', NoPlayer)
<1>1. /\ Good(game) /\ game.status = "run" /\ game \in GameState
      /\ c.from \in Active(game) /\ c.from \in Players
      /\ c.to \in game.members /\ c.to \in Players
  BY DEF IInv, Charging, Good
<1>2. PICK h \in {game} \union {NewDebt(game, c.from, c.to, b) : b \in BOOLEAN} :
        game' = IF charges' = {} THEN EndTurnIfAny(h) ELSE h
  BY DEF Charge
<1>3. h = game \/ (c.to \in Active(game) /\ \E b \in BOOLEAN : h = NewDebt(game, c.from, c.to, b))
  <2>1. c.to \notin Active(game) => c.to \in game.bankrupt \union game.spectators
    BY <1>1 DEF Active
  <2> QED
    BY <1>2, <2>1 DEF NewDebt
<1>4. Good(h)
  BY <1>1, <1>3, NewDebtGood
<1>5. c.to \in 0..Hammer
  BY <1>1, ConstantsAssumption DEF Players, Hammer
<1>6. Rests(h, NoPlayer)
  BY <1>1, <1>3, <1>5, NewDebtRests DEF Good
<1>7. Rests(EndTurnIfAny(h), NoPlayer)
  BY <1>4, <1>6, EndTurnIfAnyRests DEF Good
<1> QED
  BY <1>2, <1>6, <1>7

\* every step leaves doubles to the turn they were rolled in
LEMMA NextRests ==
  IInv /\ Charging /\ Rests(game, NoPlayer) /\ [Next]_vars => Rests(game, NoPlayer)'
<1> SUFFICES ASSUME IInv, Charging, Rests(game, NoPlayer), [Next]_vars
             PROVE  Rests(game', NoPlayer)
  OBVIOUS
<1>1. CASE AuctionTimeout
  BY <1>1, AuctionTimeoutRests
<1>2. ASSUME NEW p \in Players, Command(p)
      PROVE  Rests(game', NoPlayer)
  <2>1. CASE Roll(p)
    BY <2>1, RollRests
  <2>2. CASE JailRollDoubles(p)
    BY <2>2, JailRollDoublesRests
  <2>3. CASE JailRollMissed(p)
    BY <2>3, JailRollMissedRests
  <2>4. CASE LeaveJail(p)
    BY <2>4, LeaveJailRests
  <2>5. CASE BuyEstate(p) \/ NewAuction(p) \/ EndTurnAsked(p) \/ PayTax(p) \/ Bid(p)
    BY <2>5, TurnCommandsRest
  <2>6. CASE Settle(p) \/ DeclareBankrupt(p) \/ \E q \in Players : CompleteTrade(p, q)
    BY <2>6, DebtCommandsRest
  <2>7. CASE \/ Leave(p) \/ PlayerTimeout(p) \/ Disconnect(p) \/ Reconnect(p)
             \/ Watch(p) \/ Upgrade(p)
    BY <2>7, SeatCommandsRest
  <2> QED
    BY <1>2, <2>1, <2>2, <2>3, <2>4, <2>5, <2>6, <2>7 DEF Command
<1>3. CASE TokenTimeout \/ \E p \in Players : ConfirmToken(p)
  BY <1>3, TokensRest
<1>4. CASE \E c \in charges : Charge(c)
  BY <1>4, RoundRests
<1>5. CASE UNCHANGED vars
  BY <1>5 DEF vars
<1> QED
  BY <1>1, <1>2, <1>3, <1>4, <1>5 DEF Next

\* Whoever waits for his turn has a clean count of doubles, whoever leaves, comes
\* back, goes broke, is jailed or is promoted.
THEOREM DoublesEndWithTurn == Spec => []DoublesWithinTurn
<1>1. Init => Rests(game, NoPlayer)
  BY DEF Init, Rests
<1>2. IInv /\ Rests(game, NoPlayer) => DoublesWithinTurn
  <2>1. ASSUME IInv, Rests(game, NoPlayer), game.status = "run",
               NEW p \in Active(game), game.doubleCount[p] > 0
        PROVE  p = game.turn
    <3>1. p \in Players /\ p \notin game.bankrupt /\ p # NoPlayer
      BY <2>1, ZeroIsNobody DEF IInv, Good, Active, GameState
    <3> QED
      BY <2>1, <3>1 DEF Rests
  <2> QED
    BY <2>1 DEF DoublesWithinTurn, Running
<1> QED
  BY <1>1, <1>2, NextRests, InductiveInvariant, PTL DEF Spec

-----------------------------------------------------------------------------
(* Phases and the jail, while nobody loses his connection *)

\* at most one thing holds up the turn
Single(g) ==
  /\ g.moving # {} => ~g.paused /\ ~g.auction.open /\ g.canBuy = {}
  /\ g.paused => ~g.auction.open /\ g.canBuy = {}
  /\ g.auction.open => g.canBuy = {}

\* who is in jail has no rights
Cells(g) ==
  \A p \in g.jailed \ g.bankrupt :
    /\ g.jailCount[p] \in 1..3
    /\ p \notin g.canRoll \union g.canRollAgain \union g.canBuy

\* the tokens that move are those of players with a connection, which all have, and
\* they do not move for a player in jail
Quiet(g) ==
  /\ Single(g)
  /\ Cells(g)
  /\ g.moving \subseteq g.members /\ g.members \subseteq g.online
  /\ g.moving # {} => g.turn \notin g.jailed

\* nothing holds up the turn
Calm(g) == g.moving = {} /\ ~g.paused /\ ~g.auction.open /\ g.canBuy = {}

\* h raises nothing that could hold up the turn, and gives no rights
Calmer(g, h) ==
  /\ h.moving \subseteq g.moving
  /\ h.paused => g.paused
  /\ h.auction.open => g.auction.open
  /\ h.canBuy \subseteq g.canBuy
  /\ h.canRoll \subseteq g.canRoll /\ h.canRollAgain \subseteq g.canRollAgain
  /\ h.jailed \subseteq g.jailed /\ g.bankrupt \subseteq h.bankrupt
  /\ \A p \in h.jailed : h.jailCount[p] = g.jailCount[p]

\* what is calmer is quiet, as long as the turn stays where it is or nothing moves
LEMMA CalmerQuiet ==
  ASSUME NEW g, Quiet(g), NEW h, Calmer(g, h),
         h.moving \subseteq h.members, h.members \subseteq h.online,
         h.turn = g.turn \/ h.moving = {}
  PROVE  Quiet(h)
<1>1. Single(h)
  BY DEF Quiet, Single, Calmer
<1>2. Cells(h)
  BY DEF Quiet, Cells, Calmer
<1> QED
  BY <1>1, <1>2 DEF Quiet, Calmer

\* the next player gets a roll only out of jail
LEMMA UpdateTurnQuiet ==
  ASSUME NEW g \in GameState, Quiet(g), g.moving = {}
  PROVE  Quiet(UpdateTurn(g)) /\ UpdateTurn(g).moving = {}
<1> DEFINE q == NextPlayer(g)
           h == UpdateTurn(g)
<1>1. /\ h.members = g.members /\ h.online = g.online /\ h.bankrupt = g.bankrupt
      /\ h.moving = g.moving /\ h.paused = g.paused /\ h.auction = g.auction
      /\ h.jailed = g.jailed /\ h.jailCount = g.jailCount
      /\ h.canBuy = g.canBuy \ {g.turn, q}
      /\ h.canRoll = (g.canRoll \ {g.turn}) \union ({q} \ g.jailed)
      /\ h.canRollAgain = g.canRollAgain \ {g.turn}
  BY DEF UpdateTurn, GameState
<1> HIDE DEF h, q
<1>2. Single(h)
  BY <1>1 DEF Quiet, Single
<1>3. Cells(h)
  BY <1>1 DEF Quiet, Cells
<1> QED
  BY <1>1, <1>2, <1>3 DEF Quiet, h

\* endTurn gives a roll for doubles, which nobody in jail has, or passes the turn
LEMMA EndTurnQuiet ==
  ASSUME NEW g \in GameState, Quiet(g), NEW asked
  PROVE  Quiet(EndTurn(g, asked)) /\ EndTurn(g, asked).moving \subseteq g.moving
<1> DEFINE p == g.turn
           h == [g EXCEPT !.canBuy = @ \ {p}]
           r == [h EXCEPT !.canRoll = @ \union {p}, !.canRollAgain = @ \ {p}]
<1>1. CASE TurnHeld(g, asked)
  BY <1>1 DEF EndTurn
<1>2. CASE ~TurnHeld(g, asked)
  <2>1. /\ h \in GameState
        /\ h.members = g.members /\ h.online = g.online /\ h.bankrupt = g.bankrupt
        /\ h.moving = g.moving /\ h.paused = g.paused /\ h.auction = g.auction
        /\ h.jailed = g.jailed /\ h.jailCount = g.jailCount
        /\ h.canBuy = g.canBuy \ {p} /\ h.canRoll = g.canRoll
        /\ h.canRollAgain = g.canRollAgain /\ h.turn = g.turn
    BY DEF GameState
  <2>2. /\ r.members = g.members /\ r.online = g.online /\ r.bankrupt = g.bankrupt
        /\ r.moving = g.moving /\ r.paused = g.paused /\ r.auction = g.auction
        /\ r.jailed = g.jailed /\ r.jailCount = g.jailCount
        /\ r.canBuy = g.canBuy \ {p} /\ r.canRoll = g.canRoll \union {p}
        /\ r.canRollAgain = g.canRollAgain \ {p} /\ r.turn = g.turn
    BY DEF GameState
  <2>3. \/ p \in g.canRollAgain /\ EndTurn(g, asked) = r
        \/ EndTurn(g, asked) \in {h, UpdateTurn(h)}
    BY <1>2 DEF EndTurn
  <2>4. g.moving = {}
    BY <1>2 DEF TurnHeld
  <2> HIDE DEF h, r
  <2>5. Quiet(h)
    BY <2>1, CalmerQuiet DEF Calmer, Quiet
  <2>6. ASSUME p \in g.canRollAgain
        PROVE  Quiet(r)
    <3>1. Single(r)
      BY <2>2 DEF Quiet, Single
    <3>2. Cells(r)
      BY <2>2, <2>6 DEF Quiet, Cells
    <3> QED
      BY <2>2, <3>1, <3>2 DEF Quiet
  <2>7. Quiet(UpdateTurn(h)) /\ UpdateTurn(h).moving = {}
    BY <2>1, <2>4, <2>5, UpdateTurnQuiet
  <2> QED
    BY <2>1, <2>2, <2>3, <2>5, <2>6, <2>7
<1> QED
  BY <1>1, <1>2

\* the same where the game may have ended
LEMMA EndTurnIfAnyQuiet ==
  ASSUME NEW g \in GameState, Quiet(g)
  PROVE  Quiet(EndTurnIfAny(g)) /\ EndTurnIfAny(g).moving \subseteq g.moving
BY EndTurnQuiet DEF EndTurnIfAny

\* a bankruptcy takes phases and gives none; it does not pass the turn of a move
LEMMA BankruptQuiet ==
  ASSUME NEW g \in GameState, Quiet(g), NEW p \in Players,
         p = g.turn => g.moving = {}
  PROVE  Quiet(Bankrupt(g, p)) /\ Bankrupt(g, p).moving \subseteq g.moving
<1> DEFINE h == Ruined(g, p)
           e == EndGame(h)
<1>1. h \in GameState
  BY NoAuctionType DEF Ruined, GameState
<1>2. /\ h.members = g.members /\ h.online = g.online /\ h.turn = g.turn
      /\ h.bankrupt = g.bankrupt \union {p}
      /\ h.moving = g.moving /\ h.paused = g.paused
      /\ h.auction \in {g.auction, NoAuction}
      /\ h.jailed = g.jailed /\ h.jailCount = g.jailCount
      /\ h.canBuy = g.canBuy /\ h.canRoll = g.canRoll
      /\ h.canRollAgain = g.canRollAgain
  BY DEF Ruined, GameState
<1>3. \/ Bankrupt(g, p) \in {g, e, h}
      \/ p = h.turn /\ Bankrupt(g, p) = UpdateTurn(h)
      \/ Bankrupt(g, p) = EndTurn(h, FALSE)
  BY DEF Bankrupt
<1> HIDE DEF h
<1>4. /\ e.members = h.members /\ e.online = h.online /\ e.bankrupt = h.bankrupt
      /\ e.moving = h.moving \ (h.members \intersect h.online)
      /\ e.paused = h.paused /\ e.auction = NoAuction
      /\ e.jailed = h.jailed /\ e.jailCount = h.jailCount
      /\ e.canBuy = h.canBuy \ {h.turn} /\ e.canRoll = h.canRoll \ {h.turn}
      /\ e.canRollAgain = h.canRollAgain \ {h.turn}
  BY <1>1 DEF EndGame, GameState
<1> HIDE DEF e
<1>5. Quiet(h)
  <2>1. Calmer(g, h)
    BY <1>2 DEF Calmer, NoAuction
  <2> QED
    BY <1>2, <2>1, CalmerQuiet DEF Quiet
<1>6. Quiet(e) /\ e.moving = {}
  <2>1. Calmer(h, e)
    BY <1>4 DEF Calmer, NoAuction
  <2>2. e.moving = {} /\ e.members \subseteq e.online
    BY <1>4, <1>5 DEF Quiet
  <2> QED
    BY <1>5, <2>1, <2>2, CalmerQuiet
<1>7. ASSUME p = h.turn
      PROVE  Quiet(UpdateTurn(h)) /\ UpdateTurn(h).moving = {}
  BY <1>1, <1>2, <1>5, <1>7, UpdateTurnQuiet
<1>8. Quiet(EndTurn(h, FALSE)) /\ EndTurn(h, FALSE).moving \subseteq h.moving
  BY <1>1, <1>5, EndTurnQuiet
<1> QED
  BY <1>2, <1>3, <1>5, <1>6, <1>7, <1>8

\* a debt changes no phase, unless it ruins somebody
LEMMA NewDebtQuiet ==
  ASSUME NEW g \in GameState, Quiet(g), NEW from \in Players,
         NEW to \in 0..Hammer, NEW broke, g.moving = {}
  PROVE  Quiet(NewDebt(g, from, to, broke)) /\ NewDebt(g, from, to, broke).moving = {}
<1> DEFINE h == [g EXCEPT !.debts = @ \union {Debt(from, to)}]
<1>1. Debt(from, to) \in [from : Players, to : 0..Hammer]
  BY DEF Debt
<1>2. /\ h \in GameState
      /\ h.members = g.members /\ h.online = g.online /\ h.turn = g.turn
      /\ h.bankrupt = g.bankrupt /\ h.moving = g.moving /\ h.paused = g.paused
      /\ h.auction = g.auction
      /\ h.jailed = g.jailed /\ h.jailCount = g.jailCount
      /\ h.canBuy = g.canBuy /\ h.canRoll = g.canRoll
      /\ h.canRollAgain = g.canRollAgain
  BY <1>1 DEF GameState
<1>3. NewDebt(g, from, to, broke) \in {g, h, Bankrupt(h, from)}
  BY DEF NewDebt
<1> HIDE DEF h
<1>4. Quiet(h)
  BY <1>2, CalmerQuiet DEF Calmer, Quiet
<1>5. Quiet(Bankrupt(h, from)) /\ Bankrupt(h, from).moving \subseteq h.moving
  BY <1>2, <1>4, BankruptQuiet
<1> QED
  BY <1>2, <1>3, <1>4, <1>5

\* debts that are paid close the auction and end the turn at most
LEMMA SolveDebtsQuiet ==
  ASSUME NEW g \in GameState, Quiet(g), NEW p, NEW paid
  PROVE  Quiet(SolveDebts(g, p, paid))
<1> DEFINE h == [g EXCEPT !.debts = @ \ {Debt(p, c) : c \in paid},
                          !.auction = IF Hammer \in paid THEN NoAuction ELSE @]
<1>1. /\ h \in GameState
      /\ h.members = g.members /\ h.online = g.online /\ h.turn = g.turn
      /\ h.bankrupt = g.bankrupt /\ h.moving = g.moving /\ h.paused = g.paused
      /\ h.auction \in {g.auction, NoAuction}
      /\ h.jailed = g.jailed /\ h.jailCount = g.jailCount
      /\ h.canBuy = g.canBuy /\ h.canRoll = g.canRoll
      /\ h.canRollAgain = g.canRollAgain
  BY NoAuctionType DEF GameState
<1>2. SolveDebts(g, p, paid) \in {g, h, EndTurn(h, FALSE)}
  BY DEF SolveDebts
<1> HIDE DEF h
<1>3. Calmer(g, h)
  BY <1>1 DEF Calmer, NoAuction
<1>4. Quiet(h)
  BY <1>1, <1>3, CalmerQuiet DEF Quiet
<1> QED
  BY <1>1, <1>2, <1>4, EndTurnQuiet

\* who goes to jail in his turn loses the turn and all rights with it
LEMMA JailedQuiet ==
  ASSUME NEW g \in GameState, Quiet(g), NEW p \in Players, p = g.turn, g.moving = {}
  PROVE  Quiet(UpdateTurn(ToJail(g, p)))
<1> DEFINE j == ToJail(g, p)
           q == NextPlayer(j)
           h == UpdateTurn(j)
<1>1. j \in GameState
  <2>1. /\ [g.jailCount EXCEPT ![p] = 1] \in [Players -> 0..3]
        /\ [g.doubleCount EXCEPT ![p] = 0] \in [Players -> 0..3]
    BY CountType
  <2>2. g.canRoll \ {p} \in SUBSET Players /\ g.jailed \union {p} \in SUBSET Players
    BY DEF GameState
  <2> QED
    BY <2>1, <2>2 DEF ToJail, GameState
<1>2. /\ j.members = g.members /\ j.online = g.online /\ j.turn = g.turn
      /\ j.bankrupt = g.bankrupt /\ j.moving = g.moving /\ j.paused = g.paused
      /\ j.auction = g.auction /\ j.jailed = g.jailed \union {p}
      /\ j.jailCount = [g.jailCount EXCEPT ![p] = 1]
      /\ j.canBuy = g.canBuy /\ j.canRoll = g.canRoll \ {p}
      /\ j.canRollAgain = g.canRollAgain
  BY DEF ToJail, GameState
<1>3. j.jailCount[p] = 1 /\ \A r \in Players \ {p} : j.jailCount[r] = g.jailCount[r]
  BY <1>2 DEF GameState
<1> HIDE DEF j
<1>4. /\ h.members = j.members /\ h.online = j.online /\ h.bankrupt = j.bankrupt
      /\ h.moving = j.moving /\ h.paused = j.paused /\ h.auction = j.auction
      /\ h.jailed = j.jailed /\ h.jailCount = j.jailCount
      /\ h.canBuy = j.canBuy \ {p, q}
      /\ h.canRoll = (j.canRoll \ {p}) \union ({q} \ j.jailed)
      /\ h.canRollAgain = j.canRollAgain \ {p}
  BY <1>1, <1>2 DEF UpdateTurn, GameState
<1> HIDE DEF h, q
<1>5. Single(h)
  BY <1>2, <1>4 DEF Quiet, Single
<1>6. Cells(h)
  <2>1. SUFFICES ASSUME NEW r \in h.jailed \ h.bankrupt
                 PROVE  /\ h.jailCount[r] \in 1..3
                        /\ r \notin h.canRoll \union h.canRollAgain \union h.canBuy
    BY DEF Cells
  <2>2. CASE r = p
    BY <1>2, <1>3, <1>4, <2>2
  <2>3. CASE r # p
    <3>1. r \in g.jailed \ g.bankrupt /\ r \in Players
      BY <1>2, <1>4, <2>1, <2>3 DEF GameState
    <3> QED
      BY <1>2, <1>3, <1>4, <2>3, <3>1 DEF Quiet, Cells
  <2> QED
    BY <2>2, <2>3
<1> QED
  BY <1>2, <1>4, <1>5, <1>6 DEF Quiet, h, j

\* every outcome of landPlayer, in a game in which nothing else holds up the turn
LEMMA LandingsQuiet ==
  ASSUME NEW g, Good(g), g.status = "run", Quiet(g), Calm(g), g.turn \notin g.jailed,
         NEW l \in Landings(g)
  PROVE  Quiet(l)
<1> DEFINE p == g.turn
           h == [g EXCEPT !.dest = @ \ {p}]
           offer  == [h EXCEPT !.canRoll = @ \ {p}, !.canBuy = @ \union {p}]
           dialog == [h EXCEPT !.paused = TRUE]
           debts  == [h EXCEPT !.debts = @ \union {Debt(p, q) : q \in Active(h) \ {p}}]
<1>1. g \in GameState /\ p \in Players
  BY ZeroIsNobody DEF Good, Rights, GameState
<1>2. /\ h \in GameState
      /\ h.members = g.members /\ h.online = g.online /\ h.turn = g.turn
      /\ h.bankrupt = g.bankrupt /\ h.moving = g.moving /\ h.paused = g.paused
      /\ h.auction = g.auction
      /\ h.jailed = g.jailed /\ h.jailCount = g.jailCount
      /\ h.canBuy = g.canBuy /\ h.canRoll = g.canRoll
      /\ h.canRollAgain = g.canRollAgain
  BY <1>1 DEF GameState
<1>3. /\ offer.members = g.members /\ offer.online = g.online /\ offer.turn = g.turn
      /\ offer.bankrupt = g.bankrupt /\ offer.moving = g.moving
      /\ offer.paused = g.paused /\ offer.auction = g.auction
      /\ offer.jailed = g.jailed /\ offer.jailCount = g.jailCount
      /\ offer.canBuy = g.canBuy \union {p} /\ offer.canRoll = g.canRoll \ {p}
      /\ offer.canRollAgain = g.canRollAgain
  BY <1>1 DEF GameState
<1>4. /\ dialog.members = g.members /\ dialog.online = g.online /\ dialog.turn = g.turn
      /\ dialog.bankrupt = g.bankrupt /\ dialog.moving = g.moving
      /\ dialog.paused = TRUE /\ dialog.auction = g.auction
      /\ dialog.jailed = g.jailed /\ dialog.jailCount = g.jailCount
      /\ dialog.canBuy = g.canBuy /\ dialog.canRoll = g.canRoll
      /\ dialog.canRollAgain = g.canRollAgain
  BY <1>1 DEF GameState
<1>5. /\ debts.members = h.members /\ debts.online = h.online /\ debts.turn = h.turn
      /\ debts.bankrupt = h.bankrupt /\ debts.moving = h.moving
      /\ debts.paused = h.paused /\ debts.auction = h.auction
      /\ debts.jailed = h.jailed /\ debts.jailCount = h.jailCount
      /\ debts.canBuy = h.canBuy /\ debts.canRoll = h.canRoll
      /\ debts.canRollAgain = h.canRollAgain
  BY <1>2 DEF GameState
<1>6. \/ l \in {h, offer, dialog, debts, UpdateTurn(ToJail(h, p))}
      \/ \E c \in (Active(h) \ {p}) \union {Bank}, b \in BOOLEAN : l = NewDebt(h, p, c, b)
  BY DEF Landings, NewDebtToAll
<1> HIDE DEF h, offer, dialog, debts
<1>7. Quiet(h)
  BY <1>2, CalmerQuiet DEF Calmer, Quiet
<1>8. Quiet(offer)
  <2>1. Single(offer)
    BY <1>3 DEF Single, Calm
  <2>2. Cells(offer)
    BY <1>3 DEF Quiet, Cells
  <2> QED
    BY <1>3, <2>1, <2>2 DEF Quiet
<1>9. Quiet(dialog)
  <2>1. Single(dialog)
    BY <1>4 DEF Single, Calm
  <2>2. Cells(dialog)
    BY <1>4 DEF Quiet, Cells
  <2> QED
    BY <1>4, <2>1, <2>2 DEF Quiet
<1>10. Quiet(debts)
  BY <1>5, <1>7, CalmerQuiet DEF Calmer, Quiet
<1>11. Quiet(UpdateTurn(ToJail(h, p)))
  BY <1>1, <1>2, <1>7, JailedQuiet DEF Calm
<1>12. ASSUME NEW c \in (Active(h) \ {p}) \union {Bank}, NEW b \in BOOLEAN
       PROVE  Quiet(NewDebt(h, p, c, b))
  <2>1. c \in 0..Hammer
    BY <1>2, ConstantsAssumption DEF Active, GameState, Players, Hammer, Bank
  <2> QED
    BY <1>1, <1>2, <1>7, <2>1, NewDebtQuiet DEF Calm
<1> QED
  BY <1>6, <1>7, <1>8, <1>9, <1>10, <1>11, <1>12

\* when the last token arrives nothing else holds up the turn
LEMMA ArrivalsQuiet ==
  ASSUME NEW g, Good(g), g.status = "run", Quiet(g),
         NEW ps \in SUBSET g.moving, NEW r \in Arrivals(g, ps)
  PROVE  Quiet(r)
<1> DEFINE h == [g EXCEPT !.moving = @ \ ps]
<1>1. g \in GameState
  BY DEF Good
<1>2. /\ h \in GameState /\ SameSeats(g, h)
      /\ h.members = g.members /\ h.online = g.online /\ h.turn = g.turn
      /\ h.bankrupt = g.bankrupt /\ h.moving = g.moving \ ps /\ h.paused = g.paused
      /\ h.auction = g.auction /\ h.debts = g.debts
      /\ h.jailed = g.jailed /\ h.jailCount = g.jailCount
      /\ h.canBuy = g.canBuy /\ h.canRoll = g.canRoll
      /\ h.canRollAgain = g.canRollAgain
  BY <1>1 DEF GameState, SameSeats
<1>3. \/ r = h
      \/ ps # {} /\ h.moving = {} /\ \E l \in Landings(h) : r = EndTurnIfAny(l)
  BY DEF Arrivals
<1> HIDE DEF h
<1>4. Good(h) /\ h.status = "run"
  BY <1>2, SameSeatsGood DEF SameSeats, Good, Rights
<1>5. Quiet(h)
  BY <1>2, CalmerQuiet DEF Calmer, Quiet
<1>6. ASSUME ps # {}, h.moving = {}, NEW l \in Landings(h)
      PROVE  Quiet(EndTurnIfAny(l))
  <2>1. g.moving # {}
    BY <1>6
  <2>2. Calm(h) /\ h.turn \notin h.jailed
    BY <1>2, <1>6, <2>1 DEF Calm, Quiet, Single
  <2>3. Quiet(l) /\ l \in GameState
    BY <1>4, <1>5, <1>6, <2>2, LandingsQuiet, LandingsGood DEF Good
  <2> QED
    BY <2>3, EndTurnIfAnyQuiet
<1> QED
  BY <1>3, <1>5, <1>6

\* a move is set in motion when nothing else holds up the turn
LEMMA StartMoveQuiet ==
  ASSUME NEW g \in GameState, Quiet(g), NEW p, Calm(g), g.turn \notin g.jailed
  PROVE  Quiet(StartMove(g, p))
<1> DEFINE h == StartMove(g, p)
<1>1. /\ h.members = g.members /\ h.online = g.online /\ h.turn = g.turn
      /\ h.bankrupt = g.bankrupt /\ h.moving = g.moving \union Connected(g)
      /\ h.paused = g.paused /\ h.auction = g.auction
      /\ h.jailed = g.jailed /\ h.jailCount = g.jailCount
      /\ h.canBuy = g.canBuy /\ h.canRoll = g.canRoll
      /\ h.canRollAgain = g.canRollAgain
  BY DEF StartMove, GameState
<1> HIDE DEF h
<1>2. Single(h)
  BY <1>1 DEF Single, Calm
<1>3. Cells(h)
  BY <1>1 DEF Quiet, Cells
<1>4. Connected(g) \subseteq g.members
  BY DEF Connected
<1> QED
  BY <1>1, <1>2, <1>3, <1>4 DEF Quiet, h

\* who leaves in his turn takes all tokens with him, since all have a connection
LEMMA RemovePlayerQuiet ==
  ASSUME NEW g, Good(g), Quiet(g), NEW p \in g.members
  PROVE  /\ Quiet(RemovePlayer(g, p))
         /\ RemovePlayer(g, p).moving \subseteq g.moving
<1> DEFINE cut == [g EXCEPT !.paused = FALSE, !.moving = @ \ Connected(g)]
           g1  == IF p = g.turn THEN UpdateTurn(cut) ELSE g
           g2  == [g1 EXCEPT !.members = @ \ {p}, !.moving = @ \ {p},
                             !.dest = @ \ {p}]
           g3  == IF g1.status = "run" THEN Bankrupt(g2, p) ELSE g2
           h   == Forget(g3, p)
<1>1. g \in GameState /\ p \in Players
  BY DEF Good, GameState
<1>2. Good(g1) /\ g1.status = g.status /\ g1.turn # p
  BY HandOverGood
<1>3. Quiet(g1) /\ g1.moving \subseteq g.moving
  <2>1. CASE p = g.turn
    <3>1. cut \in GameState
      BY <2>1, HandOverGood
    <3>2. /\ cut.members = g.members /\ cut.online = g.online /\ cut.turn = g.turn
          /\ cut.bankrupt = g.bankrupt /\ cut.moving = g.moving \ Connected(g)
          /\ cut.paused = FALSE /\ cut.auction = g.auction
          /\ cut.jailed = g.jailed /\ cut.jailCount = g.jailCount
          /\ cut.canBuy = g.canBuy /\ cut.canRoll = g.canRoll
          /\ cut.canRollAgain = g.canRollAgain
      BY <1>1 DEF GameState
    <3> HIDE DEF cut
    <3>3. cut.moving = {}
      BY <3>2 DEF Quiet, Connected
    <3>4. Quiet(cut)
      BY <3>2, CalmerQuiet DEF Calmer, Quiet
    <3> QED
      BY <2>1, <3>1, <3>3, <3>4, UpdateTurnQuiet
  <2>2. CASE p # g.turn
    BY <2>2
  <2> QED
    BY <2>1, <2>2
<1>4. RemovePlayer(g, p) = h
  BY <1>2 DEF RemovePlayer
<1> HIDE DEF g1
<1>5. g2 \in GameState /\ Good(g3) /\ p \notin g3.members /\ g2.turn = g1.turn
  BY <1>1, <1>2, ErasedGood
<1>6. /\ g2.members = g1.members \ {p} /\ g2.online = g1.online
      /\ g2.bankrupt = g1.bankrupt /\ g2.moving = g1.moving \ {p}
      /\ g2.paused = g1.paused /\ g2.auction = g1.auction
      /\ g2.jailed = g1.jailed /\ g2.jailCount = g1.jailCount
      /\ g2.canBuy = g1.canBuy /\ g2.canRoll = g1.canRoll
      /\ g2.canRollAgain = g1.canRollAgain
  BY <1>2 DEF Good, GameState
<1> HIDE DEF g2
<1>7. Quiet(g2)
  <2>1. Calmer(g1, g2)
    BY <1>6 DEF Calmer
  <2>2. g2.moving \subseteq g2.members /\ g2.members \subseteq g2.online
    BY <1>3, <1>6 DEF Quiet
  <2> QED
    BY <1>3, <1>5, <2>1, <2>2, CalmerQuiet
<1>8. Quiet(g3) /\ g3.moving \subseteq g2.moving
  BY <1>1, <1>2, <1>5, <1>7, BankruptQuiet
<1> HIDE DEF g3
<1>9. /\ h.members = g3.members /\ h.online = g3.online \ {p} /\ h.turn = g3.turn
      /\ h.bankrupt = g3.bankrupt \ {p} /\ h.moving = g3.moving
      /\ h.paused = g3.paused /\ h.auction = g3.auction
      /\ h.jailed = g3.jailed \ {p}
      /\ h.jailCount = [g3.jailCount EXCEPT ![p] = 0]
      /\ h.canBuy = g3.canBuy /\ h.canRoll = g3.canRoll
      /\ h.canRollAgain = g3.canRollAgain
  BY <1>5 DEF Forget, Good, GameState
<1>10. \A q \in Players \ {p} : h.jailCount[q] = g3.jailCount[q]
  BY <1>5, <1>9 DEF Good, GameState
<1>11. g3.jailed \subseteq Players
  BY <1>5 DEF Good, GameState
<1> HIDE DEF h
<1>12. Single(h)
  BY <1>8, <1>9 DEF Quiet, Single
<1>13. Cells(h)
  BY <1>8, <1>9, <1>10, <1>11 DEF Quiet, Cells
<1> QED
  BY <1>3, <1>4, <1>5, <1>6, <1>8, <1>9, <1>12, <1>13 DEF Quiet

-----------------------------------------------------------------------------
(* The steps, the phases and the jail *)

\* a player who passes the whole gate finds nothing that holds up his turn but an offer
LEMMA GateIsQuiet ==
  ASSUME IInv, Quiet(game), NEW p \in Players, MayPlay(p)
  PROVE  /\ game \in GameState /\ game.status = "run" /\ Good(game)
         /\ p = game.turn /\ p \in game.hasTurn /\ p \notin game.bankrupt
         /\ game.moving = {} /\ ~game.paused /\ ~game.auction.open
         /\ game.canBuy \subseteq {p}
         /\ p \in game.jailed => game.canBuy = {}
<1>1. /\ game \in GameState /\ game.status = "run" /\ Good(game) /\ Rights(game)
      /\ p = game.turn /\ p \in game.hasTurn /\ p \in Active(game)
  BY MayPlayFacts DEF IInv, Good
<1>2. game.moving = {} /\ ~game.paused /\ ~game.auction.open
  BY DEF MayPlay, MayBid, MayDecide
<1>3. p \notin game.bankrupt /\ game.canBuy \subseteq {p}
  BY <1>1 DEF Active, Rights
<1>4. p \in game.jailed => p \notin game.canBuy
  BY <1>3 DEF Quiet, Cells
<1> QED
  BY <1>1, <1>2, <1>3, <1>4

\* a roll moves a player out of jail or sends him there
LEMMA RollQuiet ==
  ASSUME IInv, Quiet(game), NEW p \in Players, Roll(p)
  PROVE  Quiet(game')
<1> DEFINE g == [game EXCEPT !.canRoll = @ \ {p}, !.canRollAgain = @ \ {p}]
           n == game.doubleCount[p] + 1
           single == [g EXCEPT !.doubleCount[p] = 0]
           double == [g EXCEPT !.doubleCount[p] = n, !.canRollAgain = @ \union {p}]
<1>1. /\ game \in GameState /\ p = game.turn /\ game.canBuy \subseteq {p}
      /\ game.moving = {} /\ ~game.paused /\ ~game.auction.open
  BY GateIsQuiet DEF Roll
<1>2. CASE game' = game
  BY <1>2
<1>3. CASE game' # game
  <2>1. \/ game' = StartMove(single, p)
        \/ n < 3 /\ game' = StartMove(double, p)
        \/ game' = UpdateTurn(ToJail(g, p))
    BY <1>3 DEF Roll
  <2>2. p \notin game.jailed /\ game.canBuy = {}
    BY <1>1, <1>3 DEF Roll
  <2>3. /\ g \in GameState
        /\ g.members = game.members /\ g.online = game.online /\ g.turn = p
        /\ g.bankrupt = game.bankrupt /\ g.moving = game.moving
        /\ g.paused = game.paused /\ g.auction = game.auction
        /\ g.jailed = game.jailed /\ g.jailCount = game.jailCount
        /\ g.canBuy = game.canBuy /\ g.canRoll = game.canRoll \ {p}
        /\ g.canRollAgain = game.canRollAgain \ {p}
    BY <1>1 DEF GameState
  <2>4. n \in 1..4
    BY <1>1 DEF GameState
  <2> HIDE DEF g, n
  <2>5. Quiet(g)
    BY <1>1, <2>3, CalmerQuiet DEF Calmer, Quiet
  <2>6. Quiet(StartMove(single, p))
    <3>1. /\ single.members = g.members /\ single.online = g.online
          /\ single.turn = g.turn
          /\ single.bankrupt = g.bankrupt /\ single.moving = g.moving
          /\ single.paused = g.paused /\ single.auction = g.auction
          /\ single.jailed = g.jailed /\ single.jailCount = g.jailCount
          /\ single.canBuy = g.canBuy /\ single.canRoll = g.canRoll
          /\ single.canRollAgain = g.canRollAgain
      BY <2>3 DEF GameState
    <3>2. single \in GameState
      <4>1. [g.doubleCount EXCEPT ![p] = 0] \in [Players -> 0..3]
        BY <2>3, CountType
      <4> QED
        BY <2>3, <4>1 DEF GameState
    <3> HIDE DEF single
    <3>3. Quiet(single)
      BY <2>5, <3>1, CalmerQuiet DEF Calmer, Quiet
    <3>4. Calm(single) /\ single.turn \notin single.jailed
      BY <1>1, <2>2, <2>3, <3>1 DEF Calm
    <3> QED
      BY <3>2, <3>3, <3>4, StartMoveQuiet
  <2>7. ASSUME n < 3
        PROVE  Quiet(StartMove(double, p))
    <3>1. /\ double.members = g.members /\ double.online = g.online
          /\ double.turn = g.turn
          /\ double.bankrupt = g.bankrupt /\ double.moving = g.moving
          /\ double.paused = g.paused /\ double.auction = g.auction
          /\ double.jailed = g.jailed /\ double.jailCount = g.jailCount
          /\ double.canBuy = g.canBuy /\ double.canRoll = g.canRoll
          /\ double.canRollAgain = g.canRollAgain \union {p}
      BY <2>3 DEF GameState
    <3>2. double \in GameState
      <4>1. [g.doubleCount EXCEPT ![p] = n] \in [Players -> 0..3]
        BY <2>3, <2>4, <2>7, CountType
      <4>2. g.canRollAgain \union {p} \in SUBSET Players
        BY <2>3 DEF GameState
      <4> QED
        BY <2>3, <4>1, <4>2 DEF GameState
    <3> HIDE DEF double
    <3>3. Quiet(double)
      <4>1. Single(double)
        BY <2>5, <3>1 DEF Quiet, Single
      <4>2. Cells(double)
        BY <2>2, <2>3, <2>5, <3>1 DEF Quiet, Cells
      <4> QED
        BY <2>5, <3>1, <4>1, <4>2 DEF Quiet
    <3>4. Calm(double) /\ double.turn \notin double.jailed
      BY <1>1, <2>2, <2>3, <3>1 DEF Calm
    <3> QED
      BY <3>2, <3>3, <3>4, StartMoveQuiet
  <2>8. Quiet(UpdateTurn(ToJail(g, p)))
    BY <1>1, <2>3, <2>5, JailedQuiet
  <2> QED
    BY <2>1, <2>6, <2>7, <2>8
<1> QED
  BY <1>2, <1>3

\* doubles, a missed roll, the fine or a card: out of jail with rights, or another turn in it
LEMMA JailQuiet ==
  ASSUME IInv, Quiet(game), NEW p \in Players,
         JailRollDoubles(p) \/ JailRollMissed(p) \/ LeaveJail(p)
  PROVE  Quiet(game')
<1> DEFINE d == [game EXCEPT !.jailed = @ \ {p}]
           g == [game EXCEPT !.jailed = @ \ {p}, !.jailCount[p] = 0]
           again == [g EXCEPT !.canRollAgain = @ \union {p}]
           roll  == [g EXCEPT !.canRoll = @ \union {p}]
           next  == UpdateTurn(game)
           stays == [next EXCEPT !.jailCount[p] = game.jailCount[p] + 1]
<1>1. /\ game \in GameState /\ game.status = "run" /\ Good(game)
      /\ p = game.turn /\ p \in game.hasTurn /\ p \notin game.bankrupt
      /\ game.moving = {} /\ ~game.paused /\ ~game.auction.open
      /\ p \in game.jailed /\ game.canBuy = {}
  BY GateIsQuiet DEF JailRollDoubles, JailRollMissed, LeaveJail
<1>2. game.jailCount[p] \in 1..3
  BY <1>1 DEF Quiet, Cells
<1>3. \/ game' \in {StartMove(d, p), roll}
      \/ game.jailCount[p] < 3 /\ game' = stays
      \/ \E broke \in BOOLEAN : game' = NewDebt(again, p, Bank, broke)
  <2>1. CASE LeaveJail(p)
    <3>1. game' = roll
      BY <1>1, <2>1 DEF LeaveJail, GameState
    <3> QED
      BY <3>1
  <2>2. CASE JailRollDoubles(p)
    BY <2>2 DEF JailRollDoubles
  <2>3. CASE JailRollMissed(p)
    BY <2>3 DEF JailRollMissed
  <2> QED
    BY <2>1, <2>2, <2>3
<1>4. Quiet(StartMove(d, p))
  <2>1. /\ d \in GameState
        /\ d.members = game.members /\ d.online = game.online /\ d.turn = game.turn
        /\ d.bankrupt = game.bankrupt /\ d.moving = game.moving
        /\ d.paused = game.paused /\ d.auction = game.auction
        /\ d.jailed = game.jailed \ {p} /\ d.jailCount = game.jailCount
        /\ d.canBuy = game.canBuy /\ d.canRoll = game.canRoll
        /\ d.canRollAgain = game.canRollAgain
    BY <1>1 DEF GameState
  <2> HIDE DEF d
  <2>2. Quiet(d)
    BY <2>1, CalmerQuiet DEF Calmer, Quiet
  <2>3. Calm(d) /\ d.turn \notin d.jailed
    BY <1>1, <2>1 DEF Calm
  <2> QED
    BY <2>1, <2>2, <2>3, StartMoveQuiet
<1>5. ASSUME game.jailCount[p] < 3
      PROVE  Quiet(stays)
  <2>1. next \in GameState
    BY <1>1, UpdateTurnGood DEF Good
  <2>2. Quiet(next) /\ next.jailCount = game.jailCount /\ next.moving = {}
    BY <1>1, UpdateTurnQuiet, UpdateTurnGood DEF SameTable
  <2> HIDE DEF next
  <2>3. /\ stays.members = next.members /\ stays.online = next.online
        /\ stays.turn = next.turn
        /\ stays.bankrupt = next.bankrupt /\ stays.moving = next.moving
        /\ stays.paused = next.paused /\ stays.auction = next.auction
        /\ stays.jailed = next.jailed
        /\ stays.canBuy = next.canBuy /\ stays.canRoll = next.canRoll
        /\ stays.canRollAgain = next.canRollAgain
        /\ stays.jailCount = [next.jailCount EXCEPT ![p] = game.jailCount[p] + 1]
    BY <2>1 DEF GameState
  <2>4. stays.jailCount[p] \in 1..3
    BY <1>2, <1>5, <2>1, <2>3 DEF GameState
  <2>5. \A q \in Players \ {p} : stays.jailCount[q] = next.jailCount[q]
    BY <2>1, <2>3 DEF GameState
  <2>6. next.jailed \subseteq Players
    BY <2>1 DEF GameState
  <2> HIDE DEF stays
  <2>7. Single(stays)
    BY <2>2, <2>3 DEF Quiet, Single
  <2>8. Cells(stays)
    BY <2>2, <2>3, <2>4, <2>5, <2>6 DEF Quiet, Cells
  <2> QED
    BY <2>2, <2>3, <2>7, <2>8 DEF Quiet
<1>6. Quiet(g) /\ Good(g) /\ g.turn = p /\ p \in g.hasTurn /\ g.moving = {} /\ p \notin g.jailed
  <2>1. Good(g) /\ SameSeats(game, g)
    BY <1>1, OutOfJailGood
  <2>2. /\ g.members = game.members /\ g.online = game.online /\ g.turn = game.turn
        /\ g.bankrupt = game.bankrupt /\ g.moving = game.moving
        /\ g.paused = game.paused /\ g.auction = game.auction
        /\ g.jailed = game.jailed \ {p}
        /\ g.jailCount = [game.jailCount EXCEPT ![p] = 0]
        /\ g.canBuy = game.canBuy /\ g.canRoll = game.canRoll
        /\ g.canRollAgain = game.canRollAgain
    BY <1>1 DEF GameState
  <2>3. \A q \in g.jailed : g.jailCount[q] = game.jailCount[q]
    BY <1>1, <2>2 DEF GameState
  <2> HIDE DEF g
  <2>4. Quiet(g)
    <3>1. Calmer(game, g)
      BY <2>2, <2>3 DEF Calmer
    <3> QED
      BY <2>2, <3>1, CalmerQuiet DEF Quiet
  <2> QED
    BY <1>1, <2>1, <2>2, <2>4 DEF SameSeats
<1> HIDE DEF g, d, next, stays
<1>7. Quiet(roll)
  <2>1. /\ roll.members = g.members /\ roll.online = g.online /\ roll.turn = g.turn
        /\ roll.bankrupt = g.bankrupt /\ roll.moving = g.moving
        /\ roll.paused = g.paused /\ roll.auction = g.auction
        /\ roll.jailed = g.jailed /\ roll.jailCount = g.jailCount
        /\ roll.canBuy = g.canBuy /\ roll.canRoll = g.canRoll \union {p}
        /\ roll.canRollAgain = g.canRollAgain
    BY <1>6 DEF Good, GameState
  <2> HIDE DEF roll
  <2>2. Single(roll)
    BY <1>6, <2>1 DEF Quiet, Single
  <2>3. Cells(roll)
    BY <1>6, <2>1 DEF Quiet, Cells
  <2> QED
    BY <1>6, <2>1, <2>2, <2>3 DEF Quiet
<1>8. Quiet(again) /\ again.moving = {} /\ again \in GameState
  <2>1. again \in GameState
    BY <1>6, GrantGood DEF Good
  <2>2. /\ again.members = g.members /\ again.online = g.online /\ again.turn = g.turn
        /\ again.bankrupt = g.bankrupt /\ again.moving = g.moving
        /\ again.paused = g.paused /\ again.auction = g.auction
        /\ again.jailed = g.jailed /\ again.jailCount = g.jailCount
        /\ again.canBuy = g.canBuy /\ again.canRoll = g.canRoll
        /\ again.canRollAgain = g.canRollAgain \union {p}
    BY <1>6 DEF Good, GameState
  <2> HIDE DEF again
  <2>3. Single(again)
    BY <1>6, <2>2 DEF Quiet, Single
  <2>4. Cells(again)
    BY <1>6, <2>2 DEF Quiet, Cells
  <2> QED
    BY <1>6, <2>1, <2>2, <2>3, <2>4 DEF Quiet
<1> HIDE DEF roll, again
<1>9. \A broke \in BOOLEAN : Quiet(NewDebt(again, p, Bank, broke))
  <2>1. Bank \in 0..Hammer
    BY ConstantsAssumption DEF Bank, Hammer
  <2> QED
    BY <1>8, <2>1, NewDebtQuiet
<1> QED
  BY <1>3, <1>4, <1>5, <1>7, <1>8, <1>9

\* the commands that may end the turn, and those that start or go on with an auction
LEMMA TurnCommandsQuiet ==
  ASSUME IInv, Quiet(game), NEW p \in Players,
         BuyEstate(p) \/ NewAuction(p) \/ EndTurnAsked(p) \/ PayTax(p) \/ Bid(p)
  PROVE  Quiet(game')
<1> DEFINE h == [game EXCEPT !.canBuy = @ \ {p}]
           g == [game EXCEPT !.paused = FALSE]
<1>1. game \in GameState
  BY DEF IInv, Good
<1>2. /\ h \in GameState
      /\ h.members = game.members /\ h.online = game.online /\ h.turn = game.turn
      /\ h.bankrupt = game.bankrupt /\ h.moving = game.moving
      /\ h.paused = game.paused /\ h.auction = game.auction
      /\ h.jailed = game.jailed /\ h.jailCount = game.jailCount
      /\ h.canBuy = game.canBuy \ {p} /\ h.canRoll = game.canRoll
      /\ h.canRollAgain = game.canRollAgain
  BY <1>1 DEF GameState
<1>3. /\ g \in GameState
      /\ g.members = game.members /\ g.online = game.online /\ g.turn = game.turn
      /\ g.bankrupt = game.bankrupt /\ g.moving = game.moving
      /\ g.paused = FALSE /\ g.auction = game.auction
      /\ g.jailed = game.jailed /\ g.jailCount = game.jailCount
      /\ g.canBuy = game.canBuy /\ g.canRoll = game.canRoll
      /\ g.canRollAgain = game.canRollAgain
  BY <1>1 DEF GameState
<1>4. CASE BuyEstate(p)
  <2>1. game' = EndTurn(h, FALSE)
    BY <1>4 DEF BuyEstate
  <2> HIDE DEF h
  <2>2. Quiet(h)
    BY <1>2, CalmerQuiet DEF Calmer, Quiet
  <2> QED
    BY <1>2, <2>1, <2>2, EndTurnQuiet
<1>5. CASE NewAuction(p)
  <2>1. /\ game.moving = {} /\ ~game.paused /\ game.canBuy \subseteq {p}
    BY <1>5, GateIsQuiet DEF NewAuction
  <2>2. /\ game'.members = game.members /\ game'.online = game.online
        /\ game'.turn = game.turn
        /\ game'.bankrupt = game.bankrupt /\ game'.moving = game.moving
        /\ game'.paused = game.paused
        /\ game'.jailed = game.jailed /\ game'.jailCount = game.jailCount
        /\ game'.canBuy = game.canBuy \ {p} /\ game'.canRoll = game.canRoll
        /\ game'.canRollAgain = game.canRollAgain
    BY <1>1, <1>5 DEF NewAuction, GameState
  <2>3. Single(game')
    BY <2>1, <2>2 DEF Single
  <2>4. Cells(game')
    BY <2>2 DEF Quiet, Cells
  <2> QED
    BY <2>1, <2>2, <2>3, <2>4 DEF Quiet
<1>6. CASE EndTurnAsked(p)
  BY <1>1, <1>6, EndTurnQuiet DEF EndTurnAsked
<1>7. CASE PayTax(p)
  <2>1. \/ game' = EndTurn(g, FALSE)
        \/ \E broke \in BOOLEAN : game' = NewDebt(g, p, Bank, broke)
    BY <1>7 DEF PayTax
  <2>2. game.moving = {} /\ Bank \in 0..Hammer
    BY <1>7, ConstantsAssumption DEF PayTax, MayDecide, Bank, Hammer
  <2> HIDE DEF g
  <2>3. Quiet(g)
    BY <1>3, CalmerQuiet DEF Calmer, Quiet
  <2>4. Quiet(EndTurn(g, FALSE))
    BY <1>3, <2>3, EndTurnQuiet
  <2>5. \A broke \in BOOLEAN : Quiet(NewDebt(g, p, Bank, broke))
    BY <1>3, <2>2, <2>3, NewDebtQuiet
  <2> QED
    BY <2>1, <2>4, <2>5
<1>8. CASE Bid(p)
  <2>1. PICK b : game' = [game EXCEPT !.auction = [@ EXCEPT !.status = 0, !.bidder = p,
                                                            !.bid = b]]
    BY <1>8 DEF Bid
  <2>2. /\ game'.members = game.members /\ game'.online = game.online
        /\ game'.turn = game.turn
        /\ game'.bankrupt = game.bankrupt /\ game'.moving = game.moving
        /\ game'.paused = game.paused /\ game'.auction.open = game.auction.open
        /\ game'.jailed = game.jailed /\ game'.jailCount = game.jailCount
        /\ game'.canBuy = game.canBuy /\ game'.canRoll = game.canRoll
        /\ game'.canRollAgain = game.canRollAgain
    BY <1>1, <2>1 DEF GameState
  <2> QED
    BY <2>2, CalmerQuiet DEF Calmer, Quiet
<1> QED
  BY <1>4, <1>5, <1>6, <1>7, <1>8

\* debts that are settled, given up or made by a trade
LEMMA DebtCommandsQuiet ==
  ASSUME IInv, Quiet(game), NEW p \in Players,
         Settle(p) \/ DeclareBankrupt(p) \/ \E q \in Players : CompleteTrade(p, q)
  PROVE  Quiet(game')
<1>1. game \in GameState /\ Good(game)
  BY DEF IInv, Good
<1>2. CASE Settle(p)
  BY <1>1, <1>2, SolveDebtsQuiet DEF Settle
<1>3. CASE DeclareBankrupt(p)
  BY <1>1, <1>3, BankruptQuiet DEF DeclareBankrupt, MayDecide
<1>4. ASSUME NEW q \in Players, CompleteTrade(p, q)
      PROVE  Quiet(game')
  <2>1. game.status = "run" /\ {p, q} \subseteq Active(game)
    BY <1>4 DEF CompleteTrade, MayCommand
  <2>2. PICK new \in SUBSET {Debt(p, q), Debt(q, p)} :
          \E paid \in SUBSET Owed([game EXCEPT !.debts = @ \union new], p) :
            LET h == SolveDebts([game EXCEPT !.debts = @ \union new], p, paid)
            IN  \E rest \in SUBSET Owed(h, q) : game' = SolveDebts(h, q, rest)
    BY <1>4 DEF CompleteTrade
  <2> DEFINE g == [game EXCEPT !.debts = @ \union new]
  <2>3. /\ g.members = game.members /\ g.online = game.online /\ g.turn = game.turn
        /\ g.bankrupt = game.bankrupt /\ g.moving = game.moving
        /\ g.paused = game.paused /\ g.auction = game.auction
        /\ g.jailed = game.jailed /\ g.jailCount = game.jailCount
        /\ g.canBuy = game.canBuy /\ g.canRoll = game.canRoll
        /\ g.canRollAgain = game.canRollAgain
    BY <1>1 DEF GameState
  <2>4. Good(g) /\ g.status = "run"
    <3>1. \A d \in new : /\ d \in [from : Players, to : 0..Hammer]
                         /\ {d.from, d.to} \subseteq Active(game) \union {Bank}
      BY <2>1, DebtType
    <3> QED
      BY <1>1, <2>1, <3>1, AddDebtsGood
  <2>5. PICK paid \in SUBSET Owed(g, p) :
          \E rest \in SUBSET Owed(SolveDebts(g, p, paid), q) :
            game' = SolveDebts(SolveDebts(g, p, paid), q, rest)
    BY <2>2
  <2> HIDE DEF g
  <2> DEFINE h == SolveDebts(g, p, paid)
  <2>6. Quiet(g)
    BY <2>3, CalmerQuiet DEF Calmer, Quiet
  <2>7. Quiet(h) /\ Good(h)
    BY <2>4, <2>6, SolveDebtsQuiet, SolveDebtsGood DEF Good
  <2>8. PICK rest \in SUBSET Owed(h, q) : game' = SolveDebts(h, q, rest)
    BY <2>5
  <2> HIDE DEF h
  <2> QED
    BY <2>7, <2>8, SolveDebtsQuiet DEF Good
<1> QED
  BY <1>2, <1>3, <1>4

\* players come and go, but nobody loses his connection
LEMMA SeatCommandsQuiet ==
  ASSUME Droppers = {}, IInv, Quiet(game), NEW p \in Players,
         \/ Leave(p) \/ PlayerTimeout(p) \/ Disconnect(p) \/ Reconnect(p)
         \/ Watch(p) \/ Upgrade(p)
  PROVE  Quiet(game')
<1>1. game \in GameState /\ Good(game)
  BY DEF IInv, Good
<1>2. CASE Leave(p) \/ PlayerTimeout(p)
  <2>1. p \in game.members /\ game' = RemovePlayer(game, p)
    BY <1>2 DEF Leave, PlayerTimeout, Connected
  <2> QED
    BY <1>1, <2>1, RemovePlayerQuiet
<1>3. CASE Disconnect(p)
  BY <1>3 DEF Disconnect
<1>4. CASE Reconnect(p) \/ Watch(p) \/ Upgrade(p)
  <2>1. /\ game'.turn = game.turn /\ game'.bankrupt = game.bankrupt
        /\ game'.moving \subseteq game.moving
        /\ game'.paused = game.paused /\ game'.auction = game.auction
        /\ game'.jailed = game.jailed /\ game'.jailCount = game.jailCount
        /\ game'.canBuy = game.canBuy /\ game'.canRoll = game.canRoll
        /\ game'.canRollAgain = game.canRollAgain
    <3>1. CASE Reconnect(p)
      BY <1>1, <3>1 DEF Reconnect, GameState
    <3>2. CASE Watch(p)
      BY <1>1, <3>2 DEF Watch, GameState
    <3>3. CASE Upgrade(p)
      BY <1>1, <3>3 DEF Upgrade, GameState
    <3> QED
      BY <1>4, <3>1, <3>2, <3>3
  <2>2. game.members \subseteq game'.members /\ game'.members \subseteq game'.online
    <3>1. game.members \subseteq game.online
      BY DEF Quiet
    <3>2. CASE Reconnect(p)
      BY <1>1, <3>1, <3>2 DEF Reconnect, GameState
    <3>3. CASE Watch(p)
      BY <1>1, <3>1, <3>3 DEF Watch, GameState
    <3>4. CASE Upgrade(p)
      BY <1>1, <3>1, <3>4 DEF Upgrade, GameState
    <3> QED
      BY <1>4, <3>2, <3>3, <3>4
  <2> QED
    BY <2>1, <2>2, CalmerQuiet DEF Calmer, Quiet
<1> QED
  BY <1>2, <1>3, <1>4

\* the last token lands the turn holder on a card that is going to collect
LEMMA CollectsQuiet ==
  ASSUME game \in GameState, Quiet(game), NEW ps, Collects(ps)
  PROVE  Quiet(game') /\ game'.moving = {}
<1>1. /\ game'.members = game.members /\ game'.online = game.online
      /\ game'.turn = game.turn
      /\ game'.bankrupt = game.bankrupt /\ game'.moving = {}
      /\ game'.paused = game.paused /\ game'.auction = game.auction
      /\ game'.jailed = game.jailed /\ game'.jailCount = game.jailCount
      /\ game'.canBuy = game.canBuy /\ game'.canRoll = game.canRoll
      /\ game'.canRollAgain = game.canRollAgain
  BY DEF Collects, GameState
<1> QED
  BY <1>1, CalmerQuiet DEF Calmer, Quiet

\* tokens arrive by confirmation or by the timer
LEMMA TokensQuiet ==
  ASSUME IInv, Quiet(game), charges = {},
         TokenTimeout \/ \E p \in Players : ConfirmToken(p)
  PROVE  Quiet(game') /\ (charges' # {} => game'.moving = {})
<1>1. Good(game) /\ game \in GameState
  BY DEF IInv, Good
<1>2. CASE TokenTimeout
  <2>1. \/ game.turn \in game.dest /\ Collects(game.moving)
        \/ /\ game.turn \in game.dest /\ game' \in Arrivals(game, game.moving)
           /\ charges' = {}
        \/ game' = game /\ charges' = {}
    BY <1>2 DEF TokenTimeout
  <2>2. game.turn \in game.dest => game.status = "run"
    BY <1>1, ZeroIsNobody DEF Good, Rights, GameState
  <2> QED
    BY <1>1, <2>1, <2>2, CollectsQuiet, ArrivalsQuiet
<1>3. ASSUME NEW p \in Players, ConfirmToken(p)
      PROVE  Quiet(game') /\ (charges' # {} => game'.moving = {})
  <2>1. \/ Collects({p})
        \/ p \in game.moving /\ game' \in Arrivals(game, {p}) /\ charges' = {}
        \/ game' = game /\ charges' = {}
    BY <1>3 DEF ConfirmToken
  <2>2. game.status = "run"
    BY <1>3 DEF ConfirmToken
  <2>3. p \in game.moving => {p} \in SUBSET game.moving
    OBVIOUS
  <2> QED
    BY <1>1, <2>1, <2>2, <2>3, CollectsQuiet, ArrivalsQuiet
<1> QED
  BY <1>2, <1>3

\* nothing moves during an auction, so that the debt it ends with may end the turn
LEMMA AuctionTimeoutQuiet ==
  ASSUME IInv, Quiet(game), AuctionTimeout
  PROVE  Quiet(game')
<1> DEFINE next == game.auction.status + 1
           p    == game.auction.bidder
           g    == [game EXCEPT !.auction.status = next]
           done == [game EXCEPT !.auction = NoAuction]
<1>1. game \in GameState /\ auctionTimer
  BY DEF IInv, Good, AuctionTimeout
<1>2. CASE ~game.auction.open
  BY <1>2 DEF AuctionTimeout
<1>3. CASE game.auction.open
  <2>1. \/ game' \in {g, EndTurn(done, FALSE)}
        \/ \E broke \in BOOLEAN : game' = NewDebt(g, p, Hammer, broke)
    BY <1>3 DEF AuctionTimeout
  <2>2. p \in Players /\ Hammer \in 0..Hammer
    BY <1>1, <1>3, ConstantsAssumption DEF IInv, GameState, Hammer
  <2>3. g \in GameState /\ done \in GameState
    <3>1. game.auction.status \in 0..2
      BY <1>1, <1>3 DEF IInv, GameState, Sold
    <3>2. next \in 0..Sold
      BY <3>1 DEF Sold
    <3> HIDE DEF next
    <3> QED
      BY <1>1, <3>2, NoAuctionType DEF GameState
  <2> HIDE DEF next
  <2>4. /\ g.members = game.members /\ g.online = game.online /\ g.turn = game.turn
        /\ g.bankrupt = game.bankrupt /\ g.moving = game.moving
        /\ g.paused = game.paused /\ g.auction.open = game.auction.open
        /\ g.jailed = game.jailed /\ g.jailCount = game.jailCount
        /\ g.canBuy = game.canBuy /\ g.canRoll = game.canRoll
        /\ g.canRollAgain = game.canRollAgain
    BY <1>1 DEF GameState
  <2>5. /\ done.members = game.members /\ done.online = game.online
        /\ done.turn = game.turn
        /\ done.bankrupt = game.bankrupt /\ done.moving = game.moving
        /\ done.paused = game.paused /\ ~done.auction.open
        /\ done.jailed = game.jailed /\ done.jailCount = game.jailCount
        /\ done.canBuy = game.canBuy /\ done.canRoll = game.canRoll
        /\ done.canRollAgain = game.canRollAgain
    BY <1>1 DEF GameState, NoAuction
  <2> HIDE DEF g, done, p
  <2>6. game.moving = {}
    BY <1>3 DEF Quiet, Single
  <2>7. Quiet(g)
    BY <2>4, CalmerQuiet DEF Calmer, Quiet
  <2>8. Quiet(done)
    BY <2>5, CalmerQuiet DEF Calmer, Quiet
  <2>9. Quiet(EndTurn(done, FALSE))
    BY <2>3, <2>8, EndTurnQuiet
  <2>10. \A broke \in BOOLEAN : Quiet(NewDebt(g, p, Hammer, broke))
    BY <2>2, <2>3, <2>4, <2>6, <2>7, NewDebtQuiet
  <2> QED
    BY <2>1, <2>7, <2>9, <2>10
<1> QED
  BY <1>2, <1>3

\* nothing moves while a card collects
LEMMA RoundQuiet ==
  ASSUME IInv, Charging, Quiet(game), game.moving = {}, NEW c \in charges, Charge(c)
  PROVE  Quiet(game') /\ game'.moving = {}
<1>1. /\ Good(game) /\ game.status = "run" /\ game \in GameState
      /\ c.from \in Active(game) /\ c.from \in Players
      /\ c.to \in game.members /\ c.to \in Players
  BY DEF IInv, Charging, Good
<1>2. PICK h \in {game} \union {NewDebt(game, c.from, c.to, b) : b \in BOOLEAN} :
        game' = IF charges' = {} THEN EndTurnIfAny(h) ELSE h
  BY DEF Charge
<1>3. h = game \/ (c.to \in Active(game) /\ \E b \in BOOLEAN : h = NewDebt(game, c.from, c.to, b))
  <2>1. c.to \notin Active(game) => c.to \in game.bankrupt \union game.spectators
    BY <1>1 DEF Active
  <2> QED
    BY <1>2, <2>1 DEF NewDebt
<1>4. Good(h)
  BY <1>1, <1>3, NewDebtGood
<1>5. c.to \in 0..Hammer
  BY <1>1, ConstantsAssumption DEF Players, Hammer
<1>6. Quiet(h) /\ h.moving = {}
  BY <1>1, <1>3, <1>5, NewDebtQuiet
<1>7. Quiet(EndTurnIfAny(h)) /\ EndTurnIfAny(h).moving = {}
  BY <1>4, <1>6, EndTurnIfAnyQuiet DEF Good
<1> QED
  BY <1>2, <1>6, <1>7

\* what holds of phases and prisoners between two steps
Phases == Quiet(game) /\ (charges # {} => game.moving = {})

\* every step keeps to one phase and gives no rights in jail
LEMMA NextQuiet ==
  ASSUME Droppers = {}
  PROVE  IInv /\ Charging /\ Phases /\ [Next]_vars => Phases'
<1> SUFFICES ASSUME IInv, Charging, Phases, [Next]_vars
             PROVE  Phases'
  OBVIOUS
<1>1. Quiet(game)
  BY DEF Phases
<1>2. CASE AuctionTimeout /\ charges' = {}
  BY <1>1, <1>2, AuctionTimeoutQuiet DEF Phases
<1>3. ASSUME NEW p \in Players, Command(p), charges' = {}
      PROVE  Phases'
  <2> SUFFICES Quiet(game')
    BY <1>3 DEF Phases
  <2>1. CASE Roll(p)
    BY <1>1, <2>1, RollQuiet
  <2>2. CASE JailRollDoubles(p) \/ JailRollMissed(p) \/ LeaveJail(p)
    BY <1>1, <2>2, JailQuiet
  <2>3. CASE BuyEstate(p) \/ NewAuction(p) \/ EndTurnAsked(p) \/ PayTax(p) \/ Bid(p)
    BY <1>1, <2>3, TurnCommandsQuiet
  <2>4. CASE Settle(p) \/ DeclareBankrupt(p) \/ \E q \in Players : CompleteTrade(p, q)
    BY <1>1, <2>4, DebtCommandsQuiet
  <2>5. CASE \/ Leave(p) \/ PlayerTimeout(p) \/ Disconnect(p) \/ Reconnect(p)
             \/ Watch(p) \/ Upgrade(p)
    BY <1>1, <2>5, SeatCommandsQuiet
  <2> QED
    BY <1>3, <2>1, <2>2, <2>3, <2>4, <2>5 DEF Command
<1>4. CASE charges = {} /\ (TokenTimeout \/ \E p \in Players : ConfirmToken(p))
  BY <1>1, <1>4, TokensQuiet DEF Phases
<1>5. ASSUME NEW c \in charges, Charge(c)
      PROVE  Phases'
  <2>1. game.moving = {}
    BY <1>5 DEF Phases
  <2> QED
    BY <1>1, <1>5, <2>1, RoundQuiet DEF Phases
<1>6. CASE UNCHANGED vars
  BY <1>6 DEF Phases, vars
<1> QED
  BY <1>2, <1>3, <1>4, <1>5, <1>6 DEF Next

\* the game starts with nothing that holds up the first turn
LEMMA InitQuiet == Init => Phases
<1> SUFFICES ASSUME Init PROVE Phases
  OBVIOUS
<1>1. /\ game.members = 1..Seats /\ game.online = 1..Seats /\ game.moving = {}
      /\ ~game.paused /\ game.auction = NoAuction /\ game.jailed = {}
      /\ game.canBuy = {} /\ charges = {}
  BY DEF Init
<1>2. Single(game) /\ Cells(game)
  BY <1>1 DEF Single, Cells, NoAuction
<1> QED
  BY <1>1, <1>2 DEF Phases, Quiet

\* the inductive invariant of the phases
LEMMA PhasesHold ==
  ASSUME Droppers = {}
  PROVE  Spec => []Phases
<1>1. IInv /\ Charging /\ Phases /\ [Next]_vars => Phases'
  BY NextQuiet
<1> QED
  BY <1>1, InitQuiet, InductiveInvariant, PTL DEF Spec

\* While nobody loses his connection, tokens on the move, the tax dialog, an auction
\* and an offer exclude each other, whoever leaves, watches or is promoted.
THEOREM OnePhaseAtATime ==
  ASSUME Droppers = {}
  PROVE  Spec => []OnePhase
<1>1. ASSUME Phases
      PROVE  OnePhase
  <2> DEFINE phases == <<game.moving # {}, game.paused, game.auction.open, game.canBuy # {}>>
  <2>1. Single(game)
    BY <1>1 DEF Phases, Quiet
  <2>2. /\ ~(phases[1] /\ (phases[2] \/ phases[3] \/ phases[4]))
        /\ ~(phases[2] /\ (phases[3] \/ phases[4]))
        /\ ~(phases[3] /\ phases[4])
    BY <2>1 DEF Single
  <2> HIDE DEF phases
  <2>3. ASSUME NEW i \in 1..4, NEW j \in 1..4, phases[i], phases[j]
        PROVE  i = j
    <3>1. i \in {1, 2, 3, 4} /\ j \in {1, 2, 3, 4}
      BY <2>3
    <3> QED
      BY <2>2, <2>3, <3>1
  <2> QED
    BY <2>3 DEF OnePhase, phases
<1> QED
  BY <1>1, PhasesHold, PTL

\* While nobody loses his connection, a player in jail knows his term there and has
\* neither rolls nor offers pending.
THEOREM JailedHaveNoRights ==
  ASSUME Droppers = {}
  PROVE  Spec => []JailTerm
<1>1. Phases => JailTerm
  BY DEF Phases, Quiet, Cells, JailTerm, Active
<1> QED
  BY <1>1, PhasesHold, PTL
=============================================================================
