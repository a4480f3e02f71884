------------------------ MODULE GameFlowOrderProofs ------------------------
(***************************************************************************)
(* The proof that a game implements TurnOrder: the turn goes round among   *)
(* those who play and skips nobody.                                        *)
(*                                                                         *)
(* A step is a composition of operators of which several can pass the      *)
(* turn.  That they pass it once, all together, follows from what the next *)
(* turn holder gets with the turn: he can roll or is in jail, and that     *)
(* makes every later endTurn of the same step leave him where he is.       *)
(***************************************************************************)
EXTENDS GameFlowProofs

\* a turn that has just begun
Fresh(h) == h.turn \in h.canRoll \union h.jailed

\* t has the turn, or it has just passed from t to the next
Moved(t, h) ==
  \/ h.turn = t
  \/ h.turn = Turns!Successor(t, Active(h)) /\ Fresh(h)

\* h is an outcome of a step that t began as the turn holder among those in A
Goes(t, A, h) ==
  \/ Active(h) = A /\ Moved(t, h)
  \/ \E p \in A :
       /\ Active(h) = A \ {p}
       /\ IF \E q \in A : Active(h) = {q} THEN h.turn = NoPlayer ELSE Moved(t, h)

\* the same without a word on the new turn holder
Ordered(t, A, u, B) ==
  \/ B = A /\ u \in {t, Turns!Successor(t, A)}
  \/ \E p \in A :
       /\ B = A \ {p}
       /\ IF \E q \in A : B = {q} THEN u = NoPlayer
                                  ELSE u \in {t, Turns!Successor(t, B)}

\* spectators sit behind those who have a seat
SpectatorsBehind == \A s \in game.spectators, q \in Seated(game) : q < s

\* who is there and who of them watches
SameRows(g, h) == h.members = g.members /\ h.spectators = g.spectators

-----------------------------------------------------------------------------
(* The next player *)

\* updateTurn looks for the player whom TurnOrder names
LEMMA NextIsSuccessor ==
  ASSUME NEW g
  PROVE  NextPlayer(g) = Turns!Successor(g.turn, Active(g))
BY DEF NextPlayer, Turns!Successor, Min, Turns!Min

\* nobody follows himself while others play, and he is not looked at
LEMMA SuccessorOther ==
  ASSUME NEW A \in SUBSET Nat, NEW t \in A, NEW q \in A, q # t
  PROVE  /\ Turns!Successor(t, A) # t
         /\ Turns!Successor(t, A \ {t}) = Turns!Successor(t, A)
<1> DEFINE later == {r \in A : r > t}
           B == A \ {t}
<1>1. later = {r \in B : r > t} /\ t \notin later
  OBVIOUS
<1>2. CASE later # {}
  <2>1. /\ Turns!Successor(t, A) = Min(later)
        /\ Turns!Successor(t, B) = Min(later)
    BY <1>1, <1>2 DEF Turns!Successor, Turns!Min, Min
  <2>2. Min(later) \in later
    BY <1>2, MinIn
  <2> QED
    BY <1>1, <2>1, <2>2
<1>3. CASE later = {}
  <2>1. /\ Turns!Successor(t, A) = Min(A)
        /\ Turns!Successor(t, B) = Min(B)
    BY <1>1, <1>3 DEF Turns!Successor, Turns!Min, Min
  <2>2. /\ Min(A) \in A /\ \A y \in A : Min(A) <= y
        /\ Min(B) \in B /\ \A y \in B : Min(B) <= y
    BY MinIn
  <2>3. q < t
    BY <1>3
  <2>4. Min(A) \in Nat /\ Min(B) \in Nat /\ Min(A) <= q
    BY <2>2
  <2>5. Min(A) # t
    BY <2>3, <2>4
  <2>6. Min(A) <= Min(B) /\ Min(B) <= Min(A)
    BY <2>2, <2>5
  <2>7. Min(A) = Min(B)
    BY <2>4, <2>6
  <2> QED
    BY <2>1, <2>5, <2>7
<1> QED
  BY <1>2, <1>3

-----------------------------------------------------------------------------
(* The operators pass the turn at most once *)

\* updateTurn passes the turn to somebody whose turn begins
LEMMA UpdateTurnMoves ==
  ASSUME NEW g \in GameState
  PROVE  LET h == UpdateTurn(g)
         IN  /\ h.turn = Turns!Successor(g.turn, Active(g))
             /\ Fresh(h) /\ Active(h) = Active(g) /\ SameRows(g, h)
             /\ h.jailed = g.jailed
<1> DEFINE h == UpdateTurn(g)
           q == NextPlayer(g)
<1>1. /\ h.turn = q /\ h.jailed = g.jailed
      /\ h.canRoll = (g.canRoll \ {g.turn}) \union ({q} \ g.jailed)
      /\ h.members = g.members /\ h.bankrupt = g.bankrupt
      /\ h.spectators = g.spectators
  BY DEF UpdateTurn, GameState
<1> HIDE DEF h, q
<1>2. Fresh(h) /\ Active(h) = Active(g) /\ SameRows(g, h)
  BY <1>1 DEF Fresh, Active, SameRows
<1> QED
  BY <1>1, <1>2, NextIsSuccessor DEF q, h

\* a change of other parts of the game
LEMMA SameGoes ==
  ASSUME NEW t, NEW A, NEW g, Goes(t, A, g), NEW h,
         h.turn = g.turn, Active(h) = Active(g), Fresh(g) => Fresh(h)
  PROVE  Goes(t, A, h)
<1>1. Moved(t, g) => Moved(t, h)
  BY DEF Moved
<1> QED
  BY <1>1 DEF Goes

\* nothing has happened to the turn
LEMMA StaysGoes ==
  ASSUME NEW h
  PROVE  Goes(h.turn, Active(h), h)
BY DEF Goes, Moved

\* endTurn leaves a turn that has just begun
LEMMA EndTurnGoes ==
  ASSUME NEW t, NEW A, NEW g \in GameState, Goes(t, A, g), g.turn # NoPlayer,
         NEW asked
  PROVE  Goes(t, A, EndTurn(g, asked)) /\ SameRows(g, EndTurn(g, asked))
<1> DEFINE p == g.turn
           h == [g EXCEPT !.canBuy = @ \ {p}]
           r == [h EXCEPT !.canRoll = @ \union {p}, !.canRollAgain = @ \ {p}]
<1>1. /\ h \in GameState
      /\ h.turn = p /\ h.canRoll = g.canRoll /\ h.jailed = g.jailed
      /\ h.members = g.members /\ h.spectators = g.spectators
      /\ h.bankrupt = g.bankrupt
  BY DEF GameState
<1>2. /\ r.turn = p /\ r.canRoll = g.canRoll \union {p} /\ r.jailed = g.jailed
      /\ r.members = g.members /\ r.spectators = g.spectators
      /\ r.bankrupt = g.bankrupt
  BY DEF GameState
<1>3. \/ EndTurn(g, asked) \in {g, h, r}
      \/ ~Fresh(g) /\ EndTurn(g, asked) = UpdateTurn(h)
  BY DEF EndTurn, Fresh
<1> HIDE DEF h, r, p
<1>4. Goes(t, A, h) /\ SameRows(g, h) /\ Active(h) = Active(g)
  BY <1>1, SameGoes DEF Active, Fresh, SameRows, p
<1>5. Goes(t, A, r) /\ SameRows(g, r)
  BY <1>2, SameGoes DEF Active, Fresh, SameRows, p
<1>6. ASSUME ~Fresh(g)
      PROVE  Goes(t, A, UpdateTurn(h)) /\ SameRows(g, UpdateTurn(h))
  <2>1. p = t \/ ~Moved(t, g)
    BY <1>6 DEF Moved, p
  <2>2. p = t
    BY <2>1 DEF Goes, p
  <2> DEFINE u == UpdateTurn(h)
  <2>3. /\ u.turn = Turns!Successor(t, Active(u)) /\ Fresh(u)
        /\ Active(u) = Active(g) /\ SameRows(h, u)
    BY <1>1, <1>4, <2>2, UpdateTurnMoves
  <2> HIDE DEF u
  <2>4. Moved(t, u)
    BY <2>3 DEF Moved
  <2>5. Goes(t, A, u)
    BY <2>3, <2>4 DEF Goes, p
  <2> QED
    BY <1>4, <2>3, <2>5 DEF SameRows, u
<1>7. SameRows(g, g)
  BY DEF SameRows
<1> QED
  BY <1>3, <1>4, <1>5, <1>6, <1>7

\* a bankruptcy passes the turn of the bankrupt, ends the game, or lets endTurn pass
\* a turn; it finds the turn where it was, or with somebody to whom it has just passed
LEMMA BankruptGoes ==
  ASSUME NEW t, t # NoPlayer, NEW A, NEW g \in GameState, NEW p \in Players,
         g.turn # NoPlayer,
         \/ Active(g) = A /\ p \in A \union g.bankrupt \union g.spectators
         \/ Active(g) = A \ {p} /\ p \in A \ (g.bankrupt \union g.spectators),
         g.turn = t \/ (Moved(t, g) /\ p \notin Active(g) /\ p # g.turn)
  PROVE  Goes(t, A, Bankrupt(g, p)) /\ SameRows(g, Bankrupt(g, p))
<1> DEFINE h == Ruined(g, p)
<1>1. /\ h \in GameState /\ h.turn = g.turn /\ h.canRoll = g.canRoll
      /\ h.jailed = g.jailed /\ h.members = g.members
      /\ h.spectators = g.spectators /\ h.bankrupt = g.bankrupt \union {p}
  BY NoAuctionType DEF Ruined, GameState
<1>2. Moved(t, g)
  BY DEF Moved
<1>3. CASE p \in g.bankrupt \union g.spectators
  <2>1. Active(g) = A
    BY <1>3 DEF Active
  <2>2. Bankrupt(g, p) = g
    BY <1>3 DEF Bankrupt
  <2> QED
    BY <1>2, <2>1, <2>2 DEF Goes, SameRows
<1>4. CASE p \notin g.bankrupt \union g.spectators
  <2> DEFINE last == \E w \in Active(h) : Active(h) = {w}
  <2>1. Active(h) = A \ {p} /\ p \in A /\ Active(h) = Active(g) \ {p}
    BY <1>1, <1>4 DEF Active
  <2>2. SameRows(g, h)
    BY <1>1 DEF SameRows
  <2>3. \/ last /\ Bankrupt(g, p) = EndGame(h)
        \/ ~last /\ Bankrupt(g, p) \in {h, EndTurn(h, FALSE)}
        \/ ~last /\ p = h.turn /\ Bankrupt(g, p) = UpdateTurn(h)
    BY <1>4 DEF Bankrupt
  <2>4. last <=> \E q \in A : Active(h) = {q}
    BY <2>1
  <2> HIDE DEF h, last
  <2>5. Moved(t, h)
    <3>1. Fresh(g) => Fresh(h)
      BY <1>1 DEF Fresh
    <3> QED
      BY <1>1, <1>2, <2>1, <3>1 DEF Moved
  <2>6. ASSUME ~last PROVE Goes(t, A, h)
    BY <2>1, <2>4, <2>5, <2>6 DEF Goes
  <2>7. CASE last /\ Bankrupt(g, p) = EndGame(h)
    <3> DEFINE e == EndGame(h)
    <3>1. /\ e.turn = NoPlayer /\ e.members = h.members
          /\ e.spectators = h.spectators /\ e.bankrupt = h.bankrupt
      BY <1>1 DEF EndGame, GameState
    <3> HIDE DEF e
    <3>2. Active(e) = Active(h) /\ SameRows(g, e)
      BY <2>2, <3>1 DEF Active, SameRows
    <3>3. Goes(t, A, e)
      BY <2>1, <2>4, <2>7, <3>1, <3>2 DEF Goes
    <3> QED
      BY <2>7, <3>2, <3>3 DEF e
  <2>8. CASE ~last /\ Bankrupt(g, p) \in {h, EndTurn(h, FALSE)}
    <3>1. SameRows(h, EndTurn(h, FALSE)) /\ Goes(t, A, EndTurn(h, FALSE))
      BY <1>1, <2>6, <2>8, EndTurnGoes
    <3> QED
      BY <2>2, <2>6, <2>8, <3>1 DEF SameRows
  <2>9. CASE ~last /\ p = h.turn /\ Bankrupt(g, p) = UpdateTurn(h)
    <3> DEFINE u == UpdateTurn(h)
    <3>1. h.turn = t
      BY <1>1, <2>9
    <3>2. /\ u.turn = Turns!Successor(t, Active(u)) /\ Fresh(u)
          /\ Active(u) = Active(h) /\ SameRows(h, u)
      BY <1>1, <3>1, UpdateTurnMoves
    <3> HIDE DEF u
    <3>3. Moved(t, u)
      BY <3>2 DEF Moved
    <3>4. Goes(t, A, u)
      BY <2>1, <2>4, <2>9, <3>2, <3>3 DEF Goes
    <3> QED
      BY <2>2, <2>9, <3>2, <3>4 DEF SameRows, u
  <2> QED
    BY <2>3, <2>7, <2>8, <2>9
<1> QED
  BY <1>3, <1>4

\* a new debt leaves the turn, or ruins the debtor
LEMMA NewDebtGoes ==
  ASSUME NEW g \in GameState, g.turn # NoPlayer, NEW from \in Players,
         from \in g.members, NEW to \in 0..Hammer, NEW broke
  PROVE  /\ Goes(g.turn, Active(g), NewDebt(g, from, to, broke))
         /\ SameRows(g, NewDebt(g, from, to, broke))
<1> DEFINE h == [g EXCEPT !.debts = @ \union {Debt(from, to)}]
<1>1. Debt(from, to) \in [from : Players, to : 0..Hammer]
  BY DEF Debt
<1>2. /\ h \in GameState /\ h.turn = g.turn /\ h.members = g.members
      /\ h.spectators = g.spectators /\ h.bankrupt = g.bankrupt
  BY <1>1 DEF GameState
<1>3. NewDebt(g, from, to, broke) \in {g, h, Bankrupt(h, from)}
  BY DEF NewDebt
<1> HIDE DEF h
<1>4. Active(h) = Active(g) /\ SameRows(g, h) /\ SameRows(g, g)
  BY <1>2 DEF Active, SameRows
<1>5. Goes(g.turn, Active(g), g) /\ Goes(g.turn, Active(g), h)
  BY <1>2, <1>4, StaysGoes
<1>6. from \in Active(h) \union h.bankrupt \union h.spectators
  BY <1>2 DEF Active
<1>7. /\ Goes(g.turn, Active(g), Bankrupt(h, from))
      /\ SameRows(h, Bankrupt(h, from))
  BY <1>2, <1>4, <1>6, BankruptGoes
<1> QED
  BY <1>3, <1>4, <1>5, <1>7 DEF SameRows

\* solved debts may end the turn
LEMMA SolveDebtsGoes ==
  ASSUME NEW t, NEW A, NEW g \in GameState, Goes(t, A, g), g.turn # NoPlayer,
         NEW p, NEW paid
  PROVE  Goes(t, A, SolveDebts(g, p, paid)) /\ SameRows(g, SolveDebts(g, p, paid))
<1> DEFINE h == [g EXCEPT !.debts = @ \ {Debt(p, c) : c \in paid},
                          !.auction = IF Hammer \in paid THEN NoAuction ELSE @]
<1>1. /\ h \in GameState /\ h.turn = g.turn /\ h.canRoll = g.canRoll
      /\ h.jailed = g.jailed /\ h.members = g.members
      /\ h.spectators = g.spectators /\ h.bankrupt = g.bankrupt
  BY NoAuctionType DEF GameState
<1>2. SolveDebts(g, p, paid) \in {g, h, EndTurn(h, FALSE)}
  BY DEF SolveDebts
<1> HIDE DEF h
<1>3. Goes(t, A, h) /\ SameRows(g, h) /\ SameRows(g, g)
  BY <1>1, SameGoes DEF Active, Fresh, SameRows
<1>4. Goes(t, A, EndTurn(h, FALSE)) /\ SameRows(h, EndTurn(h, FALSE))
  BY <1>1, <1>3, EndTurnGoes
<1> QED
  BY <1>2, <1>3, <1>4 DEF SameRows

\* toJail touches neither turn nor rows
LEMMA ToJailKeeps ==
  ASSUME NEW g \in GameState, NEW p \in Players
  PROVE  LET h == ToJail(g, p)
         IN  /\ h \in GameState /\ h.turn = g.turn
             /\ Active(h) = Active(g) /\ SameRows(g, h)
<1> DEFINE h == ToJail(g, p)
<1>1. /\ [g.jailCount EXCEPT ![p] = 1] \in [Players -> 0..3]
      /\ [g.doubleCount EXCEPT ![p] = 0] \in [Players -> 0..3]
  BY CountType
<1>2. /\ h \in GameState /\ h.turn = g.turn /\ h.members = g.members
      /\ h.spectators = g.spectators /\ h.bankrupt = g.bankrupt
  BY <1>1 DEF ToJail, GameState
<1> HIDE DEF h
<1>3. Active(h) = Active(g) /\ SameRows(g, h)
  BY <1>2 DEF Active, SameRows
<1> QED
  BY <1>2, <1>3 DEF h

\* the turn holder lands
LEMMA LandingsGo ==
  ASSUME NEW g, Good(g), g.status = "run", NEW l \in Landings(g)
  PROVE  Goes(g.turn, Active(g), l) /\ SameRows(g, l)
<1> DEFINE p == g.turn
           A == Active(g)
           h == [g EXCEPT !.dest = @ \ {p}]
           offer  == [h EXCEPT !.canRoll = @ \ {p}, !.canBuy = @ \union {p}]
           dialog == [h EXCEPT !.paused = TRUE]
           all    == NewDebtToAll(h, p)
           jail   == UpdateTurn(ToJail(h, p))
<1>1. g \in GameState /\ p \in Players /\ p \in g.members /\ p # NoPlayer
  BY ZeroIsNobody DEF Good, Rights, GameState
<1>2. /\ h \in GameState /\ h.turn = p /\ h.members = g.members
      /\ h.spectators = g.spectators /\ h.bankrupt = g.bankrupt
  BY <1>1 DEF GameState
<1>3. \/ l \in {h, offer, dialog, jail, all}
      \/ \E c \in (Active(h) \ {p}) \union {Bank}, b \in BOOLEAN :
           l = NewDebt(h, p, c, b)
  BY DEF Landings
<1> HIDE DEF h
<1>4. /\ offer.turn = p /\ offer.members = g.members
      /\ offer.spectators = g.spectators /\ offer.bankrupt = g.bankrupt
  BY <1>2 DEF GameState
<1>5. /\ dialog.turn = p /\ dialog.members = g.members
      /\ dialog.spectators = g.spectators /\ dialog.bankrupt = g.bankrupt
  BY <1>2 DEF GameState
<1>6. /\ all.turn = p /\ all.members = g.members
      /\ all.spectators = g.spectators /\ all.bankrupt = g.bankrupt
  BY <1>2 DEF NewDebtToAll, GameState
<1> HIDE DEF offer, dialog, all
<1>7. \A k \in {h, offer, dialog, all} :
        k.turn = p /\ Active(k) = A /\ SameRows(g, k)
  BY <1>2, <1>4, <1>5, <1>6 DEF Active, SameRows
<1> HIDE DEF A
<1>8. \A k \in {h, offer, dialog, all} : Goes(p, A, k)
  BY <1>7, StaysGoes
<1>9. Goes(p, A, jail) /\ SameRows(g, jail)
  <2>1. /\ ToJail(h, p) \in GameState /\ ToJail(h, p).turn = p
        /\ Active(ToJail(h, p)) = A /\ SameRows(g, ToJail(h, p))
    BY <1>1, <1>2, <1>7, ToJailKeeps DEF SameRows
  <2>2. /\ jail.turn = Turns!Successor(p, Active(jail)) /\ Fresh(jail)
        /\ Active(jail) = A /\ SameRows(g, jail)
    BY <2>1, UpdateTurnMoves DEF SameRows
  <2> QED
    BY <2>2 DEF Goes, Moved
<1>10. ASSUME NEW c \in (Active(h) \ {p}) \union {Bank}, NEW b \in BOOLEAN
      PROVE  Goes(p, A, NewDebt(h, p, c, b)) /\ SameRows(g, NewDebt(h, p, c, b))
  <2>1. c \in 0..Hammer
    BY <1>2, ConstantsAssumption DEF Active, GameState, Players, Hammer, Bank
  <2>2. Goes(p, A, NewDebt(h, p, c, b)) /\ SameRows(h, NewDebt(h, p, c, b))
    BY <1>1, <1>2, <1>7, <2>1, NewDebtGoes
  <2> QED
    BY <1>7, <2>2 DEF SameRows
<1> HIDE DEF jail
<1> QED
  BY <1>3, <1>7, <1>8, <1>9, <1>10 DEF A, p

\* the tokens arrive, the turn holder lands, and the turn may end
LEMMA ArrivalsGo ==
  ASSUME NEW g, Good(g), g.status = "run", NEW ps, NEW r \in Arrivals(g, ps)
  PROVE  Goes(g.turn, Active(g), r) /\ SameRows(g, r)
<1> DEFINE h == [g EXCEPT !.moving = @ \ ps]
<1>1. g \in GameState
  BY DEF Good
<1>2. /\ h \in GameState /\ SameSeats(g, h) /\ h.canRoll = g.canRoll
      /\ h.canRollAgain = g.canRollAgain /\ h.canBuy = g.canBuy
      /\ h.auction = g.auction /\ h.debts = g.debts
  BY <1>1 DEF GameState, SameSeats
<1>3. r = h \/ \E l \in Landings(h) : r = EndTurnIfAny(l)
  BY DEF Arrivals
<1> HIDE DEF h
<1>4. /\ Good(h) /\ h.status = "run" /\ h.turn = g.turn
      /\ Active(h) = Active(g) /\ SameRows(g, h)
  BY <1>2, SameSeatsGood DEF SameSeats, Good, Rights, SameRows
<1>5. ASSUME NEW l \in Landings(h)
      PROVE  Goes(g.turn, Active(g), EndTurnIfAny(l)) /\ SameRows(g, EndTurnIfAny(l))
  <2>1. /\ l \in GameState /\ Goes(g.turn, Active(g), l) /\ SameRows(g, l)
    BY <1>4, LandingsGood, LandingsGo DEF Good, SameRows
  <2> QED
    BY <2>1, EndTurnGoes DEF EndTurnIfAny, SameRows
<1> QED
  BY <1>3, <1>4, <1>5, StaysGoes

-----------------------------------------------------------------------------
(* Departures *)

\* what remains of an outcome without the new turn holder
LEMMA GoesOrdered ==
  ASSUME NEW t, NEW A, NEW h, Goes(t, A, h)
  PROVE  Ordered(t, A, h.turn, Active(h))
BY DEF Goes, Moved, Ordered

\* who was not a member may be forgotten
LEMMA ForgetKeeps ==
  ASSUME NEW g \in GameState, NEW p, p \notin g.members
  PROVE  LET h == Forget(g, p)
         IN  /\ h.turn = g.turn /\ Active(h) = Active(g)
             /\ h.members = g.members /\ h.spectators = g.spectators \ {p}
<1> DEFINE h == Forget(g, p)
<1>1. /\ h.turn = g.turn /\ h.members = g.members
      /\ h.spectators = g.spectators \ {p} /\ h.bankrupt = g.bankrupt \ {p}
  BY DEF Forget, GameState
<1> HIDE DEF h
<1>2. Active(h) = Active(g)
  BY <1>1 DEF Active
<1> QED
  BY <1>1, <1>2 DEF h

\* who leaves a game in progress passes on his turn, then he is ruined
LEMMA RemovePlayerGoes ==
  ASSUME NEW g, Good(g), g.status = "run", NEW p \in g.members
  PROVE  LET h == RemovePlayer(g, p)
         IN  /\ Ordered(g.turn, Active(g), h.turn, Active(h))
             /\ h.members = g.members \ {p} /\ h.spectators = g.spectators \ {p}
<1> DEFINE t  == g.turn
           A  == Active(g)
           g0 == [g EXCEPT !.paused = FALSE, !.moving = @ \ Connected(g)]
           g1 == IF p = g.turn THEN UpdateTurn(g0) ELSE g
           g2 == [g1 EXCEPT !.members = @ \ {p}, !.moving = @ \ {p},
                            !.dest = @ \ {p}]
           g3 == Bankrupt(g2, p)
<1>1. /\ g \in GameState /\ p \in Players /\ p # NoPlayer
      /\ t \in Players /\ t \in g.members /\ t # NoPlayer
  BY ZeroIsNobody DEF Good, Rights, GameState
<1>2. RemovePlayer(g, p) = Forget(g3, p)
  BY DEF RemovePlayer
<1>3. /\ g0 \in GameState /\ g0.turn = t /\ g0.members = g.members
      /\ g0.spectators = g.spectators /\ g0.bankrupt = g.bankrupt
  BY <1>1 DEF GameState
<1>4. Good(g0) /\ g0.status = "run" /\ Active(g0) = A
  <2>1. /\ SameSeats(g, g0) /\ g0.auction = g.auction /\ g0.debts = g.debts
        /\ g0.status = g.status
        /\ g0.canRoll \union g0.canRollAgain \union g0.canBuy \subseteq g.hasTurn
    BY <1>1 DEF Good, Rights, SameSeats, GameState
  <2> HIDE DEF g0
  <2> QED
    BY <1>3, <2>1, SameSeatsGood
<1> HIDE DEF g0, A
<1>5. /\ g1 \in GameState /\ Active(g1) = A /\ SameRows(g, g1)
      /\ g1.bankrupt = g.bankrupt /\ g1.turn \in Players
      /\ Good(g1) /\ g1.status = "run"
  <2>1. /\ UpdateTurn(g0) \in GameState /\ UpdateTurn(g0).turn \in Players
        /\ Good(UpdateTurn(g0)) /\ UpdateTurn(g0).status = "run"
    BY <1>4, UpdateTurnGood, ZeroIsNobody DEF Good, Rights, SameTable, GameState
  <2>2. /\ Active(UpdateTurn(g0)) = A /\ SameRows(g, UpdateTurn(g0))
        /\ UpdateTurn(g0).bankrupt = g.bankrupt
    BY <1>3, <1>4, UpdateTurnMoves, EndTurnKeepsPlayers DEF SameRows
  <2> QED
    BY <1>1, <2>1, <2>2 DEF SameRows, A
<1>6. p = t => g1.turn = Turns!Successor(t, A) /\ Fresh(g1)
  BY <1>3, <1>4, UpdateTurnMoves
<1>7. p # t => g1.turn = t
  OBVIOUS
<1> HIDE DEF g1
<1>8. /\ g2 \in GameState /\ g2.turn = g1.turn /\ g2.members = g.members \ {p}
      /\ g2.spectators = g.spectators /\ g2.bankrupt = g.bankrupt
      /\ g2.canRoll = g1.canRoll /\ g2.jailed = g1.jailed
  BY <1>5 DEF GameState, SameRows
<1> HIDE DEF g2
<1>9. Active(g2) = A \ {p} /\ p \notin Active(g2)
  BY <1>8 DEF Active, A
<1>10. A \in SUBSET Nat /\ \E q \in A : q # t
  <2>1. A \in SUBSET Nat
    BY <1>1, ConstantsAssumption DEF Active, GameState, Players, A
  <2>2. \E a, b \in A : a # b
    BY DEF Good, Alive, A
  <2> QED
    BY <2>1, <2>2
<1>11. ASSUME p = t
       PROVE  Moved(t, g2) /\ p # g2.turn
  <2>1. PICK q \in A : q # t
    BY <1>10
  <2>2. CASE t \in A
    <3>1. /\ Turns!Successor(t, A) # t
          /\ Turns!Successor(t, A \ {t}) = Turns!Successor(t, A)
      BY <1>10, <2>1, <2>2, SuccessorOther
    <3> QED
      BY <1>6, <1>8, <1>9, <1>11, <3>1 DEF Moved, Fresh
  <2>3. CASE t \notin A
    <3>1. g1.turn # t
      BY <1>3, <1>4, <1>11, <2>1, <2>3, NextPlayerActive, NextIsSuccessor, <1>6
    <3> QED
      BY <1>6, <1>8, <1>9, <1>11, <2>3, <3>1 DEF Moved, Fresh
  <2> QED
    BY <2>2, <2>3
<1>12. Goes(t, A, g3) /\ SameRows(g2, g3)
  <2>1. g2.turn # NoPlayer
    BY <1>5, <1>8, ZeroIsNobody
  <2>2. \/ Active(g2) = A /\ p \in A \union g2.bankrupt \union g2.spectators
        \/ Active(g2) = A \ {p} /\ p \in A \ (g2.bankrupt \union g2.spectators)
    BY <1>8, <1>9 DEF Active, A
  <2>3. g2.turn = t \/ (Moved(t, g2) /\ p \notin Active(g2) /\ p # g2.turn)
    BY <1>7, <1>8, <1>9, <1>11
  <2> QED
    BY <1>1, <1>8, <2>1, <2>2, <2>3, BankruptGoes
<1>13. g3 \in GameState
  <2>1. p # g1.turn
    BY <1>7, <1>8, <1>11
  <2> QED
    BY <1>1, <1>5, <2>1, ErasedGood DEF Good, g2
<1> HIDE DEF g3
<1>14. Ordered(t, A, g3.turn, Active(g3))
  BY <1>12, GoesOrdered
<1>15. /\ g3.members = g.members \ {p} /\ g3.spectators = g.spectators
       /\ p \notin g3.members
  BY <1>8, <1>12 DEF SameRows
<1> QED
  BY <1>2, <1>13, <1>14, <1>15, ForgetKeeps DEF A

-----------------------------------------------------------------------------
(* The actions *)

\* h is what a step that leaves the seats alone makes of g
Turned(g, h) == Goes(g.turn, Active(g), h) /\ SameRows(g, h)

\* h has the players and the turn of g
SameOrder(g, h) ==
  h.turn = g.turn /\ SameRows(g, h) /\ h.bankrupt = g.bankrupt

\* a change of other parts of the game
LEMMA SameOrderTurned ==
  ASSUME NEW g, NEW h, SameOrder(g, h)
  PROVE  Turned(g, h) /\ Active(h) = Active(g)
<1>1. Active(h) = Active(g)
  BY DEF SameOrder, SameRows, Active
<1>2. Goes(h.turn, Active(h), h)
  BY StaysGoes
<1> QED
  BY <1>1, <1>2 DEF SameOrder, Turned

\* the turn passes
LEMMA PassTurned ==
  ASSUME NEW g, NEW k \in GameState, k.turn = g.turn, Active(k) = Active(g),
         SameRows(g, k)
  PROVE  Turned(g, UpdateTurn(k))
<1> DEFINE u == UpdateTurn(k)
<1>1. /\ u.turn = Turns!Successor(g.turn, Active(u)) /\ Fresh(u)
      /\ Active(u) = Active(g) /\ SameRows(g, u)
  BY UpdateTurnMoves DEF SameRows
<1> HIDE DEF u
<1> QED
  BY <1>1 DEF Turned, Goes, Moved, u

\* endTurn decides
LEMMA EndTurned ==
  ASSUME NEW g, NEW k \in GameState, Turned(g, k), k.turn # NoPlayer, NEW asked
  PROVE  Turned(g, EndTurn(k, asked))
BY EndTurnGoes DEF Turned, SameRows

\* somebody is charged
LEMMA DebtTurned ==
  ASSUME NEW g, NEW k \in GameState, SameOrder(g, k), k.turn # NoPlayer,
         NEW from \in k.members, NEW to \in 0..Hammer, NEW broke
  PROVE  Turned(g, NewDebt(k, from, to, broke))
<1>1. from \in Players
  BY DEF GameState
<1>2. /\ Goes(k.turn, Active(k), NewDebt(k, from, to, broke))
      /\ SameRows(k, NewDebt(k, from, to, broke))
  BY <1>1, NewDebtGoes
<1> QED
  BY <1>2, SameOrderTurned DEF SameOrder, SameRows, Turned

\* somebody has the turn of a running game
LEMMA RunningFacts ==
  ASSUME NEW g, Good(g), g.status = "run"
  PROVE  /\ g \in GameState /\ g.turn \in Players /\ g.turn \in g.members
         /\ g.turn # NoPlayer
BY ZeroIsNobody DEF Good, Rights, GameState

\* who passes the gate of processInput is the turn holder of a running game
LEMMA PlayFacts ==
  ASSUME IInv, NEW p, MayPlay(p)
  PROVE  /\ Good(game) /\ game.status = "run" /\ game \in GameState
         /\ p = game.turn /\ p \in Players /\ p \in game.members /\ p # NoPlayer
BY MayPlayFacts, RunningFacts DEF IInv

\* a roll moves the turn holder or sends him to jail
LEMMA RollTurned ==
  ASSUME IInv, NEW p \in Players, Roll(p)
  PROVE  Turned(game, game')
<1> DEFINE g == [game EXCEPT !.canRoll = @ \ {p}, !.canRollAgain = @ \ {p}]
           n == game.doubleCount[p] + 1
           single == [g EXCEPT !.doubleCount[p] = 0]
           double == [g EXCEPT !.doubleCount[p] = n, !.canRollAgain = @ \union {p}]
           ahead(k) == StartMove(k, p)
<1>1. game \in GameState /\ p = game.turn
  BY PlayFacts DEF Roll
<1>2. game' \in {game, ahead(single), ahead(double), UpdateTurn(ToJail(g, p))}
  BY DEF Roll
<1>3. g \in GameState /\ SameOrder(game, g)
  BY <1>1 DEF GameState, SameOrder, SameRows
<1>4. SameOrder(game, ahead(single)) /\ SameOrder(game, ahead(double))
  BY <1>1 DEF GameState, SameOrder, SameRows, StartMove
<1> HIDE DEF g, single, double, ahead
<1>5. Turned(game, UpdateTurn(ToJail(g, p)))
  BY <1>3, SameOrderTurned, ToJailKeeps, PassTurned DEF SameOrder, SameRows
<1>6. SameOrder(game, game)
  BY DEF SameOrder, SameRows
<1> QED
  BY <1>2, <1>4, <1>5, <1>6, SameOrderTurned

\* who misses his roll is in jail, out of it, or charged
LEMMA JailRollMissedTurned ==
  ASSUME IInv, NEW p \in Players, JailRollMissed(p)
  PROVE  Turned(game, game')
<1> DEFINE g == [game EXCEPT !.jailed = @ \ {p}, !.jailCount[p] = 0]
           again == [g EXCEPT !.canRollAgain = @ \union {p}]
           roll  == [g EXCEPT !.canRoll = @ \union {p}]
           next  == UpdateTurn(game)
           stays == [next EXCEPT !.jailCount[p] = game.jailCount[p] + 1]
<1>1. /\ game \in GameState /\ p = game.turn /\ p \in game.members
      /\ p # NoPlayer
  BY PlayFacts DEF JailRollMissed
<1>2. \/ game' \in {stays, roll}
      \/ \E broke \in BOOLEAN : game' = NewDebt(again, p, Bank, broke)
  BY DEF JailRollMissed
<1>3. SameOrder(game, roll) /\ SameOrder(game, again)
  BY <1>1 DEF GameState, SameOrder, SameRows
<1>4. again \in GameState
  <2>1. [game.jailCount EXCEPT ![p] = 0] \in [Players -> 0..3]
    BY <1>1, CountType
  <2> QED
    BY <1>1, <2>1 DEF GameState
<1>5. Turned(game, stays)
  <2>1. Turned(game, next)
    BY <1>1, PassTurned DEF SameRows
  <2>2. /\ stays.turn = next.turn /\ stays.members = next.members
        /\ stays.spectators = next.spectators /\ stays.bankrupt = next.bankrupt
        /\ stays.canRoll = next.canRoll /\ stays.jailed = next.jailed
    BY <1>1 DEF UpdateTurn, GameState
  <2> HIDE DEF next, stays
  <2>3. Active(stays) = Active(next) /\ (Fresh(next) => Fresh(stays))
    BY <2>2 DEF Active, Fresh
  <2> QED
    BY <2>1, <2>2, <2>3, SameGoes DEF Turned, SameRows
<1> HIDE DEF again, roll, stays
<1>6. ASSUME NEW broke \in BOOLEAN
      PROVE  Turned(game, NewDebt(again, p, Bank, broke))
  BY <1>1, <1>3, <1>4, DebtTurned, ConstantsAssumption
     DEF Bank, Hammer, SameOrder, SameRows
<1> QED
  BY <1>2, <1>3, <1>5, <1>6, SameOrderTurned

\* an estate is bought, and endTurn decides
LEMMA BuyEstateTurned ==
  ASSUME IInv, NEW p \in Players, BuyEstate(p)
  PROVE  Turned(game, game')
<1> DEFINE g == [game EXCEPT !.canBuy = @ \ {p}]
<1>1. game \in GameState /\ game.turn # NoPlayer
  BY PlayFacts DEF BuyEstate
<1>2. game' = EndTurn(g, FALSE)
  BY DEF BuyEstate
<1>3. g \in GameState /\ SameOrder(game, g)
  BY <1>1 DEF GameState, SameOrder, SameRows
<1> HIDE DEF g
<1> QED
  BY <1>1, <1>2, <1>3, SameOrderTurned, EndTurned DEF SameOrder

\* .E asks endTurn
LEMMA EndTurnAskedTurned ==
  ASSUME IInv, NEW p \in Players, EndTurnAsked(p)
  PROVE  Turned(game, game')
<1>1. game \in GameState /\ game.turn # NoPlayer /\ game' = EndTurn(game, TRUE)
  BY PlayFacts DEF EndTurnAsked
<1>2. SameOrder(game, game)
  BY DEF SameOrder, SameRows
<1> QED
  BY <1>1, <1>2, SameOrderTurned, EndTurned

\* the tax is paid or owed
LEMMA PayTaxTurned ==
  ASSUME IInv, NEW p \in Players, PayTax(p)
  PROVE  Turned(game, game')
<1> DEFINE g == [game EXCEPT !.paused = FALSE]
<1>1. /\ game \in GameState /\ game.turn # NoPlayer /\ p \in game.members
  BY MayCommandFacts, RunningFacts DEF IInv, PayTax, MayDecide
<1>2. \/ game' = EndTurn(g, FALSE)
      \/ \E broke \in BOOLEAN : game' = NewDebt(g, p, Bank, broke)
  BY DEF PayTax
<1>3. g \in GameState /\ SameOrder(game, g)
  BY <1>1 DEF GameState, SameOrder, SameRows
<1> HIDE DEF g
<1>4. Turned(game, EndTurn(g, FALSE))
  BY <1>1, <1>3, SameOrderTurned, EndTurned DEF SameOrder
<1>5. ASSUME NEW broke \in BOOLEAN
      PROVE  Turned(game, NewDebt(g, p, Bank, broke))
  BY <1>1, <1>3, DebtTurned, ConstantsAssumption
     DEF Bank, Hammer, SameOrder, SameRows
<1> QED
  BY <1>2, <1>4, <1>5

\* tokens arrive one by one or with the timer
LEMMA TokensTurned ==
  ASSUME IInv, TokenTimeout \/ \E p \in Players : ConfirmToken(p)
  PROVE  Turned(game, game')
<1>1. Good(game) /\ game \in GameState
  BY DEF IInv, Good
<1>2. \/ game' = game
      \/ \E ps : Collects(ps)
      \/ game.turn \in game.dest /\ \E ps : game' \in Arrivals(game, ps)
  BY DEF TokenTimeout, ConfirmToken
<1>3. (\E ps : Collects(ps)) => SameOrder(game, game')
  BY <1>1 DEF Collects, SameOrder, SameRows, GameState
<1>4. game.turn \in game.dest => game.status = "run"
  BY <1>1, ZeroIsNobody DEF Good, Rights, GameState
<1>5. SameOrder(game, game)
  BY DEF SameOrder, SameRows
<1>6. (game.turn \in game.dest /\ \E ps : game' \in Arrivals(game, ps))
        => Turned(game, game')
  BY <1>1, <1>4, ArrivalsGo DEF Turned
<1> QED
  BY <1>2, <1>3, <1>5, <1>6, SameOrderTurned

\* a round of a collecting card ruins somebody or not; the last one asks endTurn
LEMMA RoundTurned ==
  ASSUME IInv, Charging, NEW c \in charges, Charge(c)
  PROVE  Turned(game, game')
<1>1. /\ Good(game) /\ game.status = "run" /\ game \in GameState
      /\ c.from \in Active(game) /\ c.from \in game.members
      /\ c.to \in game.members /\ c.to \in Players
  BY DEF IInv, Charging, Good, Active
<1>2. PICK h \in {game} \union {NewDebt(game, c.from, c.to, b) : b \in BOOLEAN} :
        game' = IF charges' = {} THEN EndTurnIfAny(h) ELSE h
  BY DEF Charge
<1>3. h = game \/ (c.to \in Active(game) /\ \E b \in BOOLEAN : h = NewDebt(game, c.from, c.to, b))
  <2>1. c.to \notin Active(game) => c.to \in game.bankrupt \union game.spectators
    BY <1>1 DEF Active
  <2> QED
    BY <1>2, <2>1 DEF NewDebt
<1>4. h \in GameState
  BY <1>1, <1>3, NewDebtGood DEF Good
<1>5. c.to \in 0..Hammer /\ game.turn # NoPlayer
  BY <1>1, RunningFacts, ConstantsAssumption DEF Players, Hammer
<1>6. Turned(game, h)
  <2>1. SameOrder(game, game)
    BY DEF SameOrder, SameRows
  <2>2. \A b \in BOOLEAN : Turned(game, NewDebt(game, c.from, c.to, b))
    BY <1>1, <1>5, <2>1, DebtTurned
  <2> QED
    BY <1>3, <2>1, <2>2, SameOrderTurned
<1>7. Turned(game, EndTurnIfAny(h))
  BY <1>4, <1>6, EndTurned DEF EndTurnIfAny
<1> QED
  BY <1>2, <1>6, <1>7

\* a sale asks endTurn or leaves the debt of the buyer
LEMMA AuctionTimeoutTurned ==
  ASSUME IInv, AuctionTimeout
  PROVE  Turned(game, game')
<1> DEFINE next   == game.auction.status + 1
           p      == game.auction.bidder
           g      == [game EXCEPT !.auction.status = next]
           closed == [game EXCEPT !.auction = NoAuction]
<1>1. Good(game) /\ game \in GameState
  BY DEF IInv, Good
<1>2. \/ game' \in {game, g}
      \/ /\ game.auction.open
         /\ \/ game' = EndTurn(closed, FALSE)
            \/ \E broke \in BOOLEAN : game' = NewDebt(g, p, Hammer, broke)
  BY DEF AuctionTimeout
<1>3. /\ closed \in GameState /\ SameOrder(game, closed)
      /\ SameOrder(game, g) /\ SameOrder(game, game)
  BY <1>1, NoAuctionType DEF GameState, SameOrder, SameRows
<1> HIDE DEF closed
<1>4. CASE game.auction.open
  <2>1. game.status = "run" /\ game.turn # NoPlayer
    BY <1>1, <1>4, RunningFacts DEF Good, GameState, NoAuction
  <2>2. Turned(game, EndTurn(closed, FALSE))
    BY <1>3, <2>1, SameOrderTurned, EndTurned DEF SameOrder
  <2>3. /\ auctionTimer /\ p \in Active(game) /\ p \in game.members
        /\ game.auction.status # Sold
    BY <1>1, <1>4, <2>1, ZeroIsNobody DEF AuctionTimeout, IInv, Good, Among, Active, GameState
  <2>4. next \in 0..Sold
    BY <1>1, <2>3 DEF GameState, Sold
  <2>5. [game.auction EXCEPT !.status = next]
          \in [open : BOOLEAN, status : 0..Sold,
               bidder : Players \union {NoPlayer}, bid : 0..MaxBid]
    BY <1>1, <2>4 DEF GameState
  <2>6. g = [game EXCEPT !.auction = [game.auction EXCEPT !.status = next]]
    BY <1>1 DEF GameState
  <2>7. g \in GameState /\ g.members = game.members
    BY <1>1, <2>5, <2>6 DEF GameState
  <2> HIDE DEF g
  <2>8. Hammer \in 0..Hammer
    BY ConstantsAssumption DEF Hammer
  <2>9. ASSUME NEW broke \in BOOLEAN
        PROVE  Turned(game, NewDebt(g, p, Hammer, broke))
    BY <1>3, <2>1, <2>3, <2>7, <2>8, DebtTurned DEF SameOrder
  <2> QED
    BY <1>2, <1>3, <2>2, <2>9, SameOrderTurned
<1> HIDE DEF g
<1>5. CASE ~game.auction.open
  BY <1>2, <1>3, <1>5, SameOrderTurned
<1> QED
  BY <1>4, <1>5

\* paid debts may end the turn
LEMMA SettleTurned ==
  ASSUME IInv, NEW p \in Players, Settle(p)
  PROVE  Turned(game, game')
<1>1. game \in GameState /\ game.turn # NoPlayer
  BY MayCommandFacts, RunningFacts DEF IInv, Settle
<1>2. \E paid : game' = SolveDebts(game, p, paid)
  BY DEF Settle
<1> QED
  BY <1>1, <1>2, StaysGoes, SolveDebtsGoes DEF Turned

\* a debtor gives up
LEMMA DeclareBankruptTurned ==
  ASSUME IInv, NEW p \in Players, DeclareBankrupt(p)
  PROVE  Turned(game, game')
<1>1. /\ game \in GameState /\ game.turn # NoPlayer /\ p \in Active(game)
      /\ game' = Bankrupt(game, p)
  BY MayCommandFacts, RunningFacts DEF IInv, DeclareBankrupt, MayDecide
<1> QED
  BY <1>1, BankruptGoes DEF Turned

\* both parties of a trade settle, the second perhaps after the turn has passed
LEMMA CompleteTradeTurned ==
  ASSUME IInv, NEW p \in Players, NEW q \in Players, CompleteTrade(p, q)
  PROVE  Turned(game, game')
<1>1. Good(game) /\ {p, q} \subseteq Active(game) /\ game.status = "run"
  BY DEF IInv, CompleteTrade, MayCommand
<1>2. PICK new \in SUBSET {Debt(p, q), Debt(q, p)} :
        \E paid \in SUBSET Owed([game EXCEPT !.debts = @ \union new], p) :
          LET h == SolveDebts([game EXCEPT !.debts = @ \union new], p, paid)
          IN  \E rest \in SUBSET Owed(h, q) : game' = SolveDebts(h, q, rest)
  BY DEF CompleteTrade
<1> DEFINE g == [game EXCEPT !.debts = @ \union new]
<1>3. Good(g) /\ g.status = "run"
  <2>1. \A d \in new : /\ d \in [from : Players, to : 0..Hammer]
                       /\ {d.from, d.to} \subseteq Active(game) \union {Bank}
    BY <1>1, DebtType
  <2> QED
    BY <1>1, <2>1, AddDebtsGood
<1>4. SameOrder(game, g)
  BY <1>1 DEF Good, GameState, SameOrder, SameRows
<1>5. PICK paid \in SUBSET Owed(g, p) :
        \E rest : game' = SolveDebts(SolveDebts(g, p, paid), q, rest)
  BY <1>2
<1> HIDE DEF g
<1> DEFINE h == SolveDebts(g, p, paid)
<1>6. Good(h) /\ h.status = "run"
  BY <1>3, SolveDebtsGood
<1>7. Turned(game, h)
  <2>1. g \in GameState /\ g.turn # NoPlayer
    BY <1>3, RunningFacts
  <2>2. Goes(g.turn, Active(g), h) /\ SameRows(g, h)
    BY <2>1, StaysGoes, SolveDebtsGoes
  <2> QED
    BY <1>4, <2>2, SameOrderTurned DEF SameOrder, SameRows, Turned
<1>8. PICK rest : game' = SolveDebts(h, q, rest)
  BY <1>5
<1> HIDE DEF h
<1>9. h \in GameState /\ h.turn # NoPlayer
  BY <1>6, RunningFacts
<1> QED
  BY <1>7, <1>8, <1>9, SolveDebtsGoes DEF Turned, SameRows

\* other commands of players touch neither turn nor seats
LEMMA OthersTurned ==
  ASSUME IInv, NEW p \in Players,
         \/ JailRollDoubles(p) \/ LeaveJail(p) \/ NewAuction(p) \/ Bid(p)
         \/ Disconnect(p) \/ Reconnect(p)
  PROVE  Turned(game, game')
<1>1. game \in GameState
  BY DEF IInv, Good
<1>2. CASE JailRollDoubles(p) \/ LeaveJail(p)
  BY <1>1, <1>2, SameOrderTurned
     DEF JailRollDoubles, StartMove, LeaveJail, GameState, SameOrder, SameRows
<1>3. CASE NewAuction(p) \/ Bid(p)
  BY <1>1, <1>3, SameOrderTurned DEF NewAuction, Bid, GameState, SameOrder, SameRows
<1>4. CASE Disconnect(p) \/ Reconnect(p)
  BY <1>1, <1>4, SameOrderTurned
     DEF Disconnect, Reconnect, GameState, SameOrder, SameRows
<1> QED
  BY <1>2, <1>3, <1>4

-----------------------------------------------------------------------------
(* The theorem *)

\* a step of the turn is a step of TurnOrder
LEMMA OrderedStep ==
  ASSUME game.turn # NoPlayer,
         Ordered(game.turn, Active(game), game'.turn, Active(game'))
  PROVE  [Turns!Next]_Turns!vars
<1>1. CASE Active(game') = Active(game) /\ game'.turn = game.turn
  BY <1>1 DEF Turns!vars, Active
<1>2. CASE /\ Active(game') = Active(game)
           /\ game'.turn = Turns!Successor(game.turn, Active(game))
  BY <1>2 DEF Turns!Next, Turns!Pass, Turns!NoTurn, NoPlayer, Active
<1>3. CASE \E p \in Active(game) :
             /\ Active(game') = Active(game) \ {p}
             /\ IF \E q \in Active(game) : Active(game') = {q}
                THEN game'.turn = NoPlayer
                ELSE game'.turn \in {game.turn, Turns!Successor(game.turn, Active(game'))}
  BY <1>3 DEF Turns!Next, Turns!DropOut, Turns!NoTurn, NoPlayer, Active
<1> QED
  BY <1>1, <1>2, <1>3 DEF Ordered

\* spectators stay behind while both rows shrink
LEMMA BehindKept ==
  ASSUME SpectatorsBehind, Seated(game') \subseteq Seated(game),
         game'.spectators \subseteq game.spectators
  PROVE  SpectatorsBehind'
BY DEF SpectatorsBehind

\* a step that leaves the seats alone
LEMMA TurnedStep ==
  ASSUME SpectatorsBehind, game.turn # NoPlayer, Turned(game, game')
  PROVE  [Turns!Next]_Turns!vars /\ SpectatorsBehind'
<1>1. [Turns!Next]_Turns!vars
  BY GoesOrdered, OrderedStep DEF Turned
<1>2. SpectatorsBehind'
  BY BehindKept DEF Turned, SameRows, Seated
<1> QED
  BY <1>1, <1>2

\* a departure from a game in progress, or after its end
LEMMA DepartureStep ==
  ASSUME IInv, SpectatorsBehind, NEW p \in Players, Leave(p) \/ PlayerTimeout(p)
  PROVE  [Turns!Next]_Turns!vars /\ SpectatorsBehind'
<1>1. /\ Good(game) /\ p \in game.members /\ game' = RemovePlayer(game, p)
      /\ game \in GameState
  BY DEF IInv, Leave, PlayerTimeout, Connected, Good
<1>2. CASE game.status = "run"
  <2>1. game.turn # NoPlayer
    BY <1>1, <1>2, RunningFacts
  <2>2. /\ Ordered(game.turn, Active(game), game'.turn, Active(game'))
        /\ game'.members = game.members \ {p}
        /\ game'.spectators = game.spectators \ {p}
    BY <1>1, <1>2, RemovePlayerGoes
  <2>3. [Turns!Next]_Turns!vars
    BY <2>1, <2>2, OrderedStep
  <2>4. SpectatorsBehind'
    BY <2>2, BehindKept DEF Seated
  <2> QED
    BY <2>3, <2>4
<1>3. CASE game.status # "run"
  <2> DEFINE g2 == [game EXCEPT !.members = @ \ {p}, !.moving = @ \ {p},
                                !.dest = @ \ {p}]
  <2>1. game.turn = NoPlayer
    BY <1>1, <1>3 DEF Good, Rights, GameState
  <2>2. game' = Forget(g2, p)
    BY <1>1, <1>3, <2>1, ZeroIsNobody DEF RemovePlayer
  <2>3. /\ game'.turn = game.turn /\ game'.members = game.members \ {p}
        /\ game'.spectators = game.spectators \ {p}
        /\ game'.bankrupt = game.bankrupt \ {p}
    BY <1>1, <2>2 DEF Forget, GameState
  <2>4. Active(game') = Active(game) \ {p}
    BY <2>3 DEF Active
  <2>5. [Turns!Next]_Turns!vars
    <3>1. CASE p \in Active(game)
      BY <2>1, <2>3, <2>4, <3>1
         DEF Turns!Next, Turns!LeaveTable, Turns!NoTurn, NoPlayer, Active
    <3>2. CASE p \notin Active(game)
      BY <2>3, <2>4, <3>2 DEF Turns!vars, Active
    <3> QED
      BY <3>1, <3>2
  <2>6. SpectatorsBehind'
    BY <2>3, BehindKept DEF Seated
  <2> QED
    BY <2>5, <2>6
<1> QED
  BY <1>2, <1>3

\* a spectator comes in behind the players, and the first one is seated behind them
LEMMA SpectatorStep ==
  ASSUME IInv, SpectatorsBehind, NEW p \in Players, Watch(p) \/ Upgrade(p)
  PROVE  [Turns!Next]_Turns!vars /\ SpectatorsBehind'
<1>1. /\ game \in GameState /\ game.turn # NoPlayer
  BY RunningFacts DEF IInv, Watch, Upgrade
<1>2. CASE Watch(p)
  <2>1. /\ game'.turn = game.turn /\ game'.members = game.members \union {p}
        /\ game'.spectators = game.spectators \union {p}
        /\ game'.bankrupt = game.bankrupt /\ p \notin game.members
    BY <1>1, <1>2 DEF Watch, GameState
  <2>2. Active(game') = Active(game)
    BY <2>1 DEF Active
  <2>3. Seated(game') = Seated(game) /\ \A q \in Seated(game) : q < p
    BY <1>2, <2>1 DEF Seated, Watch
  <2>4. SpectatorsBehind'
    BY <2>1, <2>3 DEF SpectatorsBehind
  <2> QED
    BY <2>1, <2>2, <2>4 DEF Turns!vars, Active
<1>3. CASE Upgrade(p)
  <2>1. /\ game'.turn = game.turn /\ game'.members = game.members
        /\ game'.spectators = game.spectators \ {p}
        /\ game'.bankrupt = game.bankrupt
        /\ p \in game.spectators /\ \A q \in game.spectators : p <= q
    BY <1>1, <1>3 DEF Upgrade, GameState
  <2>2. Seated(game') \subseteq Seated(game) \union {p}
    BY <2>1 DEF Seated
  <2>3. game.spectators \subseteq Nat /\ p \in Nat
    BY <1>1, ConstantsAssumption DEF GameState, Players
  <2>4. \A s \in game'.spectators : p < s
    BY <2>1, <2>3
  <2>5. SpectatorsBehind'
    BY <2>1, <2>2, <2>4 DEF SpectatorsBehind
  <2>6. Active(game') \in {Active(game), Active(game) \union {p}}
    BY <2>1 DEF Active
  <2>7. \A q \in Active(game) : q < p
    BY <2>1 DEF SpectatorsBehind, Seated, Active
  <2>8. [Turns!Next]_Turns!vars
    <3>1. CASE Active(game') = Active(game)
      BY <2>1, <3>1 DEF Turns!vars, Active
    <3>2. CASE Active(game') = Active(game) \union {p}
      BY <1>1, <2>1, <2>7, <3>2
         DEF Turns!Next, Turns!TakeSeat, Turns!NoTurn, NoPlayer, Active
    <3> QED
      BY <2>6, <3>1, <3>2
  <2> QED
    BY <2>5, <2>8
<1> QED
  BY <1>2, <1>3

\* nothing happens to the players
LEMMA SameGameStep ==
  ASSUME SpectatorsBehind, game' = game
  PROVE  [Turns!Next]_Turns!vars /\ SpectatorsBehind'
BY DEF Turns!vars, Active, SpectatorsBehind, Seated

\* events that find the game ended leave it alone
LEMMA EventStep ==
  ASSUME IInv, SpectatorsBehind,
         TokenTimeout \/ AuctionTimeout \/ \E p \in Players : ConfirmToken(p)
  PROVE  [Turns!Next]_Turns!vars /\ SpectatorsBehind'
<1>1. Good(game) /\ game \in GameState
  BY DEF IInv, Good
<1>2. CASE game.turn # NoPlayer
  BY <1>2, TokensTurned, AuctionTimeoutTurned, TurnedStep
<1>3. CASE game.turn = NoPlayer
  <2>1. /\ game.status = "end" /\ ~game.auction.open
        /\ game.turn \notin game.dest
    BY <1>1, <1>3, ZeroIsNobody DEF Good, Rights, GameState, NoAuction
  <2>2. game' = game
    BY <2>1 DEF TokenTimeout, AuctionTimeout, ConfirmToken
  <2> QED
    BY <2>2, SameGameStep
<1> QED
  BY <1>2, <1>3

\* players command in a game that runs
LEMMA CommandRuns ==
  ASSUME IInv, NEW p \in Players, Command(p)
  PROVE  \/ game.turn # NoPlayer
         \/ Leave(p) \/ PlayerTimeout(p)
<1>1. CASE \/ Roll(p) \/ JailRollDoubles(p) \/ JailRollMissed(p) \/ LeaveJail(p)
           \/ BuyEstate(p) \/ NewAuction(p) \/ EndTurnAsked(p)
  BY <1>1, PlayFacts DEF Roll, JailRollDoubles, JailRollMissed, LeaveJail,
                         BuyEstate, NewAuction, EndTurnAsked
<1>2. CASE PayTax(p) \/ Bid(p) \/ DeclareBankrupt(p) \/ Settle(p) \/ Disconnect(p)
  <2>1. MayCommand(p)
    BY <1>2 DEF PayTax, Bid, DeclareBankrupt, Settle, Disconnect, MayBid, MayDecide
  <2> QED
    BY <2>1, RunningFacts DEF IInv, MayCommand
<1>3. CASE \E q \in Players : CompleteTrade(p, q)
  BY <1>3, RunningFacts DEF IInv, CompleteTrade, MayCommand
<1>4. CASE Reconnect(p) \/ Watch(p) \/ Upgrade(p)
  BY <1>4, RunningFacts DEF IInv, Reconnect, Watch, Upgrade
<1> QED
  BY <1>1, <1>2, <1>3, <1>4 DEF Command

\* every command is a step of TurnOrder or none
LEMMA CommandStep ==
  ASSUME IInv, SpectatorsBehind, NEW p \in Players, Command(p)
  PROVE  [Turns!Next]_Turns!vars /\ SpectatorsBehind'
<1>1. CASE Leave(p) \/ PlayerTimeout(p)
  BY <1>1, DepartureStep
<1>2. CASE Watch(p) \/ Upgrade(p)
  BY <1>2, SpectatorStep
<1>3. ASSUME game.turn # NoPlayer, Turned(game, game')
      PROVE  [Turns!Next]_Turns!vars /\ SpectatorsBehind'
  BY <1>3, TurnedStep
<1>4. ASSUME game.turn # NoPlayer,
             \/ Roll(p) \/ JailRollMissed(p) \/ BuyEstate(p) \/ EndTurnAsked(p)
             \/ PayTax(p) \/ Settle(p) \/ DeclareBankrupt(p)
      PROVE  Turned(game, game')
  BY <1>4, RollTurned, JailRollMissedTurned, BuyEstateTurned, EndTurnAskedTurned,
     PayTaxTurned, SettleTurned, DeclareBankruptTurned
<1>5. ASSUME \E q \in Players : CompleteTrade(p, q)
      PROVE  Turned(game, game')
  BY <1>5, CompleteTradeTurned
<1>6. ASSUME \/ JailRollDoubles(p) \/ LeaveJail(p) \/ NewAuction(p) \/ Bid(p)
             \/ Disconnect(p) \/ Reconnect(p)
      PROVE  Turned(game, game')
  BY <1>6, OthersTurned
<1> QED
  BY <1>1, <1>2, <1>3, <1>4, <1>5, <1>6, CommandRuns DEF Command

\* every step of a good game is a step of TurnOrder or none
LEMMA NextStep ==
  ASSUME IInv, Charging, SpectatorsBehind, [Next]_vars
  PROVE  [Turns!Next]_Turns!vars /\ SpectatorsBehind'
<1>1. CASE TokenTimeout \/ AuctionTimeout \/ \E p \in Players : ConfirmToken(p)
  BY <1>1, EventStep
<1>2. ASSUME NEW p \in Players, Command(p)
      PROVE  [Turns!Next]_Turns!vars /\ SpectatorsBehind'
  BY <1>2, CommandStep
<1>3. ASSUME NEW c \in charges, Charge(c)
      PROVE  [Turns!Next]_Turns!vars /\ SpectatorsBehind'
  <2>1. game.turn # NoPlayer
    BY <1>3, RunningFacts DEF IInv, Charging
  <2> QED
    BY <1>3, <2>1, RoundTurned, TurnedStep
<1>4. CASE UNCHANGED vars
  BY <1>4, SameGameStep DEF vars
<1> QED
  BY <1>1, <1>2, <1>3, <1>4 DEF Next

\* a game starts with the turn of the first seat
LEMMA InitStep ==
  ASSUME Init
  PROVE  Turns!Init /\ SpectatorsBehind
<1>1. /\ game.members = 1..Seats /\ game.spectators = {} /\ game.bankrupt = {}
      /\ game.turn = 1
  BY DEF Init
<1>2. Active(game) = 1..Seats
  BY <1>1 DEF Active
<1>3. 1..Seats \in SUBSET Nat /\ 1 \in 1..Seats
  BY ConstantsAssumption
<1>4. Min(1..Seats) \in 1..Seats /\ Min(1..Seats) <= 1
  BY <1>3, MinIn
<1>5. Min(1..Seats) = 1
  BY <1>3, <1>4, ConstantsAssumption
<1>6. Turns!Min(1..Seats) = Min(1..Seats)
  BY DEF Turns!Min, Min
<1> QED
  BY <1>1, <1>2, <1>5, <1>6 DEF Turns!Init, SpectatorsBehind

\* For any number of players and spectators, whoever is ruined, leaves, drops or is
\* promoted, the game implements TurnOrder: each step passes the turn at most once,
\* to the next of those who play, although updateTurn and endTurn are called from
\* many places and one handler may call them several times.
THEOREM TurnsGoRound == Spec => TurnsInOrder
<1>1. Init => Turns!Init /\ SpectatorsBehind
  BY InitStep
<1>2. IInv /\ Charging /\ SpectatorsBehind /\ [Next]_vars
        => [Turns!Next]_Turns!vars /\ SpectatorsBehind'
  BY NextStep
<1> QED
  BY <1>1, <1>2, InductiveInvariant, PTL DEF Spec, TurnsInOrder, Turns!Spec
=============================================================================
