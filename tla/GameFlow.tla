------------------------------ MODULE GameFlow ------------------------------
(***************************************************************************)
(* The flow of control of one running monopd game (Game, Player and the    *)
(* command gate of MonopdServer): whose turn it is, the rights he has, the *)
(* tokens the clients still animate, the tax dialog, the auction, the      *)
(* debts that pause the game, bankruptcy, and players who leave, lose      *)
(* their connection, come back, watch or are promoted.                     *)
(*                                                                         *)
(* Money and the board are abstracted: a payment is made, becomes a debt,  *)
(* or ruins the payer, and a landing has any outcome an estate or a card   *)
(* gives it.  Players are numbered in the order of Game::m_players, and    *)
(* the state starts where Game::start leaves it.  A card that collects     *)
(* from everybody takes a step per player: one of them may go broke, and   *)
(* the turn or the game may end, while others are still to be charged.     *)
(***************************************************************************)
EXTENDS Naturals, FiniteSetsExt

CONSTANTS N,               \* players and spectators the game ever holds
          Seats,           \* players at the start
          MaxBid,          \* bound: the highest bid anyone can afford
          AuctionsEnabled, \* the configuration option "auctionsenabled"
          Traders,         \* bound: players who trade
          Quitters,        \* bound: players who may leave
          Droppers         \* bound: players who may lose their connection

ASSUME ConstantsAssumption == /\ N \in Nat
                              /\ Seats \in 2..N
                              /\ MaxBid \in Nat
                              /\ AuctionsEnabled \in BOOLEAN

Players  == 1..N
NoPlayer == 0
Bank     == 0              \* the creditor of taxes, fines and cards
Hammer   == N + 1          \* the creditor of the debt m_auctionDebt points at

Sold      == 3             \* after Bidding = 0, GoingOnce = 1, GoingTwice = 2
NoAuction == [open |-> FALSE, status |-> 0, bidder |-> NoPlayer, bid |-> 0]

Debt(from, to) == [from |-> from, to |-> to]

VARIABLES game,            \* the Game and its Players, a record
          tokenTimer,      \* a TokenMovementTimeout event is pending
          auctionTimer,    \* an AuctionTimeout event is pending
          charges          \* what a card has still to collect (giveCard)

timers == <<tokenTimer, auctionTimer>>
vars == <<game, timers, charges>>

-----------------------------------------------------------------------------
(* State *)

GameState ==
  [status       : {"run", "end"},
   members      : SUBSET Players,         \* m_players
   spectators   : SUBSET Players,
   bankrupt     : SUBSET Players,
   online       : SUBSET Players,         \* players with a socket
   turn         : Players \union {NoPlayer},             \* m_pTurn
   hasTurn      : SUBSET Players,
   canRoll      : SUBSET Players,
   canRollAgain : SUBSET Players,
   canBuy       : SUBSET Players,         \* can_buyestate
   jailed       : SUBSET Players,
   jailCount    : [Players -> 0..3],
   doubleCount  : [Players -> 0..3],
   moving       : SUBSET Players,         \* players with a tokenLocation
   dest         : SUBSET Players,         \* players with a destination
   paused       : BOOLEAN,                \* m_pausedForDialog
   auction      : [open : BOOLEAN, status : 0..Sold,
                   bidder : Players \union {NoPlayer}, bid : 0..MaxBid],
   debts        : SUBSET [from : Players, to : 0..Hammer]]

Active(g)    == g.members \ (g.bankrupt \union g.spectators)
Debtors(g)   == {d.from : d \in g.debts}
Connected(g) == g.members \intersect g.online
HammerDebts(g) == {d \in g.debts : d.to = Hammer}

Init ==
  /\ game = [status |-> "run", members |-> 1..Seats, spectators |-> {},
             bankrupt |-> {}, online |-> 1..Seats, turn |-> 1,
             hasTurn |-> {1}, canRoll |-> {1}, canRollAgain |-> {},
             canBuy |-> {}, jailed |-> {},
             jailCount |-> [p \in Players |-> 0],
             doubleCount |-> [p \in Players |-> 0],
             moving |-> {}, dest |-> {}, paused |-> FALSE,
             auction |-> NoAuction, debts |-> {}]
  /\ tokenTimer = FALSE
  /\ auctionTimer = FALSE
  /\ charges = {}

-----------------------------------------------------------------------------
(* The turn *)

\* Mutant of NextPlayer: whoever sits there
NextPlayerAnyMember(g) ==
  LET later == {q \in g.members : q > g.turn}
  IN  IF later # {} THEN Min(later) ELSE Min(g.members)

\* the next player of m_players, wrapping, who is neither bankrupt nor watching
NextPlayer(g) ==
  LET later == {q \in Active(g) : q > g.turn}
  IN  IF later # {} THEN Min(later) ELSE Min(Active(g))

\* Mutants of UpdateTurn: no setTurn(false); the dice in jail
UpdateTurnKeepsOld(g) ==
  LET q == NextPlayer(g)
  IN  [g EXCEPT !.turn = q, !.hasTurn = @ \union {q},
                !.canRoll = @ \union ({q} \ g.jailed)]

UpdateTurnRollsInJail(g) ==
  LET q == NextPlayer(g)
  IN  [g EXCEPT !.turn = q, !.hasTurn = {q}, !.canBuy = {}, !.canRoll = {q},
                !.canRollAgain = {}]

\* setTurn(false) on the old turn holder, setTurn(true) on the next
UpdateTurn(g) ==
  LET p == g.turn
      q == NextPlayer(g)
  IN  [g EXCEPT !.turn = q,
                !.hasTurn = (@ \ {p}) \union {q},
                !.canBuy = @ \ {p, q},
                !.canRoll = (@ \ {p}) \union ({q} \ g.jailed),
                !.canRollAgain = @ \ {p}]

\* Mutant of TurnHeld: no check for an auction
TurnHeldButAuction(g, asked) ==
  \/ g.turn \notin g.hasTurn
  \/ g.paused \/ g.moving # {} \/ g.debts # {}
  \/ g.turn \in g.canBuy /\ ~(asked /\ ~AuctionsEnabled)

\* Mutant of TurnHeld: no check for debts
TurnHeldButDebts(g, asked) ==
  \/ g.turn \notin g.hasTurn
  \/ g.paused \/ g.auction.open \/ g.moving # {}
  \/ g.turn \in g.canBuy /\ ~(asked /\ ~AuctionsEnabled)

\* the checks that make endTurn return early
TurnHeld(g, asked) ==
  \/ g.turn \notin g.hasTurn
  \/ g.paused
  \/ g.auction.open
  \/ g.moving # {}
  \/ g.debts # {}
  \/ g.turn \in g.canBuy /\ ~(asked /\ ~AuctionsEnabled)

\* m_pTurn->endTurn(asked): another roll, the same turn, or the next player
EndTurn(g, asked) ==
  LET p == g.turn
      h == [g EXCEPT !.canBuy = @ \ {p}]
  IN  IF TurnHeld(g, asked) THEN g
      ELSE IF p \in g.canRollAgain
           THEN [h EXCEPT !.canRoll = @ \union {p}, !.canRollAgain = @ \ {p}]
      ELSE IF p \in g.canRoll \union g.jailed THEN h
      ELSE UpdateTurn(h)

EndTurnIfAny(g) == IF g.turn = NoPlayer THEN g ELSE EndTurn(g, FALSE)

-----------------------------------------------------------------------------
(* Debts and bankruptcy *)

\* bankruptPlayer ends the game when one active player is left
EndGame(g) ==
  [g EXCEPT !.status = "end",
            !.auction = NoAuction,
            !.moving = @ \ (g.members \intersect g.online),
            !.turn = NoPlayer,
            !.hasTurn = @ \ {g.turn},
            !.canBuy = @ \ {g.turn},
            !.canRoll = @ \ {g.turn},
            !.canRollAgain = @ \ {g.turn}]

\* Mutant of Ruined: the debts to him stay
RuinedKeepsClaims(g, p) ==
  [g EXCEPT !.bankrupt = @ \union {p},
            !.auction = IF g.auction.bidder = p THEN NoAuction ELSE @,
            !.debts = {d \in @ : p # d.from}]

\* the bankrupt flag, his debts and claims gone, his auction aborted
Ruined(g, p) ==
  [g EXCEPT !.bankrupt = @ \union {p},
            !.auction = IF g.auction.bidder = p THEN NoAuction ELSE @,
            !.debts = {d \in @ : p \notin {d.from, d.to}}]

Bankrupt(g, p) ==
  LET h == Ruined(g, p)
  IN  IF p \in g.bankrupt \union g.spectators THEN g
      ELSE IF \E w \in Active(h) : Active(h) = {w} THEN EndGame(h)
      ELSE IF h.debts # {} THEN h
      ELSE IF p = h.turn THEN UpdateTurn(h)
      ELSE EndTurn(h, FALSE)

\* newDebt: broke means the amount exceeds all the assets of the debtor
NewDebt(g, from, to, broke) ==
  LET h == [g EXCEPT !.debts = @ \union {Debt(from, to)}]
  IN  IF {from, to} \intersect (g.bankrupt \union g.spectators) # {} THEN g
      ELSE IF broke THEN Bankrupt(h, from) ELSE h

Owed(g, p) == {c \in 0..Hammer : Debt(p, c) \in g.debts}

\* newDebtToAll, of a debtor who can pay each debt after raising money
NewDebtToAll(g, from) ==
  IF from \in g.bankrupt \union g.spectators THEN g
  ELSE [g EXCEPT !.debts = @ \union {Debt(from, q) : q \in Active(g) \ {from}}]

\* Mutant of SolveDebts: the auction is not completed
SolveDebtsOnly(g, p, paid) ==
  LET h == [g EXCEPT !.debts = @ \ {Debt(p, c) : c \in paid}]
  IN  IF Owed(g, p) # {} /\ h.debts = {} THEN EndTurn(h, FALSE) ELSE h

\* solveDebts: the debts of p to the creditors in paid are settled, the next one
\* in the list, if any, exceeds the money at hand
SolveDebts(g, p, paid) ==
  LET h == [g EXCEPT !.debts = @ \ {Debt(p, c) : c \in paid},
                     !.auction = IF Hammer \in paid THEN NoAuction ELSE @]
  IN  IF Owed(g, p) = {} THEN g
      ELSE IF h.debts = {} THEN EndTurn(h, FALSE) ELSE h

-----------------------------------------------------------------------------
(* Moving and landing *)

\* Mutant of ToJail: the count of doubles stays
ToJailKeepsDoubles(g, p) ==
  [g EXCEPT !.jailCount[p] = 1, !.canRoll = @ \ {p}, !.jailed = @ \union {p}]

\* toJail
ToJail(g, p) ==
  [g EXCEPT !.doubleCount[p] = 0, !.jailCount[p] = 1,
            !.canRoll = @ \ {p}, !.jailed = @ \union {p}]

\* advance with clients that animate it: the destination of p is set and
\* every connected client has a token to confirm
StartMove(g, p) ==
  [g EXCEPT !.dest = @ \union {p},
            !.moving = @ \union Connected(g)]

\* what landPlayer can do once p stands on his destination: nothing (or only
\* payments made), an offer, the tax dialog, jail, or a debt he cannot pay
Landings(g) ==
  LET p == g.turn
      h == [g EXCEPT !.dest = @ \ {p}]
      others == Active(h) \ {p}
  IN  {h,
       [h EXCEPT !.canRoll = @ \ {p}, !.canBuy = @ \union {p}],
       [h EXCEPT !.paused = TRUE],
       UpdateTurn(ToJail(h, p)),
       NewDebtToAll(h, p)}
      \union {NewDebt(h, p, c, b) : c \in others \union {Bank}, b \in BOOLEAN}

\* Mutant of Arrivals: the first token to arrive lands the turn holder
ArrivalsLandEarly(g, ps) ==
  LET h == [g EXCEPT !.moving = @ \ ps]
  IN  IF ps = {} THEN {h} ELSE {EndTurnIfAny(l) : l \in Landings(h)}

\* the last tokens are those of ps, and the turn holder draws a card that collects
\* from all others
Collects(ps) ==
  LET p == game.turn
  IN  /\ game.moving = ps
      /\ game' = [game EXCEPT !.moving = {}, !.dest = @ \ {p}]
      /\ charges' = {Debt(q, p) : q \in Active(game) \ {p}}

\* the states after the tokens of ps arrive; the last one to arrive lands the
\* turn holder, and endTurn follows
Arrivals(g, ps) ==
  LET h == [g EXCEPT !.moving = @ \ ps]
  IN  IF ps = {} \/ h.moving # {} THEN {h}
      ELSE {EndTurnIfAny(l) : l \in Landings(h)}

-----------------------------------------------------------------------------
(* Players come and go *)

Forget(g, p) ==
  [g EXCEPT !.bankrupt = @ \ {p}, !.spectators = @ \ {p}, !.online = @ \ {p},
            !.jailed = @ \ {p}, !.jailCount[p] = 0, !.doubleCount[p] = 0]

\* Mutant of RemovePlayer: no bankruptcy
RemovePlayerOnly(g, p) ==
  LET h == IF p = g.turn THEN UpdateTurn(g) ELSE g
  IN  Forget([h EXCEPT !.members = @ \ {p}, !.moving = @ \ {p}, !.dest = @ \ {p}], p)

\* removePlayer: a turn holder first loses the dialog, the tokens and the turn
RemovePlayer(g, p) ==
  LET g1 == IF p = g.turn
            THEN UpdateTurn([g EXCEPT !.paused = FALSE,
                                      !.moving = @ \ Connected(g)])
            ELSE g
      g2 == [g1 EXCEPT !.members = @ \ {p}, !.moving = @ \ {p},
                       !.dest = @ \ {p}]
      g3 == IF g.status = "run" THEN Bankrupt(g2, p) ELSE g2
  IN  Forget(g3, p)

-----------------------------------------------------------------------------
(* The command gate of processInput *)

\* .T, .h, .em and .es: a connected player who plays
MayCommand(p) == /\ game.status = "run"
                 /\ p \in Active(game) \intersect game.online

\* past clientsMoving
MayDecide(p) == MayCommand(p) /\ game.moving = {}

\* past the tax dialog, and past the debts
MayBid(p) == MayDecide(p) /\ ~game.paused /\ game.debts = {}

\* past the auction: the turn holder's own commands
MayPlay(p) == MayBid(p) /\ ~game.auction.open /\ p \in game.hasTurn

-----------------------------------------------------------------------------
(* Commands of the turn holder *)

\* .r, which always leaves a new timer behind
Roll(p) ==
  /\ MayPlay(p)
  /\ p \in game.canRoll
  /\ IF p \in game.jailed \union game.canBuy THEN game' = game
     ELSE LET g == [game EXCEPT !.canRoll = @ \ {p}, !.canRollAgain = @ \ {p}]
              n == game.doubleCount[p] + 1
          IN  \/ game' = StartMove([g EXCEPT !.doubleCount[p] = 0], p)
              \/ /\ n < 3
                 /\ game' = StartMove([g EXCEPT !.doubleCount[p] = n,
                                                !.canRollAgain = @ \union {p}], p)
              \/ /\ n >= 3
                 /\ game' = UpdateTurn(ToJail(g, p))
  /\ tokenTimer' = TRUE
  /\ UNCHANGED auctionTimer

\* .jr with doubles
JailRollDoubles(p) ==
  /\ MayPlay(p)
  /\ p \in game.jailed
  /\ game' = StartMove([game EXCEPT !.jailed = @ \ {p}], p)
  /\ UNCHANGED <<tokenTimer, auctionTimer>>

\* Mutant of JailRollMissed: off by one
JailRollMissedTooOften(p) ==
  /\ MayPlay(p)
  /\ p \in game.jailed
  /\ game' = [UpdateTurn(game) EXCEPT !.jailCount[p] = @ + 1]
  /\ UNCHANGED <<tokenTimer, auctionTimer>>

\* .jr without: another turn in jail, or the fine
JailRollMissed(p) ==
  /\ MayPlay(p)
  /\ p \in game.jailed
  /\ IF game.jailCount[p] < 3
     THEN game' = [UpdateTurn(game) EXCEPT !.jailCount[p] = game.jailCount[p] + 1]
     ELSE LET g == [game EXCEPT !.jailed = @ \ {p}, !.jailCount[p] = 0]
              again == [g EXCEPT !.canRollAgain = @ \union {p}]
          IN  \/ game' = [g EXCEPT !.canRoll = @ \union {p}]
              \/ \E broke \in BOOLEAN : game' = NewDebt(again, p, Bank, broke)
  /\ UNCHANGED <<tokenTimer, auctionTimer>>

\* .jp paid, or .jc with a card
LeaveJail(p) ==
  /\ MayPlay(p)
  /\ p \in game.jailed
  /\ game' = [game EXCEPT !.jailed = @ \ {p}, !.jailCount[p] = 0,
                          !.canRoll = @ \union {p}]
  /\ UNCHANGED <<tokenTimer, auctionTimer>>

\* .eb paid
BuyEstate(p) ==
  /\ MayPlay(p)
  /\ p \in game.canBuy
  /\ game' = EndTurn([game EXCEPT !.canBuy = @ \ {p}], FALSE)
  /\ UNCHANGED <<tokenTimer, auctionTimer>>

\* Mutant of NewAuction: the old timer stays
NewAuctionKeepsTimer(p) ==
  /\ MayPlay(p)
  /\ p \in game.canBuy
  /\ AuctionsEnabled
  /\ game' = [game EXCEPT !.canBuy = @ \ {p}, !.auction = [@ EXCEPT !.open = TRUE]]
  /\ UNCHANGED <<tokenTimer, auctionTimer>>

\* .ea, which removes the timer an aborted auction left
NewAuction(p) ==
  /\ MayPlay(p)
  /\ p \in game.canBuy
  /\ AuctionsEnabled
  /\ game' = [game EXCEPT !.canBuy = @ \ {p}, !.auction = [@ EXCEPT !.open = TRUE]]
  /\ auctionTimer' = FALSE
  /\ UNCHANGED tokenTimer

\* .E
EndTurnAsked(p) ==
  /\ MayPlay(p)
  /\ game' = EndTurn(game, TRUE)
  /\ UNCHANGED <<tokenTimer, auctionTimer>>

\* .T$ and .T%
PayTax(p) ==
  /\ MayDecide(p)
  /\ game.paused
  /\ p \in game.hasTurn
  /\ LET g == [game EXCEPT !.paused = FALSE]
     IN  \/ game' = EndTurn(g, FALSE)
         \/ \E broke \in BOOLEAN : game' = NewDebt(g, p, Bank, broke)
  /\ UNCHANGED <<tokenTimer, auctionTimer>>

-----------------------------------------------------------------------------
(* Tokens *)

\* Mutant of ConfirmToken: the timer goes with the first confirmation
ConfirmTokenDropsTimer(p) ==
  /\ game.status = "run"
  /\ p \in Connected(game)
  /\ IF p \in game.moving /\ game.turn \in game.dest
     THEN Collects({p}) \/ (game' \in Arrivals(game, {p}) /\ UNCHANGED charges)
     ELSE UNCHANGED <<game, charges>>
  /\ tokenTimer' = FALSE
  /\ UNCHANGED auctionTimer

\* .t from a client, one that only watches included
ConfirmToken(p) ==
  /\ game.status = "run"
  /\ p \in Connected(game)
  /\ IF p \in game.moving /\ game.turn \in game.dest
     THEN Collects({p}) \/ (game' \in Arrivals(game, {p}) /\ UNCHANGED charges)
     ELSE UNCHANGED <<game, charges>>
  /\ tokenTimer' = (tokenTimer /\ game'.moving # {})
  /\ UNCHANGED auctionTimer

\* tokenMovementTimeout, rearmed while tokens are moving
TokenTimeout ==
  /\ tokenTimer
  /\ IF game.turn \in game.dest
     THEN \/ game.moving # {} /\ Collects(game.moving)
          \/ game' \in Arrivals(game, game.moving) /\ UNCHANGED charges
     ELSE UNCHANGED <<game, charges>>
  /\ tokenTimer' = (game'.moving # {})
  /\ UNCHANGED auctionTimer

\* one round of the loop of a card over the other players, in their order: paid, owed,
\* or ruin; endTurn follows the last
Charge(c) ==
  /\ \A d \in charges : c.from <= d.from
  /\ charges' = charges \ {c}
  /\ \E h \in {game} \union {NewDebt(game, c.from, c.to, b) : b \in BOOLEAN} :
       game' = IF charges' = {} THEN EndTurnIfAny(h) ELSE h
  /\ UNCHANGED timers

-----------------------------------------------------------------------------
(* Auction *)

\* .ab
Bid(p) ==
  /\ MayBid(p)
  /\ game.auction.open
  /\ game.auction.status # Sold
  /\ \E b \in (game.auction.bid + 1)..MaxBid :
       game' = [game EXCEPT !.auction = [@ EXCEPT !.status = 0, !.bidder = p,
                                                  !.bid = b]]
  /\ auctionTimer' = TRUE
  /\ UNCHANGED tokenTimer

\* Mutant of AuctionTimeout: not rearmed
AuctionTimeoutOnce ==
  /\ auctionTimer
  /\ game.auction.open
  /\ game' = [game EXCEPT !.auction.status = IF @ < 2 THEN @ + 1 ELSE @]
  /\ auctionTimer' = FALSE
  /\ UNCHANGED tokenTimer

\* auctionTimeout, rearmed until the estate is sold
AuctionTimeout ==
  LET next == game.auction.status + 1
      p    == game.auction.bidder
      g    == [game EXCEPT !.auction.status = next]
  IN  /\ auctionTimer
      /\ IF ~game.auction.open THEN game' = game
         ELSE IF next # Sold THEN game' = g
         ELSE \/ game' = EndTurn([game EXCEPT !.auction = NoAuction], FALSE)
              \/ \E broke \in BOOLEAN : game' = NewDebt(g, p, Hammer, broke)
      /\ auctionTimer' = (game.auction.open /\ next # Sold)
      /\ UNCHANGED tokenTimer

-----------------------------------------------------------------------------
(* Debts *)

\* .p, or money raised by a mortgage or a sale
Settle(p) ==
  /\ MayCommand(p)
  /\ p \in Debtors(game)
  /\ \E paid \in SUBSET Owed(game, p) : game' = SolveDebts(game, p, paid)
  /\ UNCHANGED <<tokenTimer, auctionTimer>>

\* .D
DeclareBankrupt(p) ==
  /\ MayDecide(p)
  /\ ~game.paused
  /\ p \in Debtors(game)
  /\ game' = Bankrupt(game, p)
  /\ UNCHANGED <<tokenTimer, auctionTimer>>

\* .Ta of the last of two parties: money that is gone by now becomes a debt,
\* then both settle what they can, in the order of m_players
CompleteTrade(p, q) ==
  /\ p < q
  /\ MayCommand(p) \/ MayCommand(q)
  /\ {p, q} \subseteq Traders \intersect Active(game)
  /\ \E new \in SUBSET {Debt(p, q), Debt(q, p)} :
       LET g == [game EXCEPT !.debts = @ \union new]
       IN  \E paid \in SUBSET Owed(g, p) :
             LET h == SolveDebts(g, p, paid)
             IN  \E rest \in SUBSET Owed(h, q) : game' = SolveDebts(h, q, rest)
  /\ UNCHANGED <<tokenTimer, auctionTimer>>

-----------------------------------------------------------------------------
(* Players come and go *)

\* .gx, .d, or a lost connection that the game does not wait for
Leave(p) ==
  /\ p \in Quitters \intersect Connected(game)
  /\ game' = RemovePlayer(game, p)
  /\ UNCHANGED <<tokenTimer, auctionTimer>>

\* closedSocket of a player in a running game
Disconnect(p) ==
  /\ p \in Droppers
  /\ MayCommand(p)
  /\ game' = [game EXCEPT !.online = @ \ {p}]
  /\ UNCHANGED <<tokenTimer, auctionTimer>>

\* .R with the player's cookie
Reconnect(p) ==
  /\ game.status = "run"
  /\ p \in game.members \ game.online
  /\ game' = [game EXCEPT !.online = @ \union {p}]
  /\ UNCHANGED <<tokenTimer, auctionTimer>>

\* the PlayerTimeout event of a player who did not come back
PlayerTimeout(p) ==
  /\ p \in game.members \ game.online
  /\ game' = RemovePlayer(game, p)
  /\ UNCHANGED <<tokenTimer, auctionTimer>>

\* the players on seats that do not only watch, whatever became of them
Seated(g) == g.members \ g.spectators

\* .gS: a spectator is added at the end of m_players
Watch(p) ==
  /\ game.status = "run"
  /\ p \in Players \ game.members
  /\ \A q \in Seated(game) : q < p
  /\ game' = [game EXCEPT !.members = @ \union {p}, !.spectators = @ \union {p},
                          !.online = @ \union {p}]
  /\ UNCHANGED <<tokenTimer, auctionTimer>>

\* .gu: a spectator takes the seat after the last one.  Spectators differ in
\* nothing, so the one promoted is the first
Upgrade(p) ==
  /\ game.status = "run"
  /\ Connected(game) # {}
  /\ p \in game.spectators
  /\ \A q \in game.spectators : p <= q
  /\ game' = [game EXCEPT !.spectators = @ \ {p}, !.moving = @ \ {p}]
  /\ UNCHANGED <<tokenTimer, auctionTimer>>

-----------------------------------------------------------------------------

Command(p) ==
  \/ Roll(p) \/ JailRollDoubles(p) \/ JailRollMissed(p) \/ LeaveJail(p)
  \/ BuyEstate(p) \/ NewAuction(p) \/ EndTurnAsked(p) \/ PayTax(p)
  \/ Bid(p)
  \/ Settle(p) \/ DeclareBankrupt(p)
  \/ \E q \in Players : CompleteTrade(p, q)
  \/ Leave(p) \/ Disconnect(p) \/ Reconnect(p) \/ PlayerTimeout(p)
  \/ Watch(p) \/ Upgrade(p)

\* a handler that draws a card runs to its end before the next begins
Next ==
  \/ /\ charges = {}
     /\ \/ (AuctionTimeout \/ \E p \in Players : Command(p)) /\ UNCHANGED charges
        \/ TokenTimeout
        \/ \E p \in Players : ConfirmToken(p)
  \/ \E c \in charges : Charge(c)

Spec == Init /\ [][Next]_vars

\* a card charges everybody; processEvents fires every event some time after its
\* launch time
FairSpec == Spec /\ WF_vars(\E c \in charges : Charge(c))
                 /\ WF_vars(charges = {} /\ TokenTimeout)
                 /\ WF_vars(charges = {} /\ AuctionTimeout /\ UNCHANGED charges)

-----------------------------------------------------------------------------
(* Safety *)

\* Every part of the state has its type.
TypeOK == /\ game \in GameState
          /\ tokenTimer \in BOOLEAN
          /\ auctionTimer \in BOOLEAN
          /\ charges \subseteq [from : Players, to : Players]

Running == game.status = "run"

\* In a running game m_pTurn is the one member with hasturn, and nobody else
\* may roll, roll again or buy, whoever left, went bankrupt or was jailed;
\* once the game has ended nobody has any right.
OneTurnHolder ==
  /\ Running <=> game.turn \in game.members
  /\ game.hasTurn = {game.turn} \ {NoPlayer}
  /\ game.canRoll \union game.canRollAgain \union game.canBuy \subseteq game.hasTurn

\* A game runs as long as two players are active and ends with the first
\* bankruptcy that leaves one (bankruptPlayer, also called when players leave).
EndsWithOneActive ==
  IF Running THEN \E p, q \in Active(game) : p # q
  ELSE \A p, q \in Active(game) : p = q

\* The debtor of every debt is still playing, and so is its creditor: a
\* bankruptcy or a departure leaves no debt that nobody can settle.
DebtsBetweenActive ==
  Running => \A d \in game.debts : {d.from, d.to} \subseteq Active(game) \union {Bank, Hammer}

\* An auction is sold and not closed exactly while its highest bidder owes the
\* auctioneer (m_auctionDebt), and only he does.
SoldAwaitsPayment ==
  Running => HammerDebts(game) = IF game.auction.open /\ game.auction.status = Sold
                                 THEN {Debt(game.auction.bidder, Hammer)} ELSE {}

\* While the timer of an open auction runs there is a highest bidder who still
\* plays and the estate is not sold, so that auctionTimeout never charges
\* nobody: a timer outlives its auction, but not into the next one.
TimedAuctionHasBidder ==
  auctionTimer /\ game.auction.open =>
    /\ game.auction.bidder \in Active(game)
    /\ game.auction.status # Sold

\* At most one thing at a time holds up the turn: tokens on the move, the tax
\* dialog, an auction or an offer to buy (while nobody loses his connection: his
\* token may survive the move it belongs to).
OnePhase ==
  LET phases == <<game.moving # {}, game.paused, game.auction.open, game.canBuy # {}>>
  IN  \A i, j \in 1..4 : phases[i] /\ phases[j] => i = j

\* Doubles count only within a turn: who waits for his next turn without being
\* bankrupt has a clean count, or his first double there would send him to jail.
DoublesWithinTurn ==
  Running => \A p \in Active(game) : game.doubleCount[p] > 0 => p = game.turn

\* A player in jail knows how many turns he has been there, and has neither
\* rolls nor offers pending (while nobody loses his connection: a stale token may
\* land him on the destination of an old move, which toJail does not clear).
JailTerm ==
  \A p \in game.jailed \intersect Active(game) :
    /\ game.jailCount[p] \in 1..3
    /\ p \notin game.canRoll \union game.canRollAgain \union game.canBuy

\* The turn of a player who stays in the game, out of jail, is not taken away
\* while something is unsettled: tokens, a dialog, an auction, an offer, a debt.
TurnPassesSettled ==
  [][game'.turn \notin {game.turn, NoPlayer} /\ game.turn \in Active(game') \ game'.jailed
     => /\ game'.debts = {}
        /\ ~game'.auction.open
        /\ ~game'.paused
        /\ game'.moving = {}
        /\ game'.canBuy = {}]_vars

\* Turns go round among those who are neither bankrupt nor watching, whoever rolls,
\* lands, is ruined, leaves, times out or is promoted: updateTurn, called from all
\* these places, passes the turn once and to the right player.
Turns == INSTANCE TurnOrder WITH playing <- Active(game), turn <- game.turn,
                                 Everyone <- Players, First <- 1..Seats
TurnsInOrder == Turns!Spec

-----------------------------------------------------------------------------
(* Liveness *)

\* Once somebody has bid, the timer closes the auction or leaves a debt that
\* the bidder must settle, however the others bid, trade, leave or return.
AuctionCloses ==
  game.auction.bidder # NoPlayer ~>
    \/ ~game.auction.open
    \/ game.auction.status = Sold

\* Tokens that a dice roll set in motion come to rest, or the player they move
\* for has lost the turn, even if no client ever confirms.
RolledTokensRest ==
  (game.moving # {} /\ tokenTimer) ~> (game.moving = {} \/ game.turn \notin game.dest)
=============================================================================
