# A TLA+ model of monopd

monopd is a server for Monopoly-like games. Clients connect by TCP, identify
themselves, open or join games and then play by one-line commands (`.r` roll,
`.eb` buy, `.E` end the turn, ...). The server is one process and one thread:
`MonopdServer` reads lines, runs the handler of each to its end, sends property
updates, and between two reads fires the events whose time has come. What makes
it hard is not parallel code but the order of things: any client may speak,
fall silent, leave, lose its connection or come back between any two commands,
and half a dozen independent pauses (tokens on the move, a tax dialog, debts, an
auction, an offer, jail) decide who may do what.

Paths below are relative to the root of the repository; `game.cpp` stands for
`src/game.cpp` and so on.

## 1. Inventory

| Component | State it keeps | Operations | What makes it correct |
|---|---|---|---|
| Game flow (`game.cpp`, `player.cpp`, `auction.cpp`, `debt.cpp`, the gate in `server.cpp` `processInput`) | status, `m_pTurn`, per player `hasturn`, `can_roll`, `canrollagain`, `can_buyestate`, `jailed`, `jailcount`, `doublecount`, `bankrupt`, `spectator`, token location and destination, `m_pausedForDialog`, `m_auction`, `m_auctionDebt`, `m_debts` | roll, move, land, buy, auction, pay tax, jail, settle, go bankrupt, leave, reconnect, watch, promote | one turn holder; the turn passes only when everything is settled; debts among active players; sold auctions get paid; the game ends with one active player; nothing waits for ever |
| Real estate (`player.cpp`, `estate.cpp`, `estategroup.cpp`) | owner, houses, mortgage per estate; stock of houses and hotels | buy, sell, mortgage, sell estate, transfer at bankruptcy | stock conserved, no houses on mortgaged groups, the bank's estates bare |
| Trade (`trade.cpp`, `tradecomponent.cpp`) | components, revision, accept flags | new, update, accept, reject, complete | what completes is what everybody accepted |
| Cards (`card.cpp`, `cardgroup.cpp`, `giveCard`) | decks, owned cards | draw, shuffle, own, use, return | a card is in one place; payments to or from all are fair |
| Events (`event.cpp`, `processEvents`) | list of timed events | create, find, fire, rearm, delete | each timer fires for what it was set for |
| Lobby (`server.cpp`, `addPlayer`, `kickPlayer`) | players, games, master, `canbejoined` | new, join, watch, configure, start, kick, delete | no empty game; the master is a member; full games are not joinable |
| Connections (`listener.cpp`, `listenport.cpp`, `socket.cpp`) | sockets, status, input and output buffers | accept, connect, read lines, write, close | lines in order, output complete and in order, one close per socket |
| Property updates (`gameobject.cpp`, `gameproperty.cpp`, `sendXMLUpdates`) | values, changed flags, scopes | set, scope, send, clear | a client in scope learns the last value |
| Metaserver registration | busy flag, events | register, time out | one registration at a time |
| Display history, templates, configuration files | texts, buttons, options | show, parse | no decision of the game depends on them |

How they interact: `Listener` calls `MonopdServer` when a line or a close
arrives; `processInput` checks a cascade of conditions (the gate) and calls one
method of `Game` or `Player`; these call each other in both directions
(`Player::endTurn` calls `Game::updateTurn`, which calls `Player::setTurn`);
`Game` asks the server for nothing, but the server sets timers after some
commands (`.r`, `.ab`, a lost connection) and removes them after others (`.ea`,
the last `.t`). Everything shared is reached by pointers in the one thread.

The behaviours that are hard to test are listed one by one, at their lines, in
`PROJECT.json` under `hazards`, with the properties that catch them.

## 2. Modules

| Module | Content |
|---|---|
| `TurnOrder` | what a game promises about its turns: round the table, skipping nobody, to the end |
| `GameFlow` | the control flow of one running game: state, operators for the methods of `Game` and `Player`, one action per command or event |
| `MCGameFlow` | `GameFlow` for TLC, with four claims of comments and release notes that the code does not keep |
| `GameFlowProofs`, `GameFlowTurnProofs`, `GameFlowOrderProofs` | the inductive invariant of `GameFlow`, the theorems about its states and its steps, and that it implements `TurnOrder`, checked by TLAPS |
| `GameFlowPhaseProofs` | that doubles count within a turn only, that the pauses of a turn exclude each other, and what a player in jail may do |
| `Assets` | what the players own and how it changes hands: estates, houses, mortgages, cards, trades, bankruptcies |
| `MCAssets` | `Assets` for TLC, with one claim of the release notes that the code does not keep |
| `AssetsProofs` | the inductive invariant of `Assets` and its theorems, checked by TLAPS |
| `Updates` | changed flags, scopes and what has been written to which client, as operators |
| `Lobby` | players and games of the server: join, leave, kick, start, reconnect, time out, as operators |
| `Server` | the process: connections, lines, events and the metaserver, acting on the objects of `Lobby` |
| `LobbyProofs` | what the operators of `Lobby` and `Updates` make of good objects, a lemma per operator |
| `ServerProofs` | the inductive invariant of `Server` and its theorems about players, sockets, games and events |
| `ServerViewsProofs` | that every client is told all it should know, and nothing that is gone |
| `MCServer` | `Server` for TLC |

`Server` extends `Lobby`, which extends `Updates`: a handler is an operator of `Lobby` from
one record of objects to the next, every change in it flags items of `Updates`, and the
action of `Server` that calls it ends with `SendXMLUpdates`, as `processInput` does.
`GameFlow` is the inside of one game that `Lobby` only knows as `Play` and `Ruin`, and
`Assets` is what `GameFlow` abstracts from a payment, a sale and a trade. The three views
share no variables, since each leaves free what the others decide: `Assets` lets a landing
or a payment happen at any time, `GameFlow` lets a payment turn out any way, and `Server` lets
any active player go broke.

Operators whose comment starts with "Mutant of" are wrong forms of the operator below them
that a slip in the code would produce; they show which property would notice.

### GameFlow

The state is one record, `game`, whose fields are sets of players (those whose
Boolean property is true), two counters per player, `m_pTurn`, the auction and
the set of debts. Two Booleans say whether a `TokenMovementTimeout`
or an `AuctionTimeout` event is queued; `charges` holds the players a card has still
to charge. It is a record because the methods of
the code call each other several levels deep and back: `BuyEstate` calls
`EndTurn`, which calls `UpdateTurn`; `Bankrupt` may end the game, pass the turn
or end it. Each method is an operator from record to record (`UpdateTurn`,
`EndTurn`, `Bankrupt`, `NewDebt`, `SolveDebts`, `ToJail`, `RemovePlayer`) or to
the set of possible outcomes (`Landings`, `Arrivals`), and an action is the
whole handler: gate, method and everything the method calls.

| Action | Code |
|---|---|
| `Roll`, `JailRollDoubles`, `JailRollMissed`, `LeaveJail` | `Player::rollDice`, `rollJail`, `payJail`, `useJailCard` |
| `BuyEstate`, `NewAuction`, `EndTurnAsked`, `PayTax` | `buyEstate`, `Game::newAuction`, `endTurn(true)`, `payTax` |
| `ConfirmToken`, `TokenTimeout` | `.t` with `setTokenLocation`, `tokenMovementTimeout` |
| `Bid`, `AuctionTimeout` | `bidInAuction`, `auctionTimeout` with the event it rearms |
| `Charge` | one round of the loop of `giveCard` over the players a card collects from |
| `Settle`, `DeclareBankrupt`, `CompleteTrade` | `solveDebts` from `.p`, `.es` and `.em`; `.D`; `completeTrade` |
| `Leave`, `Disconnect`, `Reconnect`, `PlayerTimeout`, `Watch`, `Upgrade` | `exitGame`, `closedSocket`, `reconnectPlayer`, the event, `joinGame` as spectator, `upgradePlayer` |

The operators `MayCommand`, `MayDecide`, `MayBid` and `MayPlay` are the cascade
of early returns in `processInput`, from the most permissive to the strictest.

What is abstracted, and how:

- **Money.** `payMoney` succeeds or fails; when it fails `newDebt` compares the
  amount with all assets. So a charge is paid, becomes a debt, or ruins the
  payer, whichever is chosen nondeterministically. Debts are a set of pairs of
  debtor and creditor: two debts of one player to the same creditor count as
  one. `solveDebts` may then settle any subset of a player's debts, which
  includes every prefix of the real list.
- **The board.** A landing has one of the outcomes the code has a branch for:
  nothing left to do, an offer, the tax dialog, jail, a debt to the bank or to
  an owner, debts to everybody. A card that moves the player on lands him again
  at once and ends in one of the same outcomes. The board has a jail.
- **Tokens.** A client's token is on the move or not; a `.t` that names an
  estate on the way changes nothing the game depends on.
- **Players** are numbers in the order of `m_players`, and the number of a
  spectator is his seat once he is promoted, after the seats in use. Spectators
  differ in nothing but their number, so the first is promoted. Who the master is
  does not matter to the game, only that somebody connected may promote.
- **Timers** have no durations. A pending event may fire at any later moment, and
  the timeout of an absent player may fire whenever he is absent. Every real
  schedule is one of these.
- **Trades** have two parties, and only their completion touches the flow of the
  game: money the payer no longer has becomes a debt. What else happens in a
  trade, and the case in which the payer is ruined while the trade completes, is in
  `Assets`.
- **Cards.** A card that collects from every other player is drawn in the landing
  (`Collects`) and then takes one step, `Charge`, per player in the order of `m_players`: he pays,
  owes or is ruined, and the turn or the game may end there while the loop goes on. No
  command and no event comes in between; `endTurn` follows the last round. A later
  round may thus leave a debt in a game whose turn has passed in an earlier one, which is
  why `TurnPassesSettled` is a property of steps. A debt to everybody of
  which a part exceeds all assets ruins the debtor at its first creditor, as one debt does.

`TurnOrder` knows the seats that play and the seat that has the turn. The mapping is in
`GameFlow`: those who play are the active players, and the turn is `m_pTurn`, or nobody's
once the game has ended. A step of `GameFlow` is a `Pass`, a `DropOut` with or without the
turn moving on, a `TakeSeat` (a promoted spectator) or no step at all.

### Assets

Estates, houses, mortgages and the stock are functions and sets as in the code; the
decks are one sequence of cards; debts are numbered in the order of `m_debts`, which
decides who inherits; a trade is its parties, its components and the accept flags.

| Action | Code |
|---|---|
| `AcquireEstate`, `SellEstate`, `Mortgage`, `Unmortgage` | `.eb` or an auction won, `.es`, `.em` |
| `BuyHouse`, `SellHouse` | `.hb`, `.hs` with the limits of the group and of the stock |
| `Owe`, `Settle`, `Quit` | `newDebt` from a landing, `solveDebts`, `bankruptPlayer` |
| `DrawCard`, `Charge`, `UseCard` | `giveCard` and its loops, `.jc` |
| `NewTrade`, `SetObject`, `SetMoney`, `AcceptTrade`, `RejectTrade` | `.Tn`, `.Te` and `.Tc`, `.Tm`, `.Ta`, `.Tr` |
| `CompleteObject`, `CompleteMoney`, `CompleteTrade` | `completeTrade`, one step per component |

`completeTrade` and the charging loop are several steps, because a bankruptcy in the
middle changes what the loop still works on; nothing else happens in between (`Idle`).
When the payer of a money component is ruined, `bankruptPlayer` deletes the trade that
`completeTrade` is holding. What it does with it afterwards is undefined, so the model sets
`dangling` and stops there.

Abstracted: amounts of money (a payment succeeds, becomes a debt or ruins the payer);
the turn (a landing, a rent or a card can come at any time); the order of the components
of a trade and of the cards of one player; the revision number of a trade (an accept with an old
one does nothing). Negative amounts in a trade are not covered. The options
`unlimitedhouses`, `alwaysshuffle` and `allowestatesales` are constants. The model stops when
one player is left. Even building is not claimed: `canBuyHouses` compares with the group
and the model translates it, but houses that were spread unevenly stay so.

### Updates, Lobby, Server

The world is a record `w`: players and games in slots of memory, the `PlayerTimeout`
events of each player and game, the sockets, the changed flags, and two views per
connection: of which items the client has the present values, and which players and
games it lists. Slots are reused after a deletion, so the pointer in an old event finds
whoever is there now; file descriptors are reused lowest first, as the kernel does, and
the metaserver session takes one of them.

| Action | Code |
|---|---|
| `SetName`, `SetImage`, `Create`, `Join`, `Watch`, `Exit`, `KickPlayer`, `UpgradePlayer`, `Configure`, `Describe`, `StartGame`, `FullUpdate`, `ReconnectPlayer`, `Quit` | the branches of `processInput` outside the game: `.n`, `.pi`, `.gn`, `.gj`, `.gS`, `.gx`, `.gk`, `.gu`, `.gc`, `.gd`, `.gs`, `.f`, `.R`, `.d` |
| `Play`, `Ruin` | all other commands and events of a running game, as seen from outside |
| `Accept`, `Eof`, `WriteFails`, `CloseSocket` | `acceptSocket`, a failed read or write, `checkActivity` on a socket to be closed |
| `LineBehind` | a line on a socket with status `Close` |
| `PlayerTimesOut`, `SocketTimeout` | `processEvents` |
| `RegisterMetaserver`, `MetaserverConnected`, `NextAddress`, `MetaserverFails`, `ClosedMetaserver` | the registration |

Abstracted: the properties of one object with one scope are one item, flagged and sent
together; what is written counts as received; events have no durations, except that a
registration starts only when the `SocketTimeout` of the last one, due after 100
ms where registrations are minutes apart, has fired. The board of a game is not known
to anybody before the start, and the configuration is not resent to those who join
later, as in the code. `Unfollow` is what a client does, not code of the server. A `.gn` of a type that
cannot be loaded changes nothing. The chat and the list of templates have no state.

## 3. Runs

Deadlock is not checked: a game ends, and a crash stops the server.

| Run | Bounds | Shows | States |
|---|---|---|---|
| `leavers` | 3 players, all may leave, bids up to 1, no trades | `TypeOK`, `OneTurnHolder`, `EndsWithOneActive`, `TimedAuctionHasBidder`, `SoldAwaitsPayment`, `OnePhase`, `DoublesWithinTurn`, `JailTerm`, `TurnPassesSettled`, `TurnsInOrder` | 764064 |
| `trades` | 3 players, 1 and 2 trade, no auctions, nobody leaves | `DebtsBetweenActive`, `TurnPassesSettled` | 393309 |
| `timers` | 2 players, both trade and lose connections, 1 may leave, bids up to 2, fair timers | `SoldAwaitsPayment`, `AuctionCloses`, `RolledTokensRest` | 76470 |
| `building` | 3 players, a group of 2 estates, 8 houses, 1 hotel, 1 debt, a trade of 1 component | `TypeOK`, `StockConserved`, `NoMortgageUnderBuildings`, `BankOwnsBareEstates` | 21921 |
| `barter` | 3 players, 1 estate, 2 cards of which one can be kept, shuffled, 1 debt, a trade of 2 components | `OwnersPlay`, `ComponentsFromOwners`, `CardsInOnePlace`, `TakenByConsent`, `AcceptedTermsOnlyShrink` | 266540 |
| `server` | 2 descriptors, 3 player slots, 2 game slots, 2 to 3 players a game, 2 timeouts per player and game | `TypeOK`, `SocketsHavePlayers`, `AbsentIsTimed`, `SeatsAgree`, `RunningHasTwo`, `BusyMeansSocket`, `ClientsUpToDate`, `NoGhosts` | 227849 |
| `bankrupt_turn` | 3 players, 2 and 3 trade | violated: `BankruptTurnEnds` | |
| `cut_move` | 3 players, 2 and 3 may leave | violated: `MovesAreCompleted` | |
| `stale_token` | 3 players, 1 may leave, 2 may lose his connection | violated: `TokensFollowTurn` | |
| `jail_move` | 2 players, fair timers | violated: `TokensRest` | |
| `stale_accept` | 3 players, 1 estate, 2 cards, a trade of 1 component | violated: `AnyChangeResetsAccepts` | |

**Bounds of the game.** Two players are the least a game runs with and the third makes the
game outlive a bankruptcy; it also gives every pair of debtor and creditor a
bystander, who may be the turn holder. `MaxBid` bounds what anybody can bid: one
bid is enough for a sale, two for an auction whose countdown is restarted.
`Quitters`, `Droppers` and `Traders` restrict who may leave, be cut off, or
trade; they keep the runs small and are left open in the proofs. Trades multiply the debts,
and lost connections the tokens, so each has a run of its own: `trades` leaves out the
auctions, which also lets `.E` pass an offer, and `timers` has two players.

**Bounds of the assets.** Two estates make a group on which one can be mortgaged and the
other built on; with eight houses and one hotel both the houses and the hotel run out.
(That a hotel cannot be sold for lack of four houses needs more estates and is not
reached.) `MaxDebts` bounds the debts open at a time, `MaxComps` the components of a trade: two
are an exchange. The runs have one trade at a time; the theorems hold for any number. Players, trades and the estates of a group are
interchangeable, and no liveness is checked, so symmetry is sound.

**Bounds of the server.** Two descriptors and three slots are enough for a player who is
absent, one who plays on, and one who takes over a connection or a slot, and for a
metaserver session that competes for a descriptor; two games for a player who moves
on while events of the first are pending; two timeouts per player and game for one who drops,
returns and drops again before the first is due. A larger instance was checked once and
also passes: three descriptors and one game (664020 states).

**Fairness.** `FairSpec` of `GameFlow` assumes weak fairness of `TokenTimeout`,
`AuctionTimeout` and `Charge` alone: `processEvents` runs after every `select`, whose timeout is
the time left to the next event, and fires every event that is due; a loop within
a handler goes on. No client is assumed to do anything. That is why
`RolledTokensRest` promises rest only for tokens set in motion with a timer, and
`AuctionCloses` starts with the first bid. `Assets` and `Server` state no fairness. That an
absent player is removed in the end is not checked as liveness; `AbsentIsTimed` says that
the event that removes him is always pending.

**What the properties say.** `OneTurnHolder` and `TurnPassesSettled` are the two
halves of a fair game: the rights are where the turn is, and the turn moves on only
when tokens, dialog, auction, offers and debts are done, except from a player who
goes to jail or out of the game. `TurnsInOrder` adds where it moves: a step that removes
a player and passes the turn still passes it once and to his successor. `OnePhase` says that the pauses the gate tests
one after the other exclude each other, so their order in the gate does not
matter. `DebtsBetweenActive` and `SoldAwaitsPayment` say that a pause can end: whoever
owes can still pay, and an unpaid sale has its debt; that debts survive departures too is
shown by the theorem, as nobody leaves in the run `trades`. `DoublesWithinTurn` says that
the count that sends a player to jail is a count of this turn. `JailTerm` and `OnePhase` are stated
for games in which nobody loses his connection, though anybody may leave: a token whose client
is cut off survives the move it belongs to (section 4), and when it arrives in a later turn, the
turn holder is landed on the destination of an old move of his, in jail or with an offer open.

`ComponentsFromOwners`, `TakenByConsent` and `AcceptedTermsOnlyShrink` together say what a
trade is worth in this code: it never offers what is not there, and nobody loses anything in it
that he did not put up with his accept, but what he accepted may have lost a component
since, his own gain included (section 4). `OwnersPlay` is what the pointers need:
no estate, card, trade or debt of a running game names a player who is out of it.

`SocketsHavePlayers`, `AbsentIsTimed`, `SeatsAgree` and `BusyMeansSocket` are the
assumptions under which handlers use the results of `findPlayer`, `player->game()`, `m_master` and
`m_metaserverBusy` without a test. `ClientsUpToDate` is stated at the end of every
handler: whatever a client has missed while it was elsewhere or cut off, what is in its
scope now is what it has been told last.

## 4. Where the code does not do what its comments say

- **The dice go to a bankrupt** (`bankrupt_turn`). A turn holder who rolled
  doubles lands and goes broke while somebody else's trade debt is open.
  `bankruptPlayer` returns before it passes the turn (game.cpp:2106). When the other
  debt is paid, `solveDebts` calls `endTurn` of the bankrupt, who gets `can_roll`
  for his double; his bankruptcy refuses every command, and the game waits for him.
- **A move without a landing** (`cut_move`). When the player whose client was the last
  to animate a move leaves, who need not be the mover, `removePlayer` erases him, and `bankruptPlayer`
  calls `endTurn` for the mover, who has not landed and never will: the turn passes or, after a
  double, he rolls again from where he started.
- **A token that outlives its move** (`stale_token`). `setAllClientsMoving(0)` skips
  players without a socket. The token of a client that was cut off stops
  the next turn holder, and neither a confirmation nor the timer can clear it,
  as he has no destination.
- **No timer behind `.jr`** (`jail_move`). A double that leaves jail moves the tokens
  without the timer that `.r` sets.
- **Accepted, then changed** (`stale_accept`). When an object changes hands outside a trade, say because
  its owner sells it to the bank, `Trade::delComponent`
  erases its component and raises the revision, but the accept flags stay (trade.cpp:176),
  where the release notes promise a reset "upon any change" (NEWS:747). If the others had accepted an
  exchange, the last accept completes a gift. `AcceptedTermsOnlyShrink` shows that this is all
  that can happen.

Two more outcomes are undefined in C++ and end the behaviour in the models:

- **The ruin of a payer deletes the trade that is completing** (`dangling` in `Assets`). `newDebt` inside
  `completeTrade` (game.cpp:1082) may call `bankruptPlayer`, which rejects and deletes every
  trade of the bankrupt, this one included; the loop goes on with it. TLC reaches the state
  (`CompletesLiveTrade` in `MCAssets` states that it does not).
- **A line behind the last one** (`Crash` in `Server`). A socket marked to be closed, by `.d` or by a failed
  write, may have more lines in its buffer. `checkActivity` hands each to `socketHandler`, which
  takes it for the end of the connection (listener.cpp:216); `closedSocket` then runs twice
  for one socket, and the second time `findPlayer` returns NULL, which server.cpp:431 follows.

A third one goes on. A `PlayerTimeout` outlives a player who is deleted otherwise, say after he
moved on to another game, and `processEvents` then reads the id of the deleted
object (server.cpp:538). The model lets it find what a stale or reused object of that size
holds, the old id, which is nobody's any more, or the id of the player who has the slot now;
it leaves out that the memory may hold the id of something else.

Other things the models contain and no property forbids: a `PlayerTimeout` of an earlier
disconnection that removes a player early; a `SocketTimeout` that closes a
connection which has got the descriptor of the metaserver session; and houses that change owner.
`updateObject` refuses an estate of a group with buildings (player.cpp:840), but nothing looks
again when the trade completes: an estate that is in a trade can be built on and handed
over with its houses. `StockConserved`, `NoMortgageUnderBuildings` and `BankOwnsBareEstates` hold in spite of it.

## 5. Proofs

The four modules about `GameFlow` prove for every number of players and seats, every bound on bids and
every choice of who trades, leaves or drops (for the last two: of who trades or leaves, and nobody drops):

| Theorem | Property |
|---|---|
| `TypeCorrect` | `TypeOK` |
| `OneHolder` | `OneTurnHolder` |
| `RunsWhileTwoPlay` | `EndsWithOneActive` |
| `DebtsAreSettled` | `DebtsBetweenActive` |
| `SalesArePaid` | `SoldAwaitsPayment` |
| `TimersHaveBidders` | `TimedAuctionHasBidder` |
| `TurnsPassSettled` | `TurnPassesSettled` |
| `TurnsGoRound` | `TurnsInOrder`, the specification of `TurnOrder` |
| `DoublesEndWithTurn` | `DoublesWithinTurn` |
| `OnePhaseAtATime`, where `Droppers = {}` | `OnePhase` |
| `JailedHaveNoRights`, where `Droppers = {}` | `JailTerm` |

and `AssetsProofs` for every number of players, groups, cards and trades, and every setting of the options:

| Theorem | Property |
|---|---|
| `TypeCorrect` | `TypeOK` |
| `EveryOwnerPlays` | `OwnersPlay` |
| `StockIsConserved` | `StockConserved` |
| `MortgagesAreBare` | `NoMortgageUnderBuildings` |
| `BankEstatesAreBare` | `BankOwnsBareEstates` |
| `TradesAreHonest` | `ComponentsFromOwners` |
| `CardsAreConserved` | `CardsInOnePlace` |
| `NothingWithoutConsent` | `TakenByConsent` |
| `AcceptedTermsShrink` | `AcceptedTermsOnlyShrink` |

and `ServerProofs` and `ServerViewsProofs`, on the lemmas of `LobbyProofs`, for every number of
player slots, games, descriptors and pending timeouts:

| Theorem | Property |
|---|---|
| `TypeCorrect` | `TypeOK` |
| `EverySocketHasAPlayer` | `SocketsHavePlayers` |
| `AbsentAreTimed` | `AbsentIsTimed` |
| `SeatsAlwaysAgree` | `SeatsAgree` |
| `RunningAlwaysHasTwo` | `RunningHasTwo` |
| `BusyAlwaysMeansSocket` | `BusyMeansSocket` |
| `ClientsAlwaysUpToDate` | `ClientsUpToDate` |
| `NeverGhosts` | `NoGhosts` |

The only assumptions are `ConstantsAssumption` of `GameFlow` (there are at least two seats,
and the bounds are numbers), `AssetsAssumption` of `Assets` (groups are disjoint, there are finitely many
estates and cards, kinds of objects are told apart) and `LobbyAssumption` of `Lobby` (slots and descriptors are numbers, 0 is
none of them, a game needs at least two players, which `loadConfig` enforces at game.cpp:288-289, and
takes no fewer than it needs).

**GameFlow.** The invariant `IInv` says that the record is `Good` and that the timer of an open
auction has a bidder and an unsold estate. `Good` strengthens the properties where
they do not support each other as they stand: a game in progress needs two active
players for `updateTurn` to find one at all (and another one than a turn holder who
leaves), a bidder must be active for the debt of a sale to be between active players,
and a closed auction must be the initial one for the next to start clean. Since
methods call methods, the argument follows them: a lemma per operator says that it
takes a good game to a good game and leaves the auction alone or closes it; a lemma
per action puts these together. Two operators are used on a game that is not quite
good, and their lemmas say so: `Bankrupt` is called by `removePlayer` for a player who is
no longer a member (`BankruptGood` allows his debts and bids and no others), and a sale
sets the auction to sold before the debt exists (`AuctionTimeoutGood`).

`TurnsPassSettled` is about steps. Several operators within one step can pass the turn,
one after the other, so the argument compares each intermediate record with the player
who had the turn when the step began: `Fair(t, h)` says that `h` is an acceptable
outcome for him. Every operator keeps it, because `endTurn` tests what a settled game
is, because `bankruptPlayer` passes on the turn of the bankrupt alone, and because
`solveDebts`, called for the second party of a trade, finds no debt once the turn has
passed.

`TurnsGoRound` is the refinement. Here the question is why a handler that calls `updateTurn` or
`endTurn` several times passes the turn only once. The answer is what the next turn holder gets with
the turn: he may roll, or he is in jail (`Fresh`), and both make a later `endTurn` of the same step
return without passing anything. `Goes(t, A, h)` says that the record h is what may become of a turn of t
among the players A: the same players or one less, with the turn still at t or passed to his successor
and fresh, or ended with the game. The order of the steps of `removePlayer` needs its own argument: the
turn is passed first, among players who still include the one who leaves, and he is ruined afterwards;
the successor is the same without him, because a game in progress has somebody else
(`SuccessorOther`), and `bankruptPlayer` then finds that he does not have the turn. A
promoted spectator takes the last seat because spectators sit behind all others (`SpectatorsBehind`).

While a card collects, `Charging` says of those who are still to be charged that they play
and that the one it collects for is another: a debt is only made between active players,
although the loop reads the list of players after bankruptcies in its earlier rounds.

`DoublesEndWithTurn` needs to know why a turn never ends on a double. `Rests(g, x)` says that who counts
doubles has the turn and the right to roll, at once or after his move, and that nobody in jail counts
any; `endTurn` then gives the dice back to him instead of passing the turn, and only jail, a
bankruptcy or a departure takes the turn from him. Jail clears the count and a bankrupt is not asked;
the departing player x is exempt because `removePlayer` passes his turn before it forgets him.

`OnePhaseAtATime` and `JailedHaveNoRights` share the invariant `Quiet`: the pauses exclude each other
(`Single`), who is in jail has a term and no rights (`Cells`), tokens are those of members, all of whom have
a connection, and nothing moves for a turn holder in jail. `Single` is not inductive alone: a landing opens
an auction, a dialog or an offer, so it must be known that nothing else was open while tokens moved,
and that `removePlayer` stops all tokens before the turn passes. This last point is where the lost
connections enter (`RemovePlayerQuiet`): `setAllClientsMoving(0)` skips those without a socket. While a
card collects, no token moves (`Phases`).

**Assets.** `IInv` is `Core /\ Loops`. `Core` is the conjunction of the invariants themselves with
what supports them: components also have two different sides, debts have two sides that play, and the
deck is a sequence. `Loops` says what a loop in progress relies on: the trade that is completing was
accepted by all its parties, and no card charges anybody meanwhile. The hard case is
`BankruptCore`, in which everything of a player moves at once: his trades are closed and what he loses
leaves the others', so an honest trade stays honest; the cards of the bankrupt, in any order, are put
behind a deck they were not in (`CardsReturned`). `OneTradeCore` and `WithoutHonest` say what every trade command
leaves alone. The two action properties follow per action: an owner changes only by purchase,
by `Bankrupt`, whose old owner is out, or in `CompleteObject`, where `Loops` provides the accept.

`StockIsConserved` is about a sum over the estates, which TLA+ defines by recursion over a set. `SumCounts`
shows that the sum is the number of houses counted one by one (`Floors`): the count satisfies the recursion,
and two functions that satisfy it are equal, as there is no smallest set on which they differ. After that
the proof is about cardinalities: a purchase or a sale changes one estate (`OneEstateChanged`), and
breaking up a hotel exchanges four houses of the stock; a bankruptcy empties a part of the city at once
(`EstatesEmptied`), where `StockFreed` must count the houses before they are torn down. `Counted`, which adds
the types of stock, debts and charges, is kept beside `IInv`.

**Server.** The invariant is `Sound`, the conjunction of what the objects promise (`Ready`), what the
connections promise (`Wired`: no connection has two players, and one that is read from has one) and
what the metaserver promises (`Registered`: one session exactly while the busy flag is set). `Ready` says that
every game lists its players and has a master among them, that an absent player has his timeout
pending, and that nobody is bankrupt before the start, without which `start` would not find two active
players. A departure takes several calls, and between them a player without a connection may have no
game either; `ReadyBut(v, s)` is the invariant with that exception, and the lemmas of `LobbyProofs`
say which operator keeps which of the two.

`ClientsUpToDate` is about what was written, so it needs the handlers once more. `Told` adds to
`Sound` that nothing is flagged any more and that all clients are `Informed`: every open connection
has a player who is told things (`Attended`), of every item in his scope his client has the present values or
the item is flagged as changed (`Fresh`), no list or flag names what is gone (`Ghostless`), and nothing is
listed where nothing is written (`Silent`). These hold between any two calls of a handler, flags included.
`Tells(v, h, lost, gained)` says of an operator which items may change without being flagged and which may be listed
anew. `SendXMLUpdates` then turns every flagged item into a known one,
because whatever is due to a client has him in its scope and no two players share his connection. The hard
case is `Reconnect`: the connection passes from the player it was accepted with to another, and only the
full update that follows makes its views true. A deletion reaches all lists because every open
connection is attended when it happens.

Not proved: liveness (`WF_` and `~>`), which stays with TLC, as TLAPS cannot reason about ENABLED.

## 6. Plan

What is left: the buffered output of a socket against the writes of the handlers, and the durations
of events.

## 7. Not modelled

- Chat, names, images, descriptions and display texts; XML formatting; parsing of commands, of game
  templates and of the configuration; the systemd and syslog interface. They decide nothing in a game.
- Buffered output (`Socket::ioWrite` when the kernel takes less): what is written
  counts as received, in order. A client that reads slowly is like one that is told later.
- `canbejoined`, which clients show and no handler reads. Its comparison with `maxplayers` as a
  Boolean (game.cpp:1392) is listed as a hazard.
- Amounts of money: prices, rents, assets; so whether an offer can be auctioned at
  all when nobody has any (game.cpp:1861), and negative amounts in a trade (game.cpp:1075).
- Estates after the end of a game: `removePlayer` hands over nothing then (game.cpp:1462), and the estates
  keep a pointer to a player who may be deleted.
- Durations: a pending event may fire at any time.
