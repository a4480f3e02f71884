------------------------------- MODULE Lobby -------------------------------
(***************************************************************************)
(* Players and games of the server: joining, leaving, kicking, starting,   *)
(* the master, players who lose their connection and the timeouts they     *)
(* leave behind, as operators on one record of objects (MonopdServer,      *)
(* Game, Player).  What happens in a running game is module GameFlow's;    *)
(* here players only go bankrupt and the game ends.                        *)
(*                                                                         *)
(* Objects live in slots of memory that are reused: a pointer to a deleted *)
(* player finds whoever has taken his place.                               *)
(***************************************************************************)
EXTENDS Updates, FiniteSetsExt, SequencesExt

CONSTANTS MaxPlayers,        \* "maxplayers" of the game type
          MinPlayers,        \* "minplayers", at least 2 (loadConfig)
          AllowSpectators,   \* the configuration option
          MaxTimers          \* bound: timeouts of one player queued in one game

ASSUME LobbyAssumption ==
  /\ Fds \subseteq Nat \ {0}
  /\ NoGame \notin Tables /\ 0 \notin Slots
  /\ MinPlayers \in Nat \ {0, 1}
  /\ MaxPlayers \in Nat /\ MinPlayers <= MaxPlayers
  /\ MaxTimers \in Nat

Deleted == [alive |-> FALSE, socket |-> NoFd, identified |-> FALSE, game |-> NoGame,
            spectator |-> FALSE, bankrupt |-> FALSE]
NoTable == [status |-> "none", members |-> <<>>, master |-> 0]

NewWorld == [players |-> [s \in Slots |-> Deleted],
             games   |-> [g \in Tables |-> NoTable],
             timers  |-> [s \in Slots |-> [g \in Tables |-> 0]],
             sockets |-> [f \in Fds |-> "free"],
             views   |-> [f \in Fds |-> {}],
             lists   |-> [f \in Fds |-> {}],
             changed |-> {}]

\* the Sockets by their descriptors.  Those of clients: "ok", and "quit" or "eof" for
\* status Close with and without more lines to handle.  Those to the metaserver:
\* "connect", "registered" for status Ok, "closing" for Close and ConnectFailed
SocketStates == {"free", "ok", "quit", "eof", "connect", "registered", "closing"}

PlayerRecord == [alive : BOOLEAN, socket : Fds \union {NoFd}, identified : BOOLEAN,
                 game : Tables \union {NoGame}, spectator : BOOLEAN, bankrupt : BOOLEAN]
GameRecord   == [status : {"none", "config", "run", "end"}, members : Seq(Slots),
                 master : Slots \union {0}]

World ==
  [players : [Slots -> PlayerRecord],
   games   : [Tables -> GameRecord],
   timers  : [Slots -> [Tables -> 0..MaxTimers]],   \* PlayerTimeout events
   sockets : [Fds -> SocketStates],
   views   : [Fds -> SUBSET Kinds],     \* of what each client has the present values
   lists   : [Fds -> SUBSET Kinds],     \* the players and games that each client lists
   changed : SUBSET Kinds]                          \* the changed flags

FreeSlots(w)  == Slots \ Alive(w)
FreeTables(w) == {g \in Tables : ~Exists(w, g)}

\* those who count as players() of a game, and those still in the race
Seated(w, g) == {s \in Members(w, g) : ~w.players[s].spectator}
Active(w, g) == {s \in Seated(w, g) : ~w.players[s].bankrupt}

-----------------------------------------------------------------------------
(* Games *)

\* bankruptPlayer: his assets go elsewhere, and one active player ends the game
Bankrupt(w, g, s) ==
  LET h == Change([w EXCEPT !.players[s].bankrupt = TRUE],
                  {Seat(s)} \union Visible(w, g))
  IN  IF w.players[s].bankrupt \/ w.players[s].spectator THEN w
      ELSE IF Cardinality(Active(h, g)) = 1
           THEN Change([h EXCEPT !.games[g].status = "end"], {Game(g)})
      ELSE h

\* addPlayer, first: the player who created the game
AddPlayer(w, s, g, watch, first) ==
  LET h == [w EXCEPT !.players[s].game = g, !.players[s].spectator = watch,
                     !.players[s].bankrupt = FALSE,
                     !.games[g].members = Append(@, s)]
      flagged == Change(h, {Person(s), Seat(s), Game(g)})
  IN  IF first THEN [flagged EXCEPT !.games[g].master = s]
      ELSE SendFullUpdate(flagged, s)

\* the first of m_players is the new master, and is told the configuration
NewMaster(w, g) ==
  LET m == w.games[g].members[1]
      h == Change([w EXCEPT !.games[g].master = m], {Game(g)})
  IN  IF w.games[g].status = "config" THEN SendConfiguration(h, m, g) ELSE h

\* a player, who is in m_players once, is erased from it
Without(ms, s) == RemoveAt(ms, CHOOSE i \in DOMAIN ms : ms[i] = s)

\* Mutant of RemovePlayer: the others play on with who left still active
RemovePlayerOnly(w, s) ==
  LET g  == w.players[s].game
      w1 == Change([w EXCEPT !.games[g].members = Without(@, s)],
                   {Game(g)})
      w3 == Change([w1 EXCEPT !.players[s].game = NoGame], {Person(s)})
  IN  IF s = w.games[g].master /\ Members(w3, g) # {} THEN NewMaster(w3, g) ELSE w3

\* Mutant of RemovePlayer: the master stays who he was
RemovePlayerNotMaster(w, s) ==
  LET g  == w.players[s].game
      w1 == Change([w EXCEPT !.games[g].members = Without(@, s)],
                   {Game(g)})
      w2 == IF w.games[g].status = "run" THEN Bankrupt(w1, g, s) ELSE w1
  IN  Change([w2 EXCEPT !.players[s].game = NoGame], {Person(s)})

\* removePlayer
RemovePlayer(w, s) ==
  LET g  == w.players[s].game
      w1 == Change([w EXCEPT !.games[g].members = Without(@, s)],
                   {Game(g)})
      w2 == IF w.games[g].status = "run" THEN Bankrupt(w1, g, s) ELSE w1
      w3 == Change([w2 EXCEPT !.players[s].game = NoGame], {Person(s)})
  IN  IF s = w.games[g].master /\ Members(w3, g) # {} THEN NewMaster(w3, g) ELSE w3

\* Mutant of DelGame: nobody is told
DelGameUntold(w, g) ==
  IF Members(w, g) # {} THEN w
  ELSE Forget([w EXCEPT
                 !.games[g] = NoTable,
                 !.timers = [s \in Slots |-> [@[s] EXCEPT ![g] = 0]]],
              {Game(g), Board(g), Options(g)})

\* delGame of a game without members, with its events
DelGame(w, g) ==
  IF Members(w, g) # {} THEN w
  ELSE Forget([Delete(w, Game(g)) EXCEPT
                 !.games[g] = NoTable,
                 !.timers = [s \in Slots |-> [@[s] EXCEPT ![g] = 0]]],
              {Game(g), Board(g), Options(g)})

\* what the client of a player who is out of the game no longer follows
Unfollow(w, s, g) ==
  LET f == w.players[s].socket
  IN  IF f = NoFd THEN w
      ELSE [w EXCEPT !.views[f] = @ \ ({Board(g), Options(g)} \union {Seat(t) : t \in Slots})]

\* exitGame, with reset
ExitGame(w, s) ==
  LET g == w.players[s].game
      h == DelGame(RemovePlayer(w, s), g)
  IN  Forget([Unfollow(h, s, g) EXCEPT !.players[s].spectator = FALSE,
                                       !.players[s].bankrupt = FALSE],
             {Seat(s)})

\* delPlayer
DelPlayer(w, s) ==
  LET g == w.players[s].game
      h == IF g = NoGame THEN w ELSE DelGame(RemovePlayer(w, s), g)
  IN  Forget([Delete(h, Person(s)) EXCEPT !.players[s] = Deleted], {Person(s), Seat(s)})

\* newGame of a type that loads
NewGame(w, s, g) ==
  LET h == Change([w EXCEPT !.games[g].status = "config"], {Game(g), Options(g)})
  IN  AddPlayer(h, s, g, FALSE, TRUE)

\* joinGame
JoinGame(w, s, g) ==
  IF /\ Cardinality(Seated(w, g)) < MaxPlayers
     /\ w.games[g].status = "config"
  THEN AddPlayer(w, s, g, FALSE, FALSE) ELSE w

\* joinGame of a spectator
WatchGame(w, s, g) ==
  IF AllowSpectators /\ w.games[g].status = "run"
  THEN AddPlayer(w, s, g, TRUE, FALSE) ELSE w

\* start: the players in some order, with turn order, places and money
Start(w, s, order) ==
  LET g == w.players[s].game
      h == Change([w EXCEPT !.games[g].status = "run", !.games[g].members = order],
                  {Game(g)} \union {Seat(t) : t \in Members(w, g)})
  IN  IF /\ s = w.games[g].master /\ w.games[g].status = "config"
         /\ Cardinality(Seated(w, g)) >= MinPlayers
      THEN SendFullUpdates(h, g) ELSE w

\* kickPlayer, then exitGame
Kick(w, s, t) ==
  LET g == w.players[s].game
  IN  IF /\ s = w.games[g].master /\ w.games[g].status = "config"
         /\ t \in Members(w, g)
      THEN ExitGame(w, t) ELSE w

\* upgradePlayer: behind the last player who has a turn order
Promoted(w, ms, t) ==
  LET rest  == Without(ms, t)
      seats == {i \in DOMAIN rest : ~w.players[rest[i]].spectator}
      last  == Max({0} \union seats)
  IN  SubSeq(rest, 1, last) \o <<t>> \o SubSeq(rest, last + 1, Len(rest))

Upgrade(w, s, t) ==
  LET g == w.players[s].game
  IN  IF /\ s = w.games[g].master /\ w.games[g].status = "run"
         /\ Cardinality(Seated(w, g)) < MaxPlayers
         /\ t \in Members(w, g) /\ w.players[t].spectator
      THEN Change([w EXCEPT !.players[t].spectator = FALSE,
                            !.games[g].members = Promoted(w, @, t)],
                  {Game(g), Seat(t)})
      ELSE w

\* editConfiguration
EditConfiguration(w, s) ==
  LET g == w.players[s].game
  IN  IF s = w.games[g].master /\ w.games[g].status = "config"
      THEN Change(w, {Options(g)}) ELSE w

-----------------------------------------------------------------------------
(* Players and their connections *)

\* welcomeNew: all that is public, and nothing about himself
WelcomeNew(w, f, s) ==
  LET h == [w EXCEPT !.sockets[f] = "ok",
                     !.players[s] = [Deleted EXCEPT !.alive = TRUE, !.socket = f]]
  IN  Tell(h, s, Public(w))

\* setPlayerName, which identifies a new player
SetPlayerName(w, s) ==
  Change([w EXCEPT !.players[s].identified = TRUE], {Person(s)})

\* setPlayerImage
SetPlayerImage(w, s) == Change(w, {Person(s)})

\* setGameDescription
SetGameDescription(w, s) ==
  LET g == w.players[s].game
  IN  IF s = w.games[g].master THEN Change(w, {Game(g)}) ELSE w

\* setSocket, which tells everybody the new host
SetSocket(w, s, f) ==
  LET h == [w EXCEPT !.players[s].socket = f]
  IN  IF w.players[s].identified THEN Change(h, {Person(s)}) ELSE h

\* Mutant of ClosedSocket: no timeout
ClosedSocketForGood(w, s) ==
  LET g == w.players[s].game
  IN  IF \/ g = NoGame
         \/ w.games[g].status # "run"
         \/ w.players[s].spectator \/ w.players[s].bankrupt
      THEN DelPlayer(w, s)
      ELSE SetSocket(w, s, NoFd)

\* closedSocket: a running game waits for those who play
ClosedSocket(w, s) ==
  LET g == w.players[s].game
  IN  IF \/ g = NoGame
         \/ w.games[g].status # "run"
         \/ w.players[s].spectator \/ w.players[s].bankrupt
      THEN DelPlayer(w, s)
      ELSE [SetSocket(w, s, NoFd) EXCEPT !.timers[s][g] = @ + 1]

\* the checks of reconnectPlayer: t plays in a running game, and has no connection
MayReconnect(w, t) ==
  /\ t \in Alive(w) /\ w.players[t].identified
  /\ w.players[t].game # NoGame
  /\ w.games[w.players[t].game].status = "run"
  /\ w.players[t].socket = NoFd

\* Mutant of Reconnect: the player who came in stays
ReconnectKeepsBoth(w, s, t) ==
  LET h == SendFullUpdate(SetSocket(w, t, w.players[s].socket), t)
  IN  IF MayReconnect(w, t) THEN h ELSE w

\* reconnectPlayer: t, whose cookie it is, gets the connection of s
Reconnect(w, s, t) ==
  LET h == SendFullUpdate(SetSocket(w, t, w.players[s].socket), t)
  IN  IF MayReconnect(w, t) THEN DelPlayer(SetSocket(h, s, NoFd), s) ELSE w

\* Mutant of PlayerTimeout: the event is deleted twice
PlayerTimeoutTwice(w, s, g) ==
  LET h == [w EXCEPT !.timers[s][g] = @ - 2]
  IN  IF s \in Alive(w) /\ w.players[s].socket = NoFd THEN DelPlayer(h, s) ELSE h

\* a PlayerTimeout event that is due, for the player who is now in the slot
PlayerTimeout(w, s, g) ==
  LET h == [w EXCEPT !.timers[s][g] = @ - 1]
  IN  IF s \in Alive(w) /\ w.players[s].socket = NoFd THEN DelPlayer(h, s) ELSE h
=============================================================================
