------------------------------- MODULE Server -------------------------------
(***************************************************************************)
(* The server process (MonopdServer, Listener, Socket): connections that   *)
(* open, fail and close, the lines of the clients, the timeouts, and the   *)
(* registration with the metaserver, acting on the objects of module       *)
(* Lobby.                                                                  *)
(*                                                                         *)
(* One thread handles one line, one closed socket or one event after the   *)
(* other, in any order here.  Every handler ends with sendXMLUpdates.      *)
(***************************************************************************)
EXTENDS Lobby

VARIABLES w,              \* players, games, sockets and what the clients know
          socketTimeouts, \* descriptors that SocketTimeout events name
          busy,           \* m_metaserverBusy
          crashed         \* a null pointer was followed

vars == <<w, socketTimeouts, busy, crashed>>

Init ==
  /\ w = NewWorld
  /\ socketTimeouts = {}
  /\ busy = FALSE
  /\ crashed = FALSE

\* whom findPlayer(socket) can find
PlayersOn(f) == {s \in Alive(w) : w.players[s].socket = f}
FreeFds      == {f \in Fds : w.sockets[f] = "free"}

\* players whose lines are handled
Online == {s \in Alive(w) : w.players[s].socket # NoFd /\ w.sockets[w.players[s].socket] = "ok"}
Loungers == {s \in Online : w.players[s].identified /\ w.players[s].game = NoGame}
Gamers   == {s \in Online : w.players[s].game # NoGame}

\* setStatus; what is not written any more is not known any more
SetStatus(v, f, status) ==
  [v EXCEPT !.sockets[f] = status, !.views[f] = {}, !.lists[f] = {}]

\* connectSocket, with the lowest descriptor there is
ConnectSocket(v) == SetStatus(v, Min(FreeFds), "connect")

\* delSocket
DelSocket(v, f) == SetStatus(v, f, "free")

\* a handler leaves the objects so, and the clients are told
Handle(v) ==
  /\ ~crashed
  /\ w' = SendXMLUpdates(v)
  /\ UNCHANGED <<socketTimeouts, busy, crashed>>

-----------------------------------------------------------------------------
(* Lines of clients *)

SetName == \E s \in Online : Handle(SetPlayerName(w, s))

SetImage == \E s \in {t \in Online : w.players[t].identified} : Handle(SetPlayerImage(w, s))

Create == \E s \in Loungers, g \in FreeTables(w) : Handle(NewGame(w, s, g))

Join == \E s \in Loungers, g \in Tables \ FreeTables(w) : Handle(JoinGame(w, s, g))

Watch == \E s \in Loungers, g \in Tables \ FreeTables(w) : Handle(WatchGame(w, s, g))

Exit == \E s \in Gamers : Handle(ExitGame(w, s))

KickPlayer == \E s \in Gamers, t \in Slots : Handle(Kick(w, s, t))

UpgradePlayer == \E s \in Gamers, t \in Slots : Handle(Upgrade(w, s, t))

Configure == \E s \in Gamers : Handle(EditConfiguration(w, s))

Describe == \E s \in Gamers : Handle(SetGameDescription(w, s))

StartGame ==
  \E s \in Gamers : \E order \in SetToSeqs(Members(w, w.players[s].game)) :
    Handle(Start(w, s, order))

\* .f
FullUpdate == \E s \in Gamers : Handle(SendFullUpdate(w, s))

\* whatever is done in a running game, by whomever, may change all that is seen of it
Play ==
  \E g \in Tables :
    /\ w.games[g].status = "run"
    /\ Handle(Change(w, Visible(w, g)))

\* and may bankrupt a player
Ruin ==
  \E g \in Tables : \E s \in Active(w, g) :
    /\ w.games[g].status = "run"
    /\ Handle(Bankrupt(w, g, s))

ReconnectPlayer ==
  \E s \in Online, t \in Slots :
    /\ w.players[s].game = NoGame
    /\ Handle(Reconnect(w, s, t))

\* .d: the socket is closed later, other lines may come first
Quit ==
  \E s \in Online :
    LET h == IF w.players[s].game = NoGame THEN w ELSE ExitGame(w, s)
    IN  Handle(SetStatus(h, w.players[s].socket, "quit"))

-----------------------------------------------------------------------------
(* Connections *)

\* acceptSocket, with the lowest descriptor there is
Accept ==
  /\ ~crashed
  /\ FreeFds # {}
  /\ \E s \in FreeSlots(w) : w' = WelcomeNew(w, Min(FreeFds), s)
  /\ UNCHANGED <<socketTimeouts, busy, crashed>>

\* read finds the connection closed; no line follows
Eof ==
  \E f \in Fds :
    /\ ~crashed
    /\ w.sockets[f] = "ok"
    /\ w' = SetStatus(w, f, "eof")
    /\ UNCHANGED <<socketTimeouts, busy, crashed>>

\* write fails: lines that are or will be read in the same round follow
WriteFails ==
  \E f \in Fds :
    /\ ~crashed
    /\ w.sockets[f] = "ok"
    /\ w' = SetStatus(w, f, "quit")
    /\ UNCHANGED <<socketTimeouts, busy, crashed>>

\* findPlayer finds nobody, and its result is used: the process is gone
Crash ==
  /\ crashed' = TRUE
  /\ w' = NewWorld
  /\ socketTimeouts' = {}
  /\ busy' = FALSE

\* closedSocket, and the socket is left in a state
Closed(f, status) ==
  IF PlayersOn(f) = {} THEN Crash
  ELSE \E s \in PlayersOn(f) :
         /\ w.players[s].game # NoGame => w.timers[s][w.players[s].game] < MaxTimers
         /\ Handle([ClosedSocket(w, s) EXCEPT !.sockets[f] = status])

\* a line on a socket with status Close: it is taken for the end of the connection
LineBehind ==
  \E f \in Fds :
    /\ ~crashed
    /\ w.sockets[f] = "quit"
    /\ Closed(f, "quit")

\* checkActivity finds a socket with status Close
CloseSocket ==
  \E f \in Fds :
    /\ ~crashed
    /\ w.sockets[f] \in {"quit", "eof"}
    /\ Closed(f, "free")

-----------------------------------------------------------------------------
(* Events *)

PlayerTimesOut ==
  \E s \in Slots, g \in Tables :
    /\ w.timers[s][g] > 0
    /\ Handle(PlayerTimeout(w, s, g))

\* the socket that has the descriptor now gets status Close
SocketTimeout ==
  \E f \in socketTimeouts :
    /\ ~crashed
    /\ w' = IF w.sockets[f] = "ok" THEN SetStatus(w, f, "eof")
            ELSE IF w.sockets[f] \in {"connect", "registered"} THEN SetStatus(w, f, "closing")
            ELSE w
    /\ socketTimeouts' = socketTimeouts \ {f}
    /\ UNCHANGED <<busy, crashed>>

-----------------------------------------------------------------------------
(* The metaserver *)

\* registerMetaserver, when a connection can be tried; the SocketTimeout of the last
\* registration was due long ago
RegisterMetaserver ==
  /\ ~crashed
  /\ ~busy
  /\ socketTimeouts = {}
  /\ FreeFds # {}
  /\ w' = ConnectSocket(w)
  /\ busy' = TRUE
  /\ UNCHANGED <<socketTimeouts, crashed>>

\* welcomeMetaserver: the session is closed by an event
MetaserverConnected ==
  \E f \in Fds :
    /\ ~crashed
    /\ w.sockets[f] = "connect"
    /\ w' = SetStatus(w, f, "registered")
    /\ socketTimeouts' = socketTimeouts \union {f}
    /\ UNCHANGED <<busy, crashed>>

\* the connection fails, and another address is tried from a new descriptor
NextAddress ==
  \E f \in Fds :
    /\ ~crashed
    /\ w.sockets[f] = "connect"
    /\ FreeFds # {}
    /\ w' = SetStatus(ConnectSocket(w), f, "free")
    /\ UNCHANGED <<socketTimeouts, busy, crashed>>

\* no address is left, or the metaserver closes the session
MetaserverFails ==
  \E f \in Fds :
    /\ ~crashed
    /\ w.sockets[f] \in {"connect", "registered"}
    /\ w' = SetStatus(w, f, "closing")
    /\ UNCHANGED <<socketTimeouts, busy, crashed>>

\* Mutant of ClosedMetaserver: still busy
ClosedMetaserverStillBusy ==
  \E f \in Fds :
    /\ ~crashed
    /\ w.sockets[f] = "closing"
    /\ w' = DelSocket(w, f)
    /\ UNCHANGED <<socketTimeouts, busy, crashed>>

\* closedMetaserver, for a socket that checkActivity deletes
ClosedMetaserver ==
  \E f \in Fds :
    /\ ~crashed
    /\ w.sockets[f] = "closing"
    /\ w' = DelSocket(w, f)
    /\ busy' = FALSE
    /\ UNCHANGED <<socketTimeouts, crashed>>

-----------------------------------------------------------------------------
Command ==
  \/ SetName \/ SetImage \/ Create \/ Join \/ Watch \/ Exit \/ KickPlayer
  \/ UpgradePlayer \/ Configure \/ Describe \/ StartGame \/ FullUpdate \/ Play \/ Ruin
  \/ ReconnectPlayer \/ Quit

Connection == Accept \/ Eof \/ WriteFails \/ LineBehind \/ CloseSocket

Metaserver ==
  \/ RegisterMetaserver \/ MetaserverConnected \/ NextAddress \/ MetaserverFails
  \/ ClosedMetaserver

Next == Command \/ Connection \/ PlayerTimesOut \/ SocketTimeout \/ Metaserver

Spec == Init /\ [][Next]_vars

-----------------------------------------------------------------------------
(* Properties *)

\* The server's state has its form: members are slots, timeouts are counted.
TypeOK ==
  /\ w \in World
  /\ socketTimeouts \subseteq Fds
  /\ busy \in BOOLEAN
  /\ crashed \in BOOLEAN

\* findPlayer(socket) finds one player, whatever reconnections, kicks and timeouts
\* came before: processInput and closedSocket use its result unchecked.
SocketsHavePlayers ==
  /\ \A f \in Fds : w.sockets[f] \in {"ok", "eof"} => Cardinality(PlayersOn(f)) = 1
  /\ \A s \in Alive(w) :
       w.players[s].socket # NoFd => w.sockets[w.players[s].socket] \in {"ok", "eof", "quit"}

\* A player without connection sits in a game that has started, and an event is
\* pending that removes him: processEvents uses his game unchecked.
AbsentIsTimed ==
  \A s \in Alive(w) :
    w.players[s].socket = NoFd =>
      /\ w.players[s].game # NoGame
      /\ w.games[w.players[s].game].status \in {"run", "end"}
      /\ w.timers[s][w.players[s].game] > 0

\* m_players of the games and m_game of the players agree, no game is empty, and the
\* master of a game is in it: delPlayer leaves no pointer to the player behind.
SeatsAgree ==
  /\ \A s \in Slots, g \in Tables :
       s \in Members(w, g) <=> s \in Alive(w) /\ w.players[s].game = g
  /\ \A g \in Tables : IsInjective(w.games[g].members)
  /\ \A g \in Tables :
       IF Exists(w, g) THEN w.games[g].master \in Members(w, g) ELSE Members(w, g) = {}

\* A running game has two players in the race: whoever leaves, times out or is ruined
\* as the last but one ends it.
RunningHasTwo ==
  \A g \in Tables : w.games[g].status = "run" => Cardinality(Active(w, g)) >= 2

\* The server waits for the metaserver exactly as long as there is a session, so that
\* it registers again, and never twice at a time.
BusyMeansSocket ==
  Cardinality({f \in Fds : w.sockets[f] \in {"connect", "registered", "closing"}})
    = IF busy THEN 1 ELSE 0

\* What a client was told is up to date, whatever he missed: all players and games,
\* the options of a game that is not started, and the players and estates of a game
\* that is.
ClientsUpToDate ==
  \A s \in Online :
    LET g     == w.players[s].game
        known == w.views[w.players[s].socket]
    IN  /\ Public(w) \subseteq known
        /\ g # NoGame =>
             IF w.games[g].status = "config" THEN Options(g) \in known
             ELSE Visible(w, g) \subseteq known

\* No client still lists a player or a game that was deleted.
NoGhosts ==
  \A f \in Heard(w) : \A s \in Slots, g \in Tables :
    /\ Person(s) \in w.lists[f] => s \in Alive(w)
    /\ Game(g) \in w.lists[f] => Exists(w, g)
=============================================================================
