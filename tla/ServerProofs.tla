---------------------------- MODULE ServerProofs ----------------------------
(***************************************************************************)
(* Proofs about Server, for every number of slots, games and descriptors:  *)
(* its type, that every connection has its player, that an absent player   *)
(* is timed, that games and players agree, that a running game has two in  *)
(* the race, and that the metaserver is registered with once at a time.    *)
(*                                                                         *)
(* The inductive invariant Sound consists of Ready, which is about the     *)
(* objects and was shown of each operation in LobbyProofs, of Wired, about *)
(* players and connections, and of Registered, about the metaserver.       *)
(***************************************************************************)
EXTENDS Server, LobbyProofs

\* the connection of a player is his alone; one that is read from has a player, and
\* that of a player is one that he was accepted with
Wired(v) ==
  /\ \A s, t \in Alive(v) :
       v.players[s].socket = v.players[t].socket /\ v.players[s].socket # NoFd => s = t
  /\ \A f \in Fds :
       v.sockets[f] \in {"ok", "eof"} => \E s \in Alive(v) : v.players[s].socket = f
  /\ \A s \in Alive(v) :
       v.players[s].socket # NoFd => v.sockets[v.players[s].socket] \in {"ok", "eof", "quit"}

Sessions(v) == {f \in Fds : v.sockets[f] \in {"connect", "registered", "closing"}}

\* there is one session with the metaserver while it is waited for
Registered(v, waiting) ==
  IF waiting THEN \E f \in Fds : Sessions(v) = {f} ELSE Sessions(v) = {}

Sound == /\ Ready(w) /\ Wired(w) /\ Registered(w, busy)
         /\ socketTimeouts \subseteq Fds /\ busy \in BOOLEAN /\ crashed \in BOOLEAN

-----------------------------------------------------------------------------
(* Connections *)

\* the sockets of players and the states of sockets are in their sets
LEMMA SocketsOf ==
  ASSUME NEW v \in World
  PROVE  /\ \A s \in Slots : v.players[s].socket \in Fds \union {NoFd}
         /\ v.sockets \in [Fds -> SocketStates]
         /\ Alive(v) \in SUBSET Slots
BY Records DEF World, PlayerRecord, Alive

\* where no player and no socket changes hands, the connections stay as they should be
LEMMA SameWiresWired ==
  ASSUME NEW v, NEW h, Wired(v), SameWires(v, h)
  PROVE  Wired(h) /\ Sessions(h) = Sessions(v)
<1>1. Alive(h) = Alive(v) /\ h.sockets = v.sockets
  BY DEF SameWires, Alive
<1>2. \A s \in Alive(v) : h.players[s].socket = v.players[s].socket
  BY DEF SameWires, Alive
<1> QED
  BY <1>1, <1>2 DEF Wired, Sessions

\* what is unchanged but for the sockets and the clients is as it should be
LEMMA OtherSocketsReady ==
  ASSUME NEW v, NEW h \in World, Ready(v), h.players = v.players, h.games = v.games,
         h.timers = v.timers
  PROVE  Ready(h)
<1>1. v \in World /\ Alive(h) = Alive(v) /\ \A t, k : Sits(h, t, k) <=> Sits(v, t, k)
  BY DEF Ready, Alive, Sits
<1>2. ASSUME NEW k \in Tables PROVE Table(h, k)
  BY <1>1, TableKept DEF Ready
<1>3. ASSUME NEW t \in Alive(h) PROVE Awaited(h, t)
  BY <1>1 DEF Ready, Awaited
<1> QED
  BY <1>2, <1>3 DEF Ready

\* only the socket f has another state
Switched(v, h, f, x) ==
  /\ h \in World
  /\ h.players = v.players /\ h.games = v.games /\ h.timers = v.timers
  /\ h.sockets[f] = x
  /\ \A e \in Fds : e # f => h.sockets[e] = v.sockets[e]

\* SetStatus changes the state of one socket
LEMMA SetStatusSwitches ==
  ASSUME NEW v \in World, NEW f \in Fds, NEW x \in SocketStates
  PROVE  Switched(v, SetStatus(v, f, x), f, x)
BY DEF SetStatus, Switched, World

\* and so does an assignment to its entry
LEMMA SocketSetSwitches ==
  ASSUME NEW v \in World, NEW f \in Fds, NEW x \in SocketStates
  PROVE  Switched(v, [v EXCEPT !.sockets[f] = x], f, x)
BY DEF Switched, World

\* a client's socket that nobody waits to be read has changed
LEMMA SwitchedWired ==
  ASSUME NEW v, NEW h, NEW f \in Fds, NEW x, Switched(v, h, f, x), Wired(v),
         x \in {"ok", "eof"} => \E s \in Alive(v) : v.players[s].socket = f,
         x \in {"ok", "eof", "quit"} \/ \A s \in Alive(v) : v.players[s].socket # f
  PROVE  Wired(h)
<1>1. Alive(h) = Alive(v) /\ h.players = v.players
  BY DEF Switched, Alive
<1>2. ASSUME NEW s \in Alive(h), h.players[s].socket # NoFd
      PROVE  h.sockets[h.players[s].socket] \in {"ok", "eof", "quit"}
  <2>1. CASE h.players[s].socket = f
    BY <1>1, <2>1 DEF Switched
  <2>2. CASE h.players[s].socket # f
    <3>1. h.players[s].socket \in Fds
      BY <1>2, SocketsOf DEF Switched
    <3> QED
      BY <1>1, <1>2, <2>2, <3>1 DEF Switched, Wired
  <2> QED
    BY <2>1, <2>2
<1>3. ASSUME NEW e \in Fds, h.sockets[e] \in {"ok", "eof"}
      PROVE  \E s \in Alive(h) : h.players[s].socket = e
  <2>1. CASE e = f
    BY <1>1, <1>3, <2>1 DEF Switched
  <2>2. CASE e # f
    BY <1>1, <1>3, <2>2 DEF Switched, Wired
  <2> QED
    BY <2>1, <2>2
<1> QED
  BY <1>1, <1>2, <1>3 DEF Wired

\* the state of a process that starts is as it should be
LEMMA NewWorldSound ==
  /\ Ready(NewWorld) /\ Wired(NewWorld) /\ Sessions(NewWorld) = {}
<1> DEFINE v == NewWorld
<1>1. /\ Deleted \in PlayerRecord /\ ~Deleted.alive
      /\ NoTable \in GameRecord /\ NoTable.status = "none" /\ NoTable.members = <<>>
  BY DEF Deleted, PlayerRecord, NoTable, GameRecord
<1>2. /\ v.players = [s \in Slots |-> Deleted]
      /\ v.games = [g \in Tables |-> NoTable]
      /\ v.timers = [s \in Slots |-> [g \in Tables |-> 0]]
      /\ v.sockets = [f \in Fds |-> "free"]
  BY DEF NewWorld
<1>3. v \in World
  <2>1. 0 \in 0..MaxTimers
    BY LobbyAssumption
  <2> HIDE DEF Deleted, NoTable
  <2> QED
    BY <1>1, <2>1 DEF NewWorld, World, SocketStates
<1> HIDE DEF v, Deleted, NoTable
<1>4. Alive(v) = {}
  BY <1>1, <1>2 DEF Alive
<1>5. ASSUME NEW g \in Tables PROVE Table(v, g)
  <2>1. v.games[g].members = <<>> /\ v.games[g].status = "none"
    BY <1>1, <1>2
  <2>2. Members(v, g) = {} /\ IsInjective(v.games[g].members)
    BY <2>1 DEF Members, IsInjective
  <2> QED
    BY <1>4, <2>1, <2>2 DEF Table, Listed, Raced, Sits, Exists
<1>6. Ready(v)
  BY <1>3, <1>4, <1>5 DEF Ready
<1>7. \A f \in Fds : v.sockets[f] = "free"
  BY <1>2
<1>8. Wired(v) /\ Sessions(v) = {}
  BY <1>4, <1>7 DEF Wired, Sessions
<1> QED
  BY <1>6, <1>8 DEF v

-----------------------------------------------------------------------------
(* The steps *)

\* what a handler leaves as it should be stays so when the clients are told
LEMMA HandleSound ==
  ASSUME Sound, NEW v, Ready(v), Wired(v), Sessions(v) = Sessions(w), Handle(v)
  PROVE  Sound'
<1>1. SameObjects(v, w')
  BY SendXMLUpdatesSame DEF Handle, Ready
<1>2. Ready(w') /\ Wired(w') /\ Sessions(w') = Sessions(v)
  BY <1>1, SameReady, SameWiresWired DEF SameObjects, SameWires
<1> QED
  BY <1>2 DEF Sound, Handle, Registered

\* a handler that leaves the connections alone leaves everything as it should be
LEMMA HandleSameSound ==
  ASSUME Sound, NEW v, Ready(v), SameWires(w, v), Handle(v)
  PROVE  Sound'
BY SameWiresWired, HandleSound DEF Sound

\* the clients of players have a socket that can be read, and so have those in games
LEMMA OnlineHave ==
  ASSUME Sound, NEW s \in Online
  PROVE  /\ s \in Alive(w) /\ s \in Slots
         /\ w.players[s].socket # NoFd /\ w.players[s].socket \in Fds
         /\ w.sockets[w.players[s].socket] = "ok"
BY SocketsOf DEF Sound, Ready, Online

\* the commands of clients leave everything as it should be
LEMMA CommandSound ==
  ASSUME Sound, Command
  PROVE  Sound'
<1>1. ASSUME SetName PROVE Sound'
  BY <1>1, OnlineHave, SetPlayerNameReady, HandleSameSound DEF SetName, Sound
<1>2. ASSUME SetImage PROVE Sound'
  BY <1>2, OnlineHave, SettingsReady, HandleSameSound DEF SetImage, Sound
<1>3. ASSUME Create PROVE Sound'
  <2>1. PICK s \in Loungers, g \in FreeTables(w) : Handle(NewGame(w, s, g))
    BY <1>3 DEF Create
  <2>2. s \in Online /\ w.players[s].game = NoGame
    BY DEF Loungers
  <2> QED
    BY <2>1, <2>2, OnlineHave, NewGameReady, HandleSameSound DEF Sound
<1>4. ASSUME Join PROVE Sound'
  <2>1. PICK s \in Loungers, g \in Tables \ FreeTables(w) : Handle(JoinGame(w, s, g))
    BY <1>4 DEF Join
  <2>2. s \in Online /\ w.players[s].game = NoGame
    BY DEF Loungers
  <2> QED
    BY <2>1, <2>2, OnlineHave, JoinGameReady, HandleSameSound DEF Sound
<1>5. ASSUME Watch PROVE Sound'
  <2>1. PICK s \in Loungers, g \in Tables \ FreeTables(w) : Handle(WatchGame(w, s, g))
    BY <1>5 DEF Watch
  <2>2. s \in Online /\ w.players[s].game = NoGame
    BY DEF Loungers
  <2> QED
    BY <2>1, <2>2, OnlineHave, JoinGameReady, HandleSameSound DEF Sound
<1>6. \A s \in Gamers : s \in Online /\ w.players[s].game # NoGame
  BY DEF Gamers
<1>7. ASSUME Exit PROVE Sound'
  BY <1>6, <1>7, OnlineHave, ExitGameReady, HandleSameSound DEF Exit, Sound
<1>8. ASSUME KickPlayer PROVE Sound'
  BY <1>6, <1>8, OnlineHave, KickReady, HandleSameSound DEF KickPlayer, Sound
<1>9. ASSUME UpgradePlayer PROVE Sound'
  BY <1>6, <1>9, OnlineHave, UpgradeReady, HandleSameSound DEF UpgradePlayer, Sound
<1>10. ASSUME Configure PROVE Sound'
  BY <1>6, <1>10, OnlineHave, SettingsReady, HandleSameSound DEF Configure, Sound
<1>11. ASSUME Describe PROVE Sound'
  BY <1>6, <1>11, OnlineHave, SettingsReady, HandleSameSound DEF Describe, Sound
<1>12. ASSUME StartGame PROVE Sound'
  <2>0. PICK s \in Gamers : \E order \in SetToSeqs(Members(w, w.players[s].game)) :
                              Handle(Start(w, s, order))
    BY <1>12 DEF StartGame
  <2>1. PICK order \in SetToSeqs(Members(w, w.players[s].game)) : Handle(Start(w, s, order))
    BY <2>0
  <2> QED
    BY <1>6, <2>1, OnlineHave, StartReady, HandleSameSound DEF Sound
<1>13. ASSUME FullUpdate PROVE Sound'
  BY <1>6, <1>13, OnlineHave, SendFullUpdateReady, HandleSameSound DEF FullUpdate, Sound
<1>14. ASSUME Play PROVE Sound'
  BY <1>14, VisibleAreKinds, ChangeReady, HandleSameSound DEF Play, Sound, Ready
<1>15. ASSUME Ruin PROVE Sound'
  BY <1>15, BankruptReady, HandleSameSound DEF Ruin, Sound
<1>16. ASSUME ReconnectPlayer PROVE Sound'
  <2>1. PICK s \in Online, t \in Slots :
               w.players[s].game = NoGame /\ Handle(Reconnect(w, s, t))
    BY <1>16 DEF ReconnectPlayer
  <2> DEFINE h == Reconnect(w, s, t)
             f == w.players[s].socket
  <2>2. /\ s \in Alive(w) /\ s \in Slots /\ f # NoFd /\ f \in Fds /\ Ready(w) /\ Wired(w)
    BY OnlineHave DEF Sound
  <2>3. CASE ~MayReconnect(w, t)
    <3>1. h = w
      BY <2>1, <2>2, <2>3, ReconnectSwaps
    <3> QED
      BY <2>1, <2>2, <3>1, HandleSound
  <2>4. CASE MayReconnect(w, t)
    <3>1. Swapped(w, h, s, t)
      BY <2>1, <2>2, <2>4, ReconnectSwaps
    <3> HIDE DEF h
    <3>2. /\ Ready(h) /\ h.sockets = w.sockets /\ s # t
          /\ Alive(h) = Alive(w) \ {s}
          /\ h.players[t].socket = f
          /\ \A x \in Alive(h) : x # t => h.players[x] = w.players[x]
      BY <3>1, <2>4 DEF Swapped, Alive, MayReconnect
    <3>3. Wired(h)
      <4>1. ASSUME NEW x \in Alive(h), NEW y \in Alive(h),
                   h.players[x].socket = h.players[y].socket, h.players[x].socket # NoFd
            PROVE  x = y
        BY <2>2, <3>2, <4>1 DEF Wired
      <4>2. ASSUME NEW e \in Fds, h.sockets[e] \in {"ok", "eof"}
            PROVE  \E x \in Alive(h) : h.players[x].socket = e
        <5>1. CASE e = f
          BY <2>2, <2>4, <3>2, <5>1 DEF MayReconnect
        <5>2. CASE e # f
          <6>1. PICK x \in Alive(w) : w.players[x].socket = e
            BY <2>2, <3>2, <4>2 DEF Wired
          <6>2. e # NoFd
            BY LobbyAssumption DEF NoFd
          <6>3. x # s /\ x # t
            BY <2>4, <5>2, <6>1, <6>2 DEF MayReconnect
          <6> QED
            BY <3>2, <6>1, <6>3
        <5> QED
          BY <5>1, <5>2
      <4>3. ASSUME NEW x \in Alive(h), h.players[x].socket # NoFd
            PROVE  h.sockets[h.players[x].socket] \in {"ok", "eof", "quit"}
        BY <2>2, <3>2, <4>3 DEF Wired
      <4> QED
        BY <4>1, <4>2, <4>3 DEF Wired
    <3>4. Sessions(h) = Sessions(w)
      BY <3>2 DEF Sessions
    <3>5. Handle(h)
      BY <2>1 DEF h
    <3> QED
      BY <3>2, <3>3, <3>4, <3>5, HandleSound
  <2> QED
    BY <2>3, <2>4
<1>17. ASSUME Quit PROVE Sound'
  <2>1. PICK s \in Online :
               LET h == IF w.players[s].game = NoGame THEN w ELSE ExitGame(w, s)
               IN  Handle(SetStatus(h, w.players[s].socket, "quit"))
    BY <1>17 DEF Quit
  <2> DEFINE f == w.players[s].socket
             h == IF w.players[s].game = NoGame THEN w ELSE ExitGame(w, s)
             q == SetStatus(h, f, "quit")
  <2>2. s \in Alive(w) /\ f # NoFd /\ f \in Fds /\ w.sockets[f] = "ok"
    BY OnlineHave
  <2>3. Ready(h) /\ SameWires(w, h)
    BY <2>2, ExitGameReady DEF Sound, SameWires
  <2>4. Handle(q)
    BY <2>1
  <2> HIDE DEF h
  <2>5. Wired(h) /\ h.sockets = w.sockets
    BY <2>3, SameWiresWired DEF Sound, SameWires
  <2>6. Switched(h, q, f, "quit")
    BY <2>2, <2>3, SetStatusSwitches DEF SocketStates, Ready
  <2> HIDE DEF q
  <2>7. Ready(q) /\ Wired(q)
    BY <2>2, <2>3, <2>5, <2>6, OtherSocketsReady, SwitchedWired DEF Switched
  <2>8. Sessions(q) = Sessions(w)
    BY <2>2, <2>5, <2>6 DEF Switched, Sessions
  <2> QED
    BY <2>4, <2>7, <2>8, HandleSound
<1> QED
  BY <1>1, <1>2, <1>3, <1>4, <1>5, <1>7, <1>8, <1>9, <1>10, <1>11, <1>12, <1>13,
     <1>14, <1>15, <1>16, <1>17 DEF Command

\* a socket that is lent to none of the players is one of the metaserver's or free
LEMMA FreeIsFree ==
  ASSUME Sound, NEW f \in Fds, w.sockets[f] \notin {"ok", "eof", "quit"}
  PROVE  \A s \in Alive(w) : w.players[s].socket # f
<1>1. f # NoFd
  BY LobbyAssumption DEF NoFd
<1> QED
  BY <1>1 DEF Sound, Wired

\* the descriptor that accept and socket return is free
LEMMA FreeFdIs ==
  ASSUME Sound, FreeFds # {}
  PROVE  Min(FreeFds) \in Fds /\ w.sockets[Min(FreeFds)] = "free"
<1>1. FreeFds \in SUBSET Nat
  BY LobbyAssumption DEF FreeFds
<1> QED
  BY <1>1, MinIn DEF FreeFds

\* a process that starts anew is as it should be
LEMMA CrashSound ==
  ASSUME Crash
  PROVE  Sound'
BY NewWorldSound DEF Crash, Sound, Registered

\* a player who loses his connection leaves it to nobody
LEMMA ClosedSound ==
  ASSUME Sound, NEW f \in Fds, NEW x \in {"quit", "free"},
         w.sockets[f] \in {"quit", "eof"}, Closed(f, x)
  PROVE  Sound'
<1>1. CASE PlayersOn(f) = {}
  BY <1>1, CrashSound DEF Closed
<1>2. CASE PlayersOn(f) # {}
  <2>1. PICK s \in PlayersOn(f) :
          /\ w.players[s].game # NoGame => w.timers[s][w.players[s].game] < MaxTimers
          /\ Handle([ClosedSocket(w, s) EXCEPT !.sockets[f] = x])
    BY <1>2 DEF Closed
  <2> DEFINE h == ClosedSocket(w, s)
             q == [h EXCEPT !.sockets[f] = x]
  <2>2. s \in Alive(w) /\ s \in Slots /\ w.players[s].socket = f /\ f # NoFd
    BY LobbyAssumption DEF PlayersOn, Alive, NoFd
  <2>3. Unplugged(w, h, s)
    BY <2>1, <2>2, ClosedSocketUnplugs DEF Sound
  <2>4. Handle(q)
    BY <2>1
  <2> HIDE DEF h
  <2>5. /\ Ready(h) /\ h.sockets = w.sockets
        /\ \A t \in Alive(h) : t # s => t \in Alive(w) /\ h.players[t] = w.players[t]
        /\ \A t \in Alive(w) : t # s => t \in Alive(h)
        /\ s \in Alive(h) => h.players[s].socket = NoFd
    BY <2>3 DEF Unplugged, Alive
  <2>6. Switched(h, q, f, x)
    BY <2>5, SocketSetSwitches DEF SocketStates, Ready
  <2> HIDE DEF q
  <2>7. Ready(q)
    BY <2>5, <2>6, OtherSocketsReady DEF Switched
  <2>8. q.players = h.players /\ Alive(q) = Alive(h)
    BY <2>6 DEF Switched, Alive
  <2>9. \A t \in Alive(h) : h.players[t].socket # NoFd =>
          /\ t \in Alive(w) /\ h.players[t] = w.players[t] /\ t # s
          /\ h.players[t].socket # f
    BY <2>2, <2>5 DEF Sound, Wired
  <2>10. Wired(q)
    <3>1. ASSUME NEW a \in Alive(q), NEW b \in Alive(q),
                 q.players[a].socket = q.players[b].socket, q.players[a].socket # NoFd
          PROVE  a = b
      BY <2>8, <2>9, <3>1 DEF Sound, Wired
    <3>2. ASSUME NEW e \in Fds, q.sockets[e] \in {"ok", "eof"}
          PROVE  \E a \in Alive(q) : q.players[a].socket = e
      <4>1. e # f
        BY <2>6, <3>2 DEF Switched
      <4>2. PICK a \in Alive(w) : w.players[a].socket = e
        BY <2>5, <2>6, <3>2, <4>1 DEF Switched, Sound, Wired
      <4> QED
        BY <2>2, <2>5, <2>8, <4>1, <4>2
    <3>3. ASSUME NEW a \in Alive(q), q.players[a].socket # NoFd
          PROVE  q.sockets[q.players[a].socket] \in {"ok", "eof", "quit"}
      <4>1. a \in Alive(w) /\ q.players[a].socket = w.players[a].socket
            /\ q.players[a].socket # f
        BY <2>8, <2>9, <3>3
      <4>2. q.players[a].socket \in Fds
        BY <3>3, <4>1, SocketsOf DEF Sound, Ready
      <4> QED
        BY <2>5, <2>6, <3>3, <4>1, <4>2 DEF Switched, Sound, Wired
    <3> QED
      BY <3>1, <3>2, <3>3 DEF Wired
  <2>11. Sessions(q) = Sessions(w)
    BY <2>5, <2>6 DEF Switched, Sessions
  <2> QED
    BY <2>4, <2>7, <2>10, <2>11, HandleSound
<1> QED
  BY <1>1, <1>2

\* so do the connections that come, break, and are closed
LEMMA ConnectionSound ==
  ASSUME Sound, Connection
  PROVE  Sound'
<1>1. ASSUME Accept PROVE Sound'
  <2> DEFINE f == Min(FreeFds)
  <2>1. f \in Fds /\ w.sockets[f] = "free"
    BY <1>1, FreeFdIs DEF Accept
  <2>2. \A t \in Alive(w) : w.players[t].socket # f
    BY <2>1, FreeIsFree
  <2>3. PICK s \in FreeSlots(w) : w' = WelcomeNew(w, f, s)
    BY <1>1 DEF Accept
  <2> HIDE DEF f
  <2>4. Welcomed(w, w', f, s)
    BY <2>1, <2>3, WelcomeNewWelcomes DEF Sound
  <2>5. /\ Ready(w') /\ s \in Slots /\ Alive(w') = Alive(w) \union {s} /\ s \notin Alive(w)
        /\ w'.players[s].socket = f
        /\ \A t \in Alive(w) : w'.players[t] = w.players[t]
    BY <2>4 DEF Welcomed, FreeSlots, Alive
  <2>6. w'.sockets[f] = "ok" /\ \A e \in Fds : e # f => w'.sockets[e] = w.sockets[e]
    BY <2>1, <2>4, SocketsOf DEF Welcomed, Sound, Ready
  <2>7. Wired(w')
    <3>1. ASSUME NEW a \in Alive(w'), NEW b \in Alive(w'),
                 w'.players[a].socket = w'.players[b].socket, w'.players[a].socket # NoFd
          PROVE  a = b
      BY <2>2, <2>5, <3>1 DEF Sound, Wired
    <3>2. ASSUME NEW e \in Fds, w'.sockets[e] \in {"ok", "eof"}
          PROVE  \E a \in Alive(w') : w'.players[a].socket = e
      BY <2>5, <2>6, <3>2 DEF Sound, Wired
    <3>3. ASSUME NEW a \in Alive(w'), w'.players[a].socket # NoFd
          PROVE  w'.sockets[w'.players[a].socket] \in {"ok", "eof", "quit"}
      <4>1. CASE a = s
        BY <2>5, <2>6, <4>1
      <4>2. CASE a # s
        <5>1. a \in Alive(w) /\ w'.players[a].socket = w.players[a].socket
          BY <2>5, <4>2
        <5>2. w.players[a].socket \in Fds
          BY <3>3, <5>1, SocketsOf DEF Sound, Ready
        <5> QED
          BY <2>2, <2>6, <3>3, <5>1, <5>2 DEF Sound, Wired
      <4> QED
        BY <4>1, <4>2
    <3> QED
      BY <3>1, <3>2, <3>3 DEF Wired
  <2>8. Sessions(w') = Sessions(w)
    BY <2>1, <2>6 DEF Sessions
  <2> QED
    BY <1>1, <2>5, <2>7, <2>8 DEF Sound, Registered, Accept
<1>2. ASSUME NEW f \in Fds, NEW x \in {"eof", "quit"}, w.sockets[f] = "ok",
             w' = SetStatus(w, f, x), UNCHANGED <<socketTimeouts, busy, crashed>>
      PROVE  Sound'
  <2>1. Switched(w, w', f, x)
    BY <1>2, SetStatusSwitches DEF Sound, Ready, SocketStates
  <2>2. Ready(w')
    BY <2>1, OtherSocketsReady DEF Switched, Sound
  <2>3. Wired(w')
    BY <1>2, <2>1, SwitchedWired DEF Sound, Wired
  <2>4. Sessions(w') = Sessions(w)
    BY <1>2, <2>1 DEF Switched, Sessions
  <2> QED
    BY <1>2, <2>2, <2>3, <2>4 DEF Sound, Registered
<1>3. ASSUME Eof PROVE Sound'
  BY <1>2, <1>3 DEF Eof
<1>4. ASSUME WriteFails PROVE Sound'
  BY <1>2, <1>4 DEF WriteFails
<1>5. ASSUME LineBehind PROVE Sound'
  BY <1>5, ClosedSound DEF LineBehind
<1>6. ASSUME CloseSocket PROVE Sound'
  BY <1>6, ClosedSound DEF CloseSocket
<1> QED
  BY <1>1, <1>3, <1>4, <1>5, <1>6 DEF Connection

\* so does the timeout of a player, whether he came back or not
LEMMA PlayerTimesOutSound ==
  ASSUME Sound, PlayerTimesOut
  PROVE  Sound'
<1>1. PICK s \in Slots, g \in Tables : w.timers[s][g] > 0 /\ Handle(PlayerTimeout(w, s, g))
  BY DEF PlayerTimesOut
<1> DEFINE h == PlayerTimeout(w, s, g)
<1>2. Ready(w) /\ Wired(w)
  BY DEF Sound
<1>3. CASE s \in Alive(w) /\ w.players[s].socket = NoFd
  <2>1. Unplugged(w, h, s)
    BY <1>1, <1>2, <1>3, PlayerTimeoutUnplugs
  <2> HIDE DEF h
  <2>2. /\ Ready(h) /\ h.sockets = w.sockets
        /\ \A t \in Alive(h) : t # s => t \in Alive(w) /\ h.players[t] = w.players[t]
        /\ \A t \in Alive(w) : t # s => t \in Alive(h)
        /\ s \in Alive(h) => h.players[s].socket = NoFd
    BY <2>1 DEF Unplugged, Alive
  <2>3. Wired(h)
    <3>1. ASSUME NEW e \in Fds, h.sockets[e] \in {"ok", "eof"}
          PROVE  \E a \in Alive(h) : h.players[a].socket = e
      <4>1. PICK a \in Alive(w) : w.players[a].socket = e
        BY <1>2, <2>2, <3>1 DEF Wired
      <4>2. e # NoFd
        BY LobbyAssumption DEF NoFd
      <4> QED
        BY <1>3, <2>2, <4>1, <4>2
    <3> QED
      BY <1>2, <2>2, <3>1 DEF Wired
  <2>4. Sessions(h) = Sessions(w)
    BY <2>2 DEF Sessions
  <2>5. Handle(h)
    BY <1>1 DEF h
  <2> QED
    BY <2>2, <2>3, <2>4, <2>5, HandleSound
<1>4. CASE ~(s \in Alive(w) /\ w.players[s].socket = NoFd)
  BY <1>1, <1>2, <1>4, PlayerTimeoutUnplugs, HandleSameSound
<1> QED
  BY <1>3, <1>4

\* a socket of the metaserver's, or a free one, becomes another such, and is the session or not
LEMMA SwitchedSessions ==
  ASSUME NEW v, NEW h, NEW f \in Fds, NEW x, Switched(v, h, f, x)
  PROVE  Sessions(h) = IF x \in {"connect", "registered", "closing"}
                       THEN Sessions(v) \union {f} ELSE Sessions(v) \ {f}
BY DEF Switched, Sessions

\* so do the timeouts of sockets and the session with the metaserver
LEMMA EventsSound ==
  ASSUME Sound, SocketTimeout \/ Metaserver
  PROVE  Sound'
<1>0. Ready(w) /\ Wired(w) /\ w \in World /\ Registered(w, busy)
      /\ socketTimeouts \subseteq Fds /\ busy \in BOOLEAN /\ crashed \in BOOLEAN
  BY DEF Sound, Ready
<1>1. ASSUME NEW v, Ready(v), Wired(v), NEW f \in Fds, NEW x \in SocketStates \ {"ok", "eof", "quit"},
             \A s \in Alive(v) : v.players[s].socket # f
      PROVE  /\ Ready(SetStatus(v, f, x)) /\ Wired(SetStatus(v, f, x))
             /\ Sessions(SetStatus(v, f, x)) =
                  IF x \in {"connect", "registered", "closing"}
                  THEN Sessions(v) \union {f} ELSE Sessions(v) \ {f}
             /\ SetStatus(v, f, x).players = v.players
             /\ Alive(SetStatus(v, f, x)) = Alive(v)
  <2> DEFINE h == SetStatus(v, f, x)
  <2>1. Switched(v, h, f, x)
    BY <1>1, SetStatusSwitches DEF Ready
  <2> HIDE DEF h
  <2>2. Ready(h)
    BY <1>1, <2>1, OtherSocketsReady DEF Switched
  <2>3. Wired(h)
    BY <1>1, <2>1, SwitchedWired
  <2>4. Sessions(h) = IF x \in {"connect", "registered", "closing"}
                      THEN Sessions(v) \union {f} ELSE Sessions(v) \ {f}
    BY <2>1, SwitchedSessions
  <2>5. h.players = v.players /\ Alive(h) = Alive(v)
    BY <2>1 DEF Switched, Alive
  <2> QED
    BY <2>2, <2>3, <2>4, <2>5 DEF h
<1>2. \A f \in Fds : w.sockets[f] \in {"connect", "registered", "closing"} =>
        /\ f \in Sessions(w) /\ \A s \in Alive(w) : w.players[s].socket # f
  BY FreeIsFree DEF Sessions
<1>3. /\ {"free", "connect", "registered", "closing"} \subseteq SocketStates \ {"ok", "eof", "quit"}
  BY DEF SocketStates
<1>4. ASSUME NEW f \in Fds, w.sockets[f] \in {"connect", "registered"},
              NEW x \in {"registered", "closing"}, w' = SetStatus(w, f, x)
       PROVE  Ready(w') /\ Wired(w') /\ Sessions(w') = Sessions(w)
  <2>1. f \in Sessions(w) /\ \A s \in Alive(w) : w.players[s].socket # f
    BY <1>2, <1>4
  <2>2. x \in SocketStates \ {"ok", "eof", "quit"}
    BY <1>3
  <2>3. Ready(w') /\ Wired(w') /\ Sessions(w') = Sessions(w) \union {f}
    BY <1>0, <1>1, <1>4, <2>1, <2>2
  <2> QED
    BY <2>1, <2>3
<1>5. ASSUME SocketTimeout PROVE Sound'
  <2>1. PICK f \in socketTimeouts :
          w' = IF w.sockets[f] = "ok" THEN SetStatus(w, f, "eof")
               ELSE IF w.sockets[f] \in {"connect", "registered"} THEN SetStatus(w, f, "closing")
               ELSE w
    BY <1>5 DEF SocketTimeout
  <2>2. f \in Fds
    BY <1>0
  <2>3. CASE w.sockets[f] = "ok"
    <3>1. Switched(w, w', f, "eof")
      BY <1>0, <2>1, <2>2, <2>3, SetStatusSwitches DEF SocketStates
    <3>2. Ready(w')
      BY <1>0, <3>1, OtherSocketsReady DEF Switched
    <3>3. Wired(w')
      BY <1>0, <2>2, <2>3, <3>1, SwitchedWired DEF Wired
    <3>4. Sessions(w') = Sessions(w)
      BY <2>3, <3>1 DEF Switched, Sessions
    <3> QED
      BY <1>0, <1>5, <3>2, <3>3, <3>4 DEF Sound, Registered, SocketTimeout
  <2>4. CASE w.sockets[f] \in {"connect", "registered"}
    <3>1. w' = SetStatus(w, f, "closing")
      BY <2>1, <2>4
    <3>2. Ready(w') /\ Wired(w') /\ Sessions(w') = Sessions(w)
      BY <1>4, <2>2, <2>4, <3>1
    <3> QED
      BY <1>0, <1>5, <3>2 DEF Sound, Registered, SocketTimeout
  <2>5. CASE w.sockets[f] \notin {"ok", "connect", "registered"}
    <3>1. w' = w
      BY <2>1, <2>5
    <3> QED
      BY <1>0, <1>5, <3>1 DEF Sound, Registered, SocketTimeout
  <2> QED
    BY <2>3, <2>4, <2>5
<1>6. ASSUME RegisterMetaserver PROVE Sound'
  <2> DEFINE f == Min(FreeFds)
  <2>1. f \in Fds /\ w.sockets[f] = "free"
    BY <1>6, FreeFdIs DEF RegisterMetaserver
  <2>2. \A s \in Alive(w) : w.players[s].socket # f
    BY <2>1, FreeIsFree
  <2>3. w' = SetStatus(w, f, "connect")
    BY <1>6 DEF RegisterMetaserver, ConnectSocket
  <2> HIDE DEF f
  <2>4. Ready(w') /\ Wired(w') /\ Sessions(w') = Sessions(w) \union {f}
    BY <1>0, <1>1, <1>3, <2>1, <2>2, <2>3
  <2>5. Sessions(w) = {}
    BY <1>0, <1>6 DEF RegisterMetaserver, Registered
  <2>6. busy' = TRUE /\ UNCHANGED <<socketTimeouts, crashed>>
    BY <1>6 DEF RegisterMetaserver
  <2> QED
    BY <1>0, <2>1, <2>4, <2>5, <2>6 DEF Sound, Registered
<1>7. ASSUME MetaserverConnected PROVE Sound'
  <2>1. PICK f \in Fds : /\ w.sockets[f] = "connect"
                         /\ w' = SetStatus(w, f, "registered")
                         /\ socketTimeouts' = socketTimeouts \union {f}
                         /\ UNCHANGED <<busy, crashed>>
    BY <1>7 DEF MetaserverConnected
  <2>2. Ready(w') /\ Wired(w') /\ Sessions(w') = Sessions(w)
    BY <1>4, <2>1
  <2> QED
    BY <1>0, <2>1, <2>2 DEF Sound, Registered
<1>8. ASSUME NextAddress PROVE Sound'
  <2>1. PICK f \in Fds : /\ w.sockets[f] = "connect"
                         /\ FreeFds # {}
                         /\ w' = SetStatus(ConnectSocket(w), f, "free")
                         /\ UNCHANGED <<socketTimeouts, busy, crashed>>
    BY <1>8 DEF NextAddress
  <2> DEFINE e == Min(FreeFds)
             h == SetStatus(w, e, "connect")
  <2>2. e \in Fds /\ w.sockets[e] = "free"
    BY <2>1, FreeFdIs
  <2>3. \A s \in Alive(w) : w.players[s].socket # e
    BY <2>2, FreeIsFree
  <2>4. w' = SetStatus(h, f, "free")
    BY <2>1 DEF ConnectSocket
  <2> HIDE DEF e
  <2>5. /\ Ready(h) /\ Wired(h) /\ Sessions(h) = Sessions(w) \union {e}
        /\ h.players = w.players /\ Alive(h) = Alive(w)
    BY <1>0, <1>1, <1>3, <2>2, <2>3
  <2> HIDE DEF h
  <2>6. f # e /\ f \in Sessions(w) /\ e \notin Sessions(w)
        /\ \A s \in Alive(h) : h.players[s].socket # f
    BY <1>2, <2>1, <2>2, <2>5 DEF Sessions
  <2>7. Ready(w') /\ Wired(w') /\ Sessions(w') = (Sessions(w) \union {e}) \ {f}
    BY <1>1, <1>3, <2>1, <2>4, <2>5, <2>6
  <2>8. Sessions(w) = {f} /\ busy
    BY <1>0, <2>6 DEF Registered
  <2>9. Sessions(w') = {e}
    BY <2>6, <2>7, <2>8
  <2> QED
    BY <1>0, <2>1, <2>2, <2>7, <2>8, <2>9 DEF Sound, Registered
<1>9. ASSUME MetaserverFails PROVE Sound'
  <2>1. PICK f \in Fds : /\ w.sockets[f] \in {"connect", "registered"}
                         /\ w' = SetStatus(w, f, "closing")
                         /\ UNCHANGED <<socketTimeouts, busy, crashed>>
    BY <1>9 DEF MetaserverFails
  <2>2. Ready(w') /\ Wired(w') /\ Sessions(w') = Sessions(w)
    BY <1>4, <2>1
  <2> QED
    BY <1>0, <2>1, <2>2 DEF Sound, Registered
<1>10. ASSUME ClosedMetaserver PROVE Sound'
  <2>1. PICK f \in Fds : /\ w.sockets[f] = "closing"
                         /\ w' = SetStatus(w, f, "free")
                         /\ busy' = FALSE
                         /\ UNCHANGED <<socketTimeouts, crashed>>
    BY <1>10 DEF ClosedMetaserver, DelSocket
  <2>2. Ready(w') /\ Wired(w') /\ Sessions(w') = Sessions(w) \ {f}
    BY <1>0, <1>1, <1>2, <1>3, <2>1
  <2>3. Sessions(w) = {f}
    BY <1>0, <1>2, <2>1 DEF Registered
  <2> QED
    BY <1>0, <2>1, <2>2, <2>3 DEF Sound, Registered
<1> QED
  BY <1>5, <1>6, <1>7, <1>8, <1>9, <1>10 DEF Metaserver

-----------------------------------------------------------------------------
(* What follows *)

\* Sound holds at the start, and after every step.
LEMMA SoundInitially ==
  ASSUME Init
  PROVE  Sound
BY NewWorldSound DEF Init, Sound, Registered

\* and every step keeps it
LEMMA SoundNext ==
  ASSUME Sound, [Next]_vars
  PROVE  Sound'
<1>1. ASSUME UNCHANGED vars PROVE Sound'
  BY <1>1 DEF vars, Sound
<1> QED
  BY <1>1, CommandSound, ConnectionSound, PlayerTimesOutSound, EventsSound DEF Next

\* In every state the objects, the connections and the session with the metaserver are as
\* they should be.
THEOREM AlwaysSound == Spec => []Sound
<1>1. Init => Sound
  BY SoundInitially
<1>2. Sound /\ [Next]_vars => Sound'
  BY SoundNext
<1> QED
  BY <1>1, <1>2, PTL DEF Spec

\* The server's state keeps its form, in particular are the members of a game players'
\* slots and the timeouts within their bound, whatever the clients do.
THEOREM TypeCorrect == Spec => []TypeOK
<1>1. Sound => TypeOK
  BY DEF Sound, Ready, TypeOK
<1> QED
  BY <1>1, AlwaysSound, PTL

\* findPlayer(socket) finds one player for every socket that is read from or whose end
\* was read, so that processInput and closedSocket do not follow a null pointer there,
\* and every player's socket is one he was accepted with.
THEOREM EverySocketHasAPlayer == Spec => []SocketsHavePlayers
<1>1. ASSUME Sound PROVE SocketsHavePlayers
  <2>1. ASSUME NEW f \in Fds, w.sockets[f] \in {"ok", "eof"}
        PROVE  Cardinality(PlayersOn(f)) = 1
    <3>1. PICK s \in Alive(w) : w.players[s].socket = f
      BY <1>1, <2>1 DEF Sound, Wired
    <3>2. f # NoFd
      BY LobbyAssumption DEF NoFd
    <3>3. PlayersOn(f) = {s}
      BY <1>1, <3>1, <3>2 DEF Sound, Wired, PlayersOn
    <3> QED
      BY <3>3, FS_Singleton
  <2> QED
    BY <1>1, <2>1 DEF SocketsHavePlayers, Sound, Wired
<1> QED
  BY <1>1, AlwaysSound, PTL

\* A player without connection sits in a game that has started, and an event that removes
\* him is pending, whatever reconnections and timeouts came before.
THEOREM AbsentAreTimed == Spec => []AbsentIsTimed
<1>1. Sound => AbsentIsTimed
  BY DEF Sound, Ready, Awaited, AbsentIsTimed
<1> QED
  BY <1>1, AlwaysSound, PTL

\* m_players of the games and m_game of the players agree, no game is empty, and the
\* master of a game is in it, through joins, exits, kicks, timeouts and reused memory.
THEOREM SeatsAlwaysAgree == Spec => []SeatsAgree
<1>1. Sound => SeatsAgree
  BY DEF Sound, Ready, Table, Listed, Sits, SeatsAgree
<1> QED
  BY <1>1, AlwaysSound, PTL

\* A running game has two players in the race: whoever leaves, times out or is ruined as
\* the last but one ends it.
THEOREM RunningAlwaysHasTwo == Spec => []RunningHasTwo
<1>1. ASSUME Sound, NEW g \in Tables, w.games[g].status = "run"
      PROVE  Cardinality(Active(w, g)) >= 2
  <2>1. PICK s, t \in Active(w, g) : s # t
    BY <1>1 DEF Sound, Ready, Table, Raced
  <2>2. IsFiniteSet(Active(w, g))
    BY <1>1, RaceOf DEF Sound, Ready
  <2>3. IsFiniteSet({s}) /\ Cardinality({s}) = 1
    BY FS_Singleton
  <2>4. IsFiniteSet({s, t}) /\ Cardinality({s, t}) = 2
    <3>1. {s} \union {t} = {s, t} /\ t \notin {s}
      BY <2>1
    <3> QED
      BY <2>3, <3>1, FS_AddElement
  <2>5. {s, t} \subseteq Active(w, g)
    OBVIOUS
  <2>6. Cardinality({s, t}) <= Cardinality(Active(w, g))
    BY <2>2, <2>5, FS_Subset
  <2> QED
    BY <2>2, <2>4, <2>6, FS_CardinalityType
<1>2. Sound => RunningHasTwo
  BY <1>1 DEF RunningHasTwo
<1> QED
  BY <1>2, AlwaysSound, PTL

\* The server waits for the metaserver exactly as long as there is a session, so that it
\* registers again, and never twice at a time, whatever addresses fail.
THEOREM BusyAlwaysMeansSocket == Spec => []BusyMeansSocket
<1>1. ASSUME Sound PROVE BusyMeansSocket
  <2>1. CASE busy
    <3>1. PICK f \in Fds : Sessions(w) = {f}
      BY <1>1, <2>1 DEF Sound, Registered
    <3> QED
      BY <2>1, <3>1, FS_Singleton DEF Sessions, BusyMeansSocket
  <2>2. CASE ~busy
    BY <1>1, <2>2, FS_EmptySet DEF Sound, Registered, Sessions, BusyMeansSocket
  <2> QED
    BY <2>1, <2>2
<1> QED
  BY <1>1, AlwaysSound, PTL
=============================================================================
