------------------------------ MODULE Updates ------------------------------
(***************************************************************************)
(* How clients learn the properties of players and games (GameObject,      *)
(* GameProperty, MonopdServer::sendXMLUpdates and the full updates).       *)
(*                                                                         *)
(* The properties of one object with one scope change together here: they  *)
(* are an item, which has a changed flag, and of which a client either has *)
(* the present values or not.  What is written to a connection counts as   *)
(* received.  The operators work on the record w of the server's objects   *)
(* that module Lobby describes.                                            *)
(***************************************************************************)
EXTENDS Naturals, Sequences

CONSTANTS Fds,       \* file descriptors for connections
          Slots,     \* memory for Player objects
          Tables     \* memory for Game objects

NoFd   == 0
NoGame == 0

\* scope: the server, that is every player
Person(s)  == <<"player", s>>
Game(g)    == <<"game", g>>
\* scope: the members of the game
Seat(s)    == <<"seat", s>>
Board(g)   == <<"board", g>>
Options(g) == <<"options", g>>

Kinds == {"player", "seat"} \X Slots \union {"game", "board", "options"} \X Tables

Alive(w)      == {s \in Slots : w.players[s].alive}
Members(w, g) == {w.games[g].members[i] : i \in DOMAIN w.games[g].members}
Exists(w, g)  == w.games[g].status # "none"

\* the game whose members have the item in scope; NoGame: it is for everybody
Home(w, item) == IF item[1] \in {"player", "game"} THEN NoGame
                 ELSE IF item[1] = "seat" THEN w.players[item[2]].game
                 ELSE item[2]

\* the scope of the item has the player s in it; a player is in scope of himself
HasInScope(w, item, s) ==
  LET g == Home(w, item)
  IN  \/ item[1] \in {"player", "game"}
      \/ item = Seat(s)
      \/ g # NoGame /\ s \in Members(w, g)

\* setProperty with new values
Change(w, items) ==
  [w EXCEPT !.changed = @ \union items,
            !.views = [f \in Fds |-> @[f] \ items]]

\* properties removed from an object, or deleted with it
Forget(w, items) ==
  [w EXCEPT !.changed = @ \ items,
            !.views = [f \in Fds |-> @[f] \ items]]

\* Socket::ioWrite writes to it; a socket that is to be closed gets nothing
Writable(w, f) == f # NoFd /\ w.sockets[f] = "ok"

\* the connections of players that can be written to
Heard(w) == {f \in {w.players[s].socket : s \in Alive(w)} : Writable(w, f)}

Listener(w, f) == CHOOSE s \in Alive(w) : w.players[s].socket = f

\* each of the connections gets its items
Deliver(w, sent) ==
  [w EXCEPT !.views = [f \in Fds |-> @[f] \union sent[f]],
            !.lists = [f \in Fds |-> @[f] \union {i \in sent[f] : i[1] \in {"player", "game"}}]]

\* items written to the connection of a player
Tell(w, s, items) ==
  LET to == {w.players[s].socket}
  IN  Deliver(w, [f \in Fds |-> IF f \in to /\ Writable(w, f) THEN items ELSE {}])

\* deletegame or deleteplayer, written to all players
Delete(w, item) ==
  [w EXCEPT !.lists = [f \in Fds |-> IF f \in Heard(w) THEN @[f] \ {item} ELSE @[f]]]

\* unsetPropertiesChanged of everything
UnsetPropertiesChanged(w) == [w EXCEPT !.changed = {}]

\* Mutant of SendXMLUpdates: games do not send what changed on the board
SendXMLUpdatesNoChildren(w) ==
  LET own(f)  == {i \in w.changed : i[1] # "board" /\ HasInScope(w, i, Listener(w, f))}
      sent(f) == IF f \in Heard(w) THEN own(f) ELSE {}
  IN  UnsetPropertiesChanged(Deliver(w, [f \in Fds |-> sent(f)]))

\* sendXMLUpdates: the changed items go to the players who have them in scope, and
\* then the flags are reset
SendXMLUpdates(w) ==
  LET own(f)  == {i \in w.changed : HasInScope(w, i, Listener(w, f))}
      sent(f) == IF f \in Heard(w) THEN own(f) ELSE {}
  IN  UnsetPropertiesChanged(Deliver(w, [f \in Fds |-> sent(f)]))

\* the configuration of a game, written to one player
SendConfiguration(w, s, g) == Tell(w, s, {Options(g)})

\* all that is in the scope of the server
Public(w) == {Person(s) : s \in {t \in Alive(w) : w.players[t].identified}}
               \union {Game(g) : g \in {h \in Tables : Exists(w, h)}}

\* what the members of a game see of it once it has started
Visible(w, g) == {Board(g)} \union {Seat(s) : s \in Members(w, g)}

\* what Game::sendFullUpdate sends: nothing but the configuration before the start
FullUpdateOf(w, g) ==
  IF w.games[g].status = "config" THEN {Options(g)}
  ELSE Visible(w, g) \union {Person(t) : t \in Members(w, g)}

SendFullUpdate(w, s) == Tell(w, s, FullUpdateOf(w, w.players[s].game))

\* the full updates of all of m_players
SendFullUpdates(w, g) ==
  LET heard == {w.players[s].socket : s \in Members(w, g)}
  IN  Deliver(w, [f \in Fds |-> IF f \in heard /\ Writable(w, f)
                                THEN FullUpdateOf(w, g) ELSE {}])
=============================================================================
