------------------------- MODULE ServerViewsProofs -------------------------
(***************************************************************************)
(* Proofs that the clients of Server know what they should: all that is in *)
(* their scope now, as it is now (ClientsUpToDate), and no player or game  *)
(* that is gone (NoGhosts).                                                *)
(*                                                                         *)
(* Within a handler a client knows something, or the flag of it is set;    *)
(* Informed says so of every stage of a handler, and SendXMLUpdates makes  *)
(* the latter known.                                                       *)
(***************************************************************************)
EXTENDS ServerProofs

\* players whose clients are written to
Listening(v) ==
  {s \in Alive(v) : v.players[s].socket # NoFd /\ v.sockets[v.players[s].socket] = "ok"}

\* what is in the scope of the game of s that he shall know
DueAt(v, g) == IF g = NoGame THEN {}
               ELSE IF v.games[g].status = "config" THEN {Options(g)} ELSE Visible(v, g)

Due(v, s) == Public(v) \union DueAt(v, v.players[s].game)

\* what the client with the connection f knows, or will be told at the end of the handler
Known(v, f) == v.views[f] \union v.changed

Attended(v) ==
  \A f \in Fds : v.sockets[f] = "ok" => \E s \in Alive(v) : v.players[s].socket = f

Fresh(v) == \A s \in Listening(v) : Due(v, s) \subseteq Known(v, v.players[s].socket)

\* the players and games among the items are still there
Living(v, items) ==
  /\ \A s \in Slots : Person(s) \in items => s \in Alive(v)
  /\ \A g \in Tables : Game(g) \in items => Exists(v, g)

Ghostless(v) == Living(v, v.changed) /\ \A f \in Fds : Living(v, v.lists[f])

\* who is not written to lists nothing
Silent(v) == \A f \in Fds : v.sockets[f] # "ok" => v.lists[f] = {}

Informed(v) == Attended(v) /\ Fresh(v) /\ Ghostless(v) /\ Silent(v)

-----------------------------------------------------------------------------
(* Flags and messages *)

\* From v to h nobody forgets anything but lost, and nothing is flagged or written that
\* clients list but gained.
Tells(v, h, lost, gained) ==
  /\ h.sockets = v.sockets
  /\ \A f \in Fds : Known(v, f) \subseteq Known(h, f) \union lost
  /\ \A f \in Fds : h.lists[f] \subseteq v.lists[f] \union
                      (IF v.sockets[f] = "ok" THEN gained ELSE {})
  /\ {i \in h.changed : i[1] \in {"player", "game"}} \subseteq v.changed \union gained

Names(items) == {i \in items : i[1] \in {"player", "game"}}

\* one thing after the other
LEMMA TellsOn ==
  ASSUME NEW a, NEW b, NEW c, NEW lost, NEW more, NEW gained, NEW also,
         Tells(a, b, lost, gained), Tells(b, c, more, also)
  PROVE  Tells(a, c, lost \union more, gained \union also)
<1>1. c.sockets = a.sockets /\ b.sockets = a.sockets
  BY DEF Tells
<1>2. ASSUME NEW f \in Fds PROVE Known(a, f) \subseteq Known(c, f) \union (lost \union more)
  BY DEF Tells
<1>3. ASSUME NEW f \in Fds
      PROVE  c.lists[f] \subseteq a.lists[f] \union
               (IF a.sockets[f] = "ok" THEN gained \union also ELSE {})
  BY <1>1 DEF Tells
<1>4. {i \in c.changed : i[1] \in {"player", "game"}} \subseteq a.changed \union (gained \union also)
  BY DEF Tells
<1> QED
  BY <1>1, <1>2, <1>3, <1>4 DEF Tells

\* objects may change meanwhile
LEMMA SameFlagsTell ==
  ASSUME NEW v, NEW h, h.sockets = v.sockets, h.views = v.views, h.lists = v.lists,
         h.changed = v.changed
  PROVE  Tells(v, h, {}, {})
BY DEF Tells, Known

\* v has the parts of the server's state, whatever they are
Shaped(v) == v = [players |-> v.players, games |-> v.games, timers |-> v.timers,
                  sockets |-> v.sockets, views |-> v.views, lists |-> v.lists,
                  changed |-> v.changed]

\* the server's state has these parts
LEMMA WorldIsShaped ==
  ASSUME NEW v \in World
  PROVE  Shaped(v)
BY DEF World, Shaped

\* an assignment to the objects leaves flags and clients alone
LEMMA ObjectsShaped ==
  ASSUME NEW v, Shaped(v), NEW x
  PROVE  /\ Shaped([v EXCEPT !.players = x]) /\ Tells(v, [v EXCEPT !.players = x], {}, {})
         /\ Shaped([v EXCEPT !.games = x]) /\ Tells(v, [v EXCEPT !.games = x], {}, {})
<1>1. /\ Shaped([v EXCEPT !.players = x]) /\ Shaped([v EXCEPT !.games = x])
  BY DEF Shaped
<1>2. \A u \in {[v EXCEPT !.players = x], [v EXCEPT !.games = x]} :
        /\ u.sockets = v.sockets /\ u.views = v.views
        /\ u.lists = v.lists /\ u.changed = v.changed
  BY DEF Shaped
<1> QED
  BY <1>1, <1>2, SameFlagsTell

\* set flags keep things known
LEMMA ChangeShaped ==
  ASSUME NEW v, Shaped(v), NEW items
  PROVE  /\ Shaped(Change(v, items))
         /\ Tells(v, Change(v, items), {}, Names(items))
         /\ \A f \in Fds : items \subseteq Known(Change(v, items), f)
<1> DEFINE h == Change(v, items)
           views == [f \in Fds |-> v.views[f] \ items]
           changed == v.changed \union items
<1>1. h = [v EXCEPT !.changed = changed, !.views = views]
  BY DEF Change
<1>2. \A f \in Fds : views[f] = v.views[f] \ items
  OBVIOUS
<1> HIDE DEF views
<1>3. /\ h.changed = v.changed \union items
      /\ h.lists = v.lists /\ h.sockets = v.sockets
      /\ h.views = views
      /\ Shaped(h)
  BY <1>1 DEF Shaped
<1> HIDE DEF h
<1>4. \A f \in Fds : Known(v, f) \subseteq Known(h, f) /\ items \subseteq Known(h, f)
  BY <1>2, <1>3 DEF Known
<1> QED
  BY <1>3, <1>4 DEF h, Tells, Names

\* the same of the server's state
LEMMA ChangeTells ==
  ASSUME NEW v \in World, NEW items \in SUBSET Kinds
  PROVE  /\ Tells(v, Change(v, items), {}, Names(items))
         /\ \A f \in Fds : items \subseteq Known(Change(v, items), f)
BY WorldIsShaped, ChangeShaped

\* what is forgotten has no flag
LEMMA ForgetTells ==
  ASSUME NEW v \in World, NEW items
  PROVE  /\ Tells(v, Forget(v, items), items, {})
         /\ Forget(v, items).changed = v.changed \ items
         /\ Forget(v, items).lists = v.lists
<1> DEFINE h == Forget(v, items)
<1>1. /\ h.changed = v.changed \ items
      /\ h.lists = v.lists /\ h.sockets = v.sockets
      /\ \A f \in Fds : h.views[f] = v.views[f] \ items
  BY DEF Forget, World
<1> HIDE DEF h
<1>2. \A f \in Fds : Known(v, f) \subseteq Known(h, f) \union items
  BY <1>1 DEF Known
<1> QED
  BY <1>1, <1>2 DEF h, Tells

\* who is written to knows it
LEMMA DeliverTells ==
  ASSUME NEW v \in World, NEW sent \in [Fds -> SUBSET Kinds], NEW gained,
         \A f \in Fds : Names(sent[f]) \subseteq gained,
         \A f \in Fds : v.sockets[f] # "ok" => sent[f] = {}
  PROVE  /\ Tells(v, Deliver(v, sent), {}, gained)
         /\ \A f \in Fds : sent[f] \subseteq Known(Deliver(v, sent), f)
<1> DEFINE h == Deliver(v, sent)
<1>1. /\ h.changed = v.changed /\ h.sockets = v.sockets
      /\ \A f \in Fds : h.views[f] = v.views[f] \union sent[f]
      /\ \A f \in Fds : h.lists[f] = v.lists[f] \union Names(sent[f])
  BY DEF Deliver, World, Names
<1> HIDE DEF h
<1>2. \A f \in Fds : Known(v, f) \subseteq Known(h, f) /\ sent[f] \subseteq Known(h, f)
  BY <1>1 DEF Known
<1>3. ASSUME NEW f \in Fds
      PROVE  h.lists[f] \subseteq v.lists[f] \union (IF v.sockets[f] = "ok" THEN gained ELSE {})
  BY <1>1 DEF Names
<1> QED
  BY <1>1, <1>2, <1>3 DEF h, Tells

\* telling one player something tells it to nobody else
LEMMA TellShaped ==
  ASSUME NEW v, Shaped(v), NEW s, NEW items
  PROVE  Tells(v, Tell(v, s, items), {}, Names(items))
<1> DEFINE to == {v.players[s].socket}
           sent == [f \in Fds |-> IF f \in to /\ Writable(v, f) THEN items ELSE {}]
           views == [f \in Fds |-> v.views[f] \union sent[f]]
           lists == [f \in Fds |-> v.lists[f] \union Names(sent[f])]
           h == Tell(v, s, items)
<1>1. h = [v EXCEPT !.views = views, !.lists = lists]
  BY DEF Tell, Deliver, Names
<1>2. \A f \in Fds : v.views[f] \subseteq views[f]
  OBVIOUS
<1>3. ASSUME NEW f \in Fds
      PROVE  lists[f] \subseteq v.lists[f] \union
               (IF v.sockets[f] = "ok" THEN Names(items) ELSE {})
  BY DEF Names, Writable
<1> HIDE DEF views, lists
<1>4. /\ h.changed = v.changed /\ h.sockets = v.sockets /\ h.views = views /\ h.lists = lists
  BY <1>1 DEF Shaped
<1> HIDE DEF h
<1>5. \A f \in Fds : Known(v, f) \subseteq Known(h, f)
  BY <1>2, <1>4 DEF Known
<1> QED
  BY <1>3, <1>4, <1>5 DEF h, Tells

\* a player who is told something knows it
LEMMA TellTells ==
  ASSUME NEW v \in World, NEW s \in Slots, NEW items \in SUBSET Kinds
  PROVE  /\ Tells(v, Tell(v, s, items), {}, Names(items))
         /\ Writable(v, v.players[s].socket) =>
              items \subseteq Known(Tell(v, s, items), v.players[s].socket)
<1> DEFINE to == {v.players[s].socket}
           sent == [f \in Fds |-> IF f \in to /\ Writable(v, f) THEN items ELSE {}]
<1>1. sent \in [Fds -> SUBSET Kinds]
  OBVIOUS
<1>2. Tell(v, s, items) = Deliver(v, sent)
  BY DEF Tell
<1>3. /\ \A f \in Fds : Names(sent[f]) \subseteq Names(items)
      /\ \A f \in Fds : v.sockets[f] # "ok" => sent[f] = {}
  BY DEF Names, Writable
<1>4. Writable(v, v.players[s].socket) =>
        v.players[s].socket \in Fds /\ sent[v.players[s].socket] = items
  BY SocketsOf DEF Writable
<1> HIDE DEF sent
<1> QED
  BY <1>1, <1>2, <1>3, <1>4, DeliverTells

\* deletegame and deleteplayer reach all who are written to
LEMMA DeleteTells ==
  ASSUME NEW v \in World, NEW item
  PROVE  /\ Tells(v, Delete(v, item), {}, {})
         /\ Delete(v, item).changed = v.changed
         /\ \A f \in Fds : Delete(v, item).lists[f] =
                             IF f \in Heard(v) THEN v.lists[f] \ {item} ELSE v.lists[f]
<1> DEFINE h == Delete(v, item)
<1>1. /\ h.changed = v.changed /\ h.sockets = v.sockets /\ h.views = v.views
      /\ \A f \in Fds : h.lists[f] = IF f \in Heard(v) THEN v.lists[f] \ {item} ELSE v.lists[f]
  BY DEF Delete, World
<1> HIDE DEF h
<1> QED
  BY <1>1 DEF h, Tells, Known

\* what is seen of a game is listed by nobody
LEMMA NamesOf ==
  ASSUME NEW v, NEW s, NEW g
  PROVE  /\ Names({Person(s)}) = {Person(s)} /\ Names({Game(g)}) = {Game(g)}
         /\ Names({Seat(s)}) = {} /\ Names({Options(g)}) = {} /\ Names(Visible(v, g)) = {}
BY DEF Names, Person, Game, Seat, Options, Board, Visible

\* what clients list of two sets of items
LEMMA NamesUnion ==
  ASSUME NEW a, NEW b
  PROVE  Names(a \union b) = Names(a) \union Names(b)
BY DEF Names

-----------------------------------------------------------------------------
(* What the objects have to do with it *)

\* Nobody comes, gets a name or enters a game, and no game is opened or started.
Recedes(v, h) ==
  /\ Alive(h) \subseteq Alive(v)
  /\ \A t \in Alive(h) : /\ h.players[t].identified => v.players[t].identified
                         /\ h.players[t].game \in {v.players[t].game, NoGame}
  /\ \A k \in Tables : Exists(h, k) =>
       /\ Exists(v, k)
       /\ h.games[k].status = "config" <=> v.games[k].status = "config"

\* then nothing more is to be known
LEMMA DueRecedes ==
  ASSUME NEW v \in World, NEW h \in World,
         \A k \in Tables : Listed(v, k), \A k \in Tables : Table(h, k),
         Recedes(v, h), NEW t \in Alive(h)
  PROVE  Due(h, t) \subseteq Due(v, t)
<1> DEFINE g == h.players[t].game
<1>1. Public(h) \subseteq Public(v)
  BY DEF Public, Recedes
<1>2. CASE g = NoGame
  BY <1>1, <1>2 DEF Due, DueAt
<1>3. CASE g # NoGame
  <2>1. t \in Slots /\ g \in Tables /\ g = v.players[t].game
    BY <1>3, SocketsOf, Records DEF Recedes, PlayerRecord, Alive
  <2>2. Exists(h, g)
    BY <2>1 DEF Table, Listed, Sits
  <2>3. Visible(h, g) \subseteq Visible(v, g)
    <3>1. ASSUME NEW x \in Members(h, g) PROVE x \in Members(v, g)
      <4>1. x \in Slots /\ Sits(h, x, g)
        BY <2>1, MembersAreSlots DEF Table, Listed
      <4>2. Sits(v, x, g)
        BY <2>1, <4>1, LobbyAssumption DEF Sits, Recedes
      <4> QED
        BY <2>1, <4>1, <4>2 DEF Listed
    <3> QED
      BY <3>1 DEF Visible
  <2>4. DueAt(h, g) \subseteq DueAt(v, g)
    BY <1>3, <2>1, <2>2, <2>3 DEF DueAt, Recedes
  <2> QED
    BY <1>1, <2>1, <2>4 DEF Due
<1> QED
  BY <1>2, <1>3

\* items for everybody are of players and games only
LEMMA ItemsDiffer ==
  ASSUME NEW s, NEW t, NEW g, NEW k
  PROVE  /\ Person(s) # Game(g) /\ Person(s) # Seat(t) /\ Person(s) # Options(g)
         /\ Person(s) # Board(g) /\ Game(g) # Seat(t) /\ Game(g) # Options(k)
         /\ Game(g) # Board(k) /\ Seat(s) # Options(g) /\ Seat(s) # Board(g)
         /\ Options(g) # Board(k)
         /\ (Person(s) = Person(t) => s = t) /\ (Game(g) = Game(k) => g = k)
         /\ (Seat(s) = Seat(t) => s = t) /\ (Options(g) = Options(k) => g = k)
         /\ (Board(g) = Board(k) => g = k)
         /\ Person(s)[1] = "player" /\ Game(g)[1] = "game" /\ Seat(s)[1] = "seat"
         /\ Options(g)[1] = "options" /\ Board(g)[1] = "board"
         /\ Seat(s)[2] = s /\ Options(g)[2] = g /\ Board(g)[2] = g
BY DEF Person, Game, Seat, Options, Board

\* what was there and is not gone is there
LEMMA LivingOn ==
  ASSUME NEW v, NEW h, NEW lost, NEW gained, Tells(v, h, lost, gained), Ghostless(v),
         Alive(v) \subseteq Alive(h), \A g \in Tables : Exists(v, g) => Exists(h, g),
         Living(h, gained)
  PROVE  Ghostless(h)
<1>1. Living(h, h.changed)
  <2>1. ASSUME NEW s \in Slots, Person(s) \in h.changed PROVE s \in Alive(h)
    BY <2>1, ItemsDiffer DEF Tells, Ghostless, Living
  <2>2. ASSUME NEW g \in Tables, Game(g) \in h.changed PROVE Exists(h, g)
    BY <2>2, ItemsDiffer DEF Tells, Ghostless, Living
  <2> QED
    BY <2>1, <2>2 DEF Living
<1>2. ASSUME NEW f \in Fds PROVE Living(h, h.lists[f])
  <2>1. h.lists[f] \subseteq v.lists[f] \union gained
    BY DEF Tells
  <2> QED
    BY <2>1 DEF Living, Ghostless
<1> QED
  BY <1>1, <1>2 DEF Ghostless

\* nobody who is not written to gets anything
LEMMA SilentOn ==
  ASSUME NEW v, NEW h, NEW lost, NEW gained, Tells(v, h, lost, gained), Silent(v)
  PROVE  Silent(h)
BY DEF Tells, Silent

\* where nobody and no game disappears, everybody is informed if he knows what is new
LEMMA InformedOn ==
  ASSUME NEW v \in World, NEW h, NEW lost, NEW gained, Tells(v, h, lost, gained), Informed(v),
         SameWires(v, h), \A g \in Tables : Exists(v, g) => Exists(h, g),
         Living(h, gained),
         \A s \in Listening(h) :
           Due(h, s) \subseteq (Due(v, s) \ lost) \union Known(h, h.players[s].socket)
  PROVE  Informed(h)
<1>1. Alive(h) = Alive(v) /\ h.sockets = v.sockets
  BY DEF SameWires, Alive
<1>2. \A s \in Alive(v) : h.players[s].socket = v.players[s].socket
  BY DEF SameWires, Alive
<1>3. Attended(h)
  BY <1>1, <1>2 DEF Informed, Attended
<1>4. Ghostless(h) /\ Silent(h)
  BY <1>1, LivingOn, SilentOn DEF Informed
<1>5. ASSUME NEW s \in Listening(h)
      PROVE  Due(h, s) \subseteq Known(h, h.players[s].socket)
  <2> DEFINE f == h.players[s].socket
  <2>1. s \in Listening(v) /\ f = v.players[s].socket
    BY <1>1, <1>2 DEF Listening
  <2>2. Known(v, f) \subseteq Known(h, f) \union lost
    <3>1. f \in Fds
      BY <2>1, SocketsOf DEF Listening, Alive
    <3> QED
      BY <3>1 DEF Tells
  <2>3. Due(v, s) \subseteq Known(v, f)
    BY <2>1 DEF Informed, Fresh
  <2> QED
    BY <2>2, <2>3
<1> QED
  BY <1>3, <1>4, <1>5 DEF Informed, Fresh

\* what changes no object has nothing new to be known
LEMMA SameObjectsRecede ==
  ASSUME NEW v, NEW h, SameObjects(v, h)
  PROVE  /\ Recedes(v, h) /\ SameWires(v, h)
         /\ \A g \in Tables : Exists(v, g) <=> Exists(h, g)
         /\ \A items : Living(v, items) <=> Living(h, items)
<1>1. h.players = v.players /\ h.games = v.games /\ h.sockets = v.sockets
  BY DEF SameObjects
<1>2. Alive(h) = Alive(v) /\ \A g \in Tables : Exists(v, g) <=> Exists(h, g)
  BY <1>1 DEF Alive, Exists
<1> QED
  BY <1>1, <1>2 DEF Recedes, SameWires, Living

\* where nothing more is to be known, it is enough that nobody forgets
LEMMA InformedRecedes ==
  ASSUME NEW v, NEW h, Ready(v), Ready(h), Informed(v), SameWires(v, h), Recedes(v, h),
         \A g \in Tables : Exists(v, g) => Exists(h, g),
         NEW gained, Tells(v, h, {}, gained), Living(h, gained)
  PROVE  Informed(h)
<1>1. ASSUME NEW s \in Listening(h) PROVE Due(h, s) \subseteq Due(v, s)
  <2>1. s \in Alive(h)
    BY DEF Listening
  <2> QED
    BY <2>1, DueRecedes DEF Ready, Table
<1> QED
  BY <1>1, InformedOn DEF Ready

-----------------------------------------------------------------------------
(* The requests of players *)

\* a changed property is flagged
LEMMA ChangeInformed ==
  ASSUME NEW v, Ready(v), Informed(v), NEW items \in SUBSET Kinds, Living(v, Names(items))
  PROVE  Informed(Change(v, items))
<1> DEFINE h == Change(v, items)
<1>1. SameObjects(v, h) /\ Tells(v, h, {}, Names(items)) /\ Ready(h)
  BY ChangeSame, ChangeTells, ChangeReady DEF Ready
<1> HIDE DEF h
<1>2. Informed(h)
  BY <1>1, SameObjectsRecede, InformedRecedes
<1> QED
  BY <1>2 DEF h

\* the players and the games that items name
LEMMA LivingNames ==
  ASSUME NEW v
  PROVE  /\ Living(v, {})
         /\ \A s \in Alive(v) : Living(v, {Person(s)})
         /\ \A g \in Tables : Exists(v, g) => Living(v, {Game(g)})
         /\ \A a, b : Living(v, a) /\ Living(v, b) => Living(v, a \union b)
BY ItemsDiffer DEF Living

\* the settings
LEMMA SettingsInformed ==
  ASSUME NEW v, Ready(v), Informed(v), NEW s \in Alive(v)
  PROVE  /\ Informed(SetPlayerImage(v, s))
         /\ v.players[s].game # NoGame =>
              Informed(EditConfiguration(v, s)) /\ Informed(SetGameDescription(v, s))
<1>1. s \in Slots /\ v.players[s].game \in Tables \union {NoGame}
  BY Records DEF Ready, Alive, PlayerRecord
<1>2. Informed(SetPlayerImage(v, s))
  <2>1. {Person(s)} \in SUBSET Kinds /\ Names({Person(s)}) = {Person(s)}
    BY <1>1, ItemsAreKinds, NamesOf
  <2>2. Living(v, Names({Person(s)}))
    BY <2>1, LivingNames
  <2> QED
    BY <2>1, <2>2, ChangeInformed DEF SetPlayerImage
<1>3. ASSUME v.players[s].game # NoGame
      PROVE  Informed(EditConfiguration(v, s)) /\ Informed(SetGameDescription(v, s))
  <2> DEFINE g == v.players[s].game
  <2>1. g \in Tables /\ {Options(g)} \in SUBSET Kinds /\ {Game(g)} \in SUBSET Kinds
    BY <1>1, <1>3, ItemsAreKinds
  <2>2. Exists(v, g)
    BY <1>1, <2>1 DEF Ready, Table, Listed, Sits
  <2>3. Names({Options(g)}) = {} /\ Names({Game(g)}) = {Game(g)}
    BY NamesOf
  <2>4. Living(v, Names({Options(g)})) /\ Living(v, Names({Game(g)}))
    BY <2>1, <2>2, <2>3, LivingNames
  <2>5. Informed(Change(v, {Options(g)})) /\ Informed(Change(v, {Game(g)}))
    BY <2>1, <2>4, ChangeInformed
  <2> QED
    BY <2>5 DEF EditConfiguration, SetGameDescription
<1> QED
  BY <1>2, <1>3

\* a full update names those who are in the game
LEMMA FullUpdateLiving ==
  ASSUME NEW v, NEW g \in Tables, v \in World, Listed(v, g)
  PROVE  Living(v, Names(FullUpdateOf(v, g)))
<1>1. ASSUME NEW s \in Slots, Person(s) \in Names(FullUpdateOf(v, g)) PROVE s \in Alive(v)
  <2>1. Person(s) \in {Person(t) : t \in Members(v, g)}
    BY <1>1, ItemsDiffer DEF Names, FullUpdateOf, Visible
  <2>2. s \in Members(v, g)
    BY <2>1, ItemsDiffer
  <2> QED
    BY <2>2 DEF Listed, Sits
<1>2. ASSUME NEW k \in Tables PROVE Game(k) \notin Names(FullUpdateOf(v, g))
  BY ItemsDiffer DEF Names, FullUpdateOf, Visible
<1> QED
  BY <1>1, <1>2 DEF Living

\* .f
LEMMA SendFullUpdateInformed ==
  ASSUME NEW v, Ready(v), Informed(v), NEW s \in Alive(v), v.players[s].game # NoGame
  PROVE  Informed(SendFullUpdate(v, s))
<1> DEFINE g == v.players[s].game
           h == SendFullUpdate(v, s)
<1>1. /\ s \in Slots /\ g \in Tables /\ v \in World /\ Listed(v, g)
  BY Records DEF Ready, Alive, PlayerRecord, Table
<1>2. SameObjects(v, h) /\ Ready(h)
  BY <1>1, SendFullUpdateSame, SendFullUpdateReady
<1>3. Tells(v, h, {}, Names(FullUpdateOf(v, g)))
  BY <1>1, FullUpdateAreKinds, TellTells DEF SendFullUpdate
<1>4. Living(v, Names(FullUpdateOf(v, g)))
  BY <1>1, FullUpdateLiving
<1> HIDE DEF h, g
<1>5. Informed(h)
  BY <1>2, <1>3, <1>4, SameObjectsRecede, InformedRecedes
<1> QED
  BY <1>5 DEF h

\* a new name is for everybody
LEMMA SetPlayerNameInformed ==
  ASSUME NEW v, Ready(v), Informed(v), NEW s \in Alive(v)
  PROVE  Informed(SetPlayerName(v, s))
<1> DEFINE u == [v EXCEPT !.players[s].identified = TRUE]
           h == SetPlayerName(v, s)
<1>0. v \in World /\ s \in Slots /\ v.players[s] \in PlayerRecord
  BY Records DEF Ready, Alive
<1> DEFINE p == [v.players[s] EXCEPT !.identified = TRUE]
<1>1. /\ p \in PlayerRecord /\ p.alive = v.players[s].alive /\ p.game = v.players[s].game
      /\ p.socket = v.players[s].socket
  BY <1>0 DEF PlayerRecord
<1>2. u = [v EXCEPT !.players[s] = p]
  OBVIOUS
<1> HIDE DEF p
<1>3. /\ u \in World /\ u.games = v.games /\ u.players[s] = p
      /\ u.sockets = v.sockets /\ u.views = v.views /\ u.lists = v.lists
      /\ u.changed = v.changed
      /\ \A t \in Slots : t # s => u.players[t] = v.players[t]
  BY <1>0, <1>1, <1>2 DEF World
<1>4. h = Change(u, {Person(s)})
  BY DEF SetPlayerName
<1> HIDE DEF u, h
<1>5. /\ SameObjects(u, h) /\ Tells(u, h, {}, {Person(s)}) /\ Tells(v, u, {}, {})
      /\ \A f \in Fds : Person(s) \in Known(h, f)
  <2>1. {Person(s)} \in SUBSET Kinds /\ Names({Person(s)}) = {Person(s)}
    BY <1>0, ItemsAreKinds, NamesOf
  <2>2. /\ SameObjects(u, h) /\ Tells(u, h, {}, Names({Person(s)}))
        /\ \A f \in Fds : {Person(s)} \subseteq Known(h, f)
    BY <1>3, <1>4, <2>1, ChangeSame, ChangeTells
  <2>3. Tells(v, u, {}, {})
    BY <1>3, SameFlagsTell
  <2> QED
    BY <2>1, <2>2, <2>3
<1>6. Tells(v, h, {}, {Person(s)})
  <2>1. Tells(v, h, {} \union {}, {} \union {Person(s)})
    BY <1>5, TellsOn
  <2> QED
    BY <2>1
<1>7. /\ h.players = u.players /\ h.games = v.games /\ h.sockets = v.sockets /\ h \in World
  BY <1>3, <1>5 DEF SameObjects
<1>8. SameWires(v, h) /\ Alive(h) = Alive(v)
  BY <1>1, <1>3, <1>7 DEF SameWires, Alive
<1>9. \A g \in Tables : Exists(v, g) <=> Exists(h, g)
  BY <1>7 DEF Exists
<1>10. \A t \in Slots : h.players[t].game = v.players[t].game
  BY <1>1, <1>3, <1>7
<1>11. Public(h) \subseteq Public(v) \union {Person(s)}
  BY <1>3, <1>7, <1>8, <1>9 DEF Public, Alive
<1>12. \A g : DueAt(h, g) = DueAt(v, g)
  BY <1>7 DEF DueAt, Visible, Members
<1>13. ASSUME NEW t \in Listening(h)
       PROVE  Due(h, t) \subseteq (Due(v, t) \ {}) \union Known(h, h.players[t].socket)
  <2>1. t \in Slots /\ h.players[t].socket \in Fds
    BY <1>7, SocketsOf DEF Listening, Alive
  <2> QED
    BY <1>5, <1>10, <1>11, <1>12, <2>1 DEF Due
<1>14. Informed(h)
  BY <1>0, <1>6, <1>8, <1>9, <1>13, LivingNames, InformedOn
<1> QED
  BY <1>14 DEF h

\* where nobody forgets anything, and then again nobody
LEMMA TellsTwice ==
  ASSUME NEW a, NEW b, NEW c, NEW gained, NEW also,
         Tells(a, b, {}, gained), Tells(b, c, {}, also)
  PROVE  Tells(a, c, {}, gained \union also)
<1>1. Tells(a, c, {} \union {}, gained \union also)
  BY TellsOn
<1> QED
  BY <1>1

\* more may be listed than is
LEMMA TellsMore ==
  ASSUME NEW v, NEW h, NEW lost, NEW gained, NEW more,
         Tells(v, h, lost, gained), gained \subseteq more
  PROVE  Tells(v, h, lost, more)
<1>1. ASSUME NEW f \in Fds
      PROVE  h.lists[f] \subseteq v.lists[f] \union (IF v.sockets[f] = "ok" THEN more ELSE {})
  BY DEF Tells
<1> QED
  BY <1>1 DEF Tells

\* a bankruptcy is flagged, and so is the end of the game
LEMMA BankruptTells ==
  ASSUME NEW v, Shaped(v), NEW g, NEW s
  PROVE  Shaped(Bankrupt(v, g, s)) /\ Tells(v, Bankrupt(v, g, s), {}, {Game(g)})
<1> DEFINE u == [v EXCEPT !.players[s].bankrupt = TRUE]
           items == {Seat(s)} \union Visible(v, g)
           c == Change(u, items)
           e == [c EXCEPT !.games[g].status = "end"]
           d == Change(e, {Game(g)})
           h == Bankrupt(v, g, s)
<1>1. h \in {v, c, d}
  BY DEF Bankrupt
<1> HIDE DEF h
<1>2. Shaped(u) /\ Tells(v, u, {}, {})
  BY ObjectsShaped
<1>3. Names(items) = {}
  <2>1. Names(items) = Names({Seat(s)}) \union Names(Visible(v, g))
    BY NamesUnion
  <2> QED
    BY <2>1, NamesOf
<1> HIDE DEF u, items
<1>4. Shaped(c) /\ Tells(u, c, {}, {})
  BY <1>2, <1>3, ChangeShaped
<1> HIDE DEF c
<1>5. Shaped(e) /\ Tells(c, e, {}, {})
  BY <1>4, ObjectsShaped
<1> HIDE DEF e
<1>6. Shaped(d) /\ Tells(e, d, {}, {Game(g)})
  <2>1. Names({Game(g)}) = {Game(g)}
    BY NamesOf
  <2> QED
    BY <1>5, <2>1, ChangeShaped
<1> HIDE DEF d
<1>7. Tells(v, c, {}, {} \union {}) /\ Tells(c, d, {}, {} \union {Game(g)})
  BY <1>2, <1>4, <1>5, <1>6, TellsTwice
<1>8. Tells(v, d, {}, ({} \union {}) \union ({} \union {Game(g)}))
  BY <1>7, TellsTwice
<1>9. Tells(v, v, {}, {})
  BY SameFlagsTell
<1>10. Tells(v, h, {}, ({} \union {}) \union ({} \union {Game(g)}))
  BY <1>1, <1>7, <1>8, <1>9, TellsMore
<1>11. ({} \union {}) \union ({} \union {Game(g)}) = {Game(g)}
  OBVIOUS
<1>12. Tells(v, h, {}, {Game(g)}) /\ Shaped(h)
  BY <1>1, <1>4, <1>6, <1>10, <1>11
<1> QED
  BY <1>12 DEF h

\* a bankruptcy in a running game
LEMMA BankruptInformed ==
  ASSUME NEW v, Ready(v), Informed(v), NEW g \in Tables, NEW s \in Active(v, g),
         v.games[g].status = "run"
  PROVE  Informed(Bankrupt(v, g, s))
<1> DEFINE h == Bankrupt(v, g, s)
<1>1. /\ v \in World /\ s \in Slots /\ v.players[s] \in PlayerRecord
  BY MembersAreSlots, Records DEF Ready, Active, Seated
<1>2. Ruined(v, h, g, s) /\ Tells(v, h, {}, {Game(g)}) /\ Ready(h) /\ SameWires(v, h)
  BY <1>1, BankruptRuins, WorldIsShaped, BankruptTells, BankruptReady
<1> HIDE DEF h
<1>3. /\ h.players[s].identified = v.players[s].identified
      /\ h.players[s].game = v.players[s].game
      /\ \A t \in Slots : t # s => h.players[t] = v.players[t]
  <2>1. PICK b \in BOOLEAN : h.players[s] = [v.players[s] EXCEPT !.bankrupt = b]
    BY <1>2 DEF Ruined
  <2> QED
    BY <1>1, <1>2, <2>1 DEF PlayerRecord, Ruined
<1>4. /\ h.games[g].status \in {"run", "end"}
      /\ \A k \in Tables : k # g => h.games[k] = v.games[k]
  BY <1>2 DEF Ruined
<1>5. \A k \in Tables : Exists(h, k) <=> Exists(v, k)
  BY <1>4 DEF Exists
<1>6. Alive(h) = Alive(v) /\ Alive(v) \subseteq Slots
  BY <1>2 DEF SameWires, Alive
<1>7. Recedes(v, h)
  <2>1. ASSUME NEW t \in Alive(h)
        PROVE  /\ h.players[t].identified = v.players[t].identified
               /\ h.players[t].game = v.players[t].game
    BY <1>3, <1>6
  <2>2. ASSUME NEW k \in Tables
        PROVE  h.games[k].status = "config" <=> v.games[k].status = "config"
    BY <1>4
  <2> QED
    BY <1>5, <1>6, <2>1, <2>2 DEF Recedes
<1>8. Living(h, {Game(g)})
  BY <1>4, LivingNames DEF Exists
<1>9. Informed(h)
  BY <1>2, <1>5, <1>7, <1>8, InformedRecedes
<1> QED
  BY <1>9 DEF h

\* a promoted spectator is known already
LEMMA UpgradeInformed ==
  ASSUME NEW v, Ready(v), Informed(v), NEW s \in Alive(v), NEW t \in Slots,
         v.players[s].game # NoGame
  PROVE  Informed(Upgrade(v, s, t))
<1> DEFINE g == v.players[s].game
           p == [v.players[t] EXCEPT !.spectator = FALSE]
           r == [v.games[g] EXCEPT !.members = Promoted(v, @, t)]
           u1 == [v EXCEPT !.players[t] = p]
           u == [u1 EXCEPT !.games[g] = r]
           items == {Game(g), Seat(t)}
           h == Upgrade(v, s, t)
<1> SUFFICES Informed(h)
  OBVIOUS
<1>1. h = v \/ h = Change(u, items)
  <2>1. [v EXCEPT !.players[t].spectator = FALSE, !.games[g].members = Promoted(v, @, t)] = u
    OBVIOUS
  <2> QED
    BY <2>1 DEF Upgrade
<1>2. Ready(h) /\ SameWires(v, h)
  BY UpgradeReady
<1> HIDE DEF h
<1>3. /\ v \in World /\ g \in Tables /\ v.games[g] \in GameRecord /\ Table(v, g)
      /\ v.players[t] \in PlayerRecord
  BY Records DEF Ready, Alive, PlayerRecord
<1>4. Exists(v, g)
  BY <1>3 DEF Table, Listed, Sits, Alive
<1> HIDE DEF g
<1>5. CASE h = v
  BY <1>5
<1>6. CASE h = Change(u, items)
  <2>1. /\ p.identified = v.players[t].identified /\ p.game = v.players[t].game
        /\ p.alive = v.players[t].alive /\ p.socket = v.players[t].socket
    BY <1>3 DEF PlayerRecord
  <2>2. r.status = v.games[g].status
    BY <1>3 DEF GameRecord
  <2> HIDE DEF p, r
  <2>3. /\ u.games[g] = r /\ \A k \in Tables : k # g => u.games[k] = v.games[k]
        /\ u.players[t] = p /\ \A x \in Slots : x # t => u.players[x] = v.players[x]
        /\ u.sockets = v.sockets /\ u.views = v.views /\ u.lists = v.lists
        /\ u.changed = v.changed
    <3>1. /\ u1.players[t] = p /\ \A x \in Slots : x # t => u1.players[x] = v.players[x]
          /\ u1.sockets = v.sockets /\ u1.views = v.views /\ u1.lists = v.lists
          /\ u1.changed = v.changed /\ u1.games = v.games
      BY <1>3 DEF World
    <3>2. /\ u.players = u1.players /\ u.games[g] = r
          /\ u.sockets = u1.sockets /\ u.views = u1.views /\ u.lists = u1.lists
          /\ u.changed = u1.changed
          /\ \A k \in Tables : k # g => u.games[k] = u1.games[k]
      BY <1>3 DEF World
    <3> HIDE DEF u, u1
    <3> QED
      BY <3>1, <3>2
  <2>4. /\ h.players = u.players /\ h.games = u.games
        /\ Tells(u, h, {}, Names(items))
    <3>1. h \in World
      BY <1>2 DEF Ready
    <3>2. /\ h.players = u.players /\ h.games = u.games /\ h.sockets = u.sockets
          /\ h.changed = u.changed \union items /\ h.lists = u.lists
          /\ \A f \in Fds : h.views[f] = u.views[f] \ items
      BY <1>3, <1>6 DEF Change, World
    <3> HIDE DEF u, items
    <3>3. \A f \in Fds : Known(u, f) \subseteq Known(h, f)
      BY <3>2 DEF Known
    <3> QED
      BY <3>2, <3>3 DEF Tells, Names
  <2>5. Names(items) = {Game(g)}
    <3>1. Names(items) = Names({Game(g)}) \union Names({Seat(t)})
      BY DEF Names
    <3> QED
      BY <3>1, NamesOf
  <2> HIDE DEF u, items
  <2>6. Tells(v, h, {}, {Game(g)})
    <3>1. Tells(v, u, {}, {})
      BY <2>3, SameFlagsTell
    <3>2. Tells(v, h, {}, {} \union Names(items))
      BY <2>4, <3>1, TellsTwice
    <3> QED
      BY <2>5, <3>2
  <2>7. \A k \in Tables : h.games[k].status = v.games[k].status
    BY <2>2, <2>3, <2>4
  <2>8. \A x \in Slots : /\ h.players[x].identified = v.players[x].identified
                         /\ h.players[x].game = v.players[x].game
                         /\ h.players[x].alive = v.players[x].alive
    BY <2>1, <2>3, <2>4
  <2>9. Recedes(v, h)
    BY <2>7, <2>8 DEF Recedes, Exists, Alive
  <2>10. Living(h, {Game(g)}) /\ \A k \in Tables : Exists(v, k) => Exists(h, k)
    BY <1>3, <1>4, <2>7, LivingNames DEF Exists
  <2> QED
    BY <1>2, <2>6, <2>9, <2>10, InformedRecedes
<1> QED
  BY <1>1, <1>5, <1>6

\* who enters a game learns what there is, and the others learn of him
LEMMA AddPlayerInformed ==
  ASSUME NEW v \in World, Informed(v), NEW s \in Alive(v), NEW g \in Tables,
         NEW watch \in BOOLEAN, NEW first \in BOOLEAN,
         v.players[s].game = NoGame, Exists(v, g), Listed(v, g),
         first => v.games[g].status = "config" /\ Options(g) \in v.changed
  PROVE  Informed(AddPlayer(v, s, g, watch, first))
<1> DEFINE u == Seating(v, s, g, watch)
           items == {Person(s), Seat(s), Game(g)}
           c == Change(u, items)
           r2 == [c.games[g] EXCEPT !.master = s]
           c2 == [c EXCEPT !.games[g] = r2]
           h == AddPlayer(v, s, g, watch, first)
<1> SUFFICES Informed(h)
  OBVIOUS
<1>1. h = IF first THEN c2 ELSE SendFullUpdate(c, s)
  BY DEF AddPlayer, Seating
<1> HIDE DEF h
<1>2. /\ s \in Slots /\ v.players[s] \in PlayerRecord /\ v.games[g] \in GameRecord
      /\ v.players[s].alive
      /\ v.games[g].members \in Seq(Slots)
      /\ Append(v.games[g].members, s) \in Seq(Slots)
  BY Records DEF Alive, GameRecord
<1>3. Range(Append(v.games[g].members, s)) = Members(v, g) \union {s}
  <2>1. /\ IsInjective(v.games[g].members)
        /\ Members(v, g) = Range(v.games[g].members)
        /\ s \notin Members(v, g)
    BY <1>2, MembersAreSlots, LobbyAssumption DEF Listed, Sits
  <2> QED
    BY <1>2, <2>1, AppendIsAddition
<1>4. SatDown(v, u, s, g, watch)
  BY <1>2, SeatingSits
<1>5. u.views = v.views /\ u.lists = v.lists /\ u.changed = v.changed
  BY DEF Seating, World
<1> HIDE DEF u
<1>6. /\ u \in World /\ u.sockets = v.sockets
      /\ u.players[s].game = g /\ u.players[s].identified = v.players[s].identified
      /\ u.players[s].socket = v.players[s].socket
      /\ u.players[s].alive = v.players[s].alive
      /\ \A t \in Slots : t # s => u.players[t] = v.players[t]
      /\ u.games[g].status = v.games[g].status
      /\ u.games[g].members = Append(v.games[g].members, s)
      /\ \A k \in Tables : k # g => u.games[k] = v.games[k]
  BY <1>2, <1>4 DEF SatDown, PlayerRecord, GameRecord
<1>7. items \in SUBSET Kinds /\ Names(items) = {Person(s), Game(g)}
  <2>1. Names(items) = (Names({Person(s)}) \union Names({Seat(s)})) \union Names({Game(g)})
    BY DEF Names
  <2>2. Names(items) = ({Person(s)} \union {}) \union {Game(g)}
    BY <2>1, NamesOf
  <2> QED
    BY <1>2, <2>2, ItemsAreKinds
<1> HIDE DEF items
<1>8. /\ SameObjects(u, c) /\ Tells(u, c, {}, {Person(s), Game(g)})
      /\ \A f \in Fds : items \subseteq Known(c, f)
  BY <1>6, <1>7, ChangeSame, ChangeTells
<1>9. c.changed = v.changed \union items
  BY <1>5, <1>6 DEF Change, World
<1> HIDE DEF c
<1>10. /\ c \in World /\ c.players = u.players /\ c.games = u.games /\ c.sockets = v.sockets
  BY <1>6, <1>8 DEF SameObjects
<1>11. Tells(v, c, {}, {Person(s), Game(g)})
  <2>1. Tells(v, u, {}, {})
    BY <1>5, <1>6, SameFlagsTell
  <2>2. Tells(v, c, {}, {} \union {Person(s), Game(g)})
    BY <1>8, <2>1, TellsTwice
  <2> QED
    BY <2>2
<1>12. Members(c, g) = Members(v, g) \union {s}
  <2>1. Members(c, g) = Range(c.games[g].members)
    BY <1>10, MembersAreSlots
  <2>2. c.games[g].members = Append(v.games[g].members, s)
    BY <1>6, <1>10
  <2> QED
    BY <1>3, <2>1, <2>2
<1>13. \A k \in Tables : c.games[k].status = v.games[k].status
  BY <1>6, <1>10
<1>14. \A k \in Tables : k # g => Members(c, k) = Members(v, k)
  BY <1>6, <1>10 DEF Members
<1>15. \A t \in Slots : /\ c.players[t].alive = v.players[t].alive
                        /\ c.players[t].socket = v.players[t].socket
                        /\ c.players[t].identified = v.players[t].identified
  BY <1>2, <1>6, <1>10
<1> DEFINE gained == {Person(s), Game(g)} \union Names(FullUpdateOf(c, g))
<1>16. /\ h.players = c.players /\ h.sockets = v.sockets
       /\ \A k \in Tables : h.games[k].status = c.games[k].status /\ Members(h, k) = Members(c, k)
       /\ Tells(v, h, {}, gained)
       /\ \A f \in Fds : Known(c, f) \subseteq Known(h, f)
       /\ s \in Listening(h) => DueAt(c, g) \subseteq Known(h, h.players[s].socket)
  <2>1. CASE first
    <3>1. h = c2
      BY <1>1, <2>1
    <3>2. c.games[g] \in GameRecord
      BY <1>10, Records
    <3>3. /\ r2.status = c.games[g].status /\ r2.members = c.games[g].members
      BY <3>2 DEF GameRecord
    <3> HIDE DEF r2
    <3>4. /\ h.players = c.players /\ h.sockets = c.sockets /\ h.games[g] = r2
          /\ \A k \in Tables : k # g => h.games[k] = c.games[k]
          /\ h.views = c.views /\ h.lists = c.lists /\ h.changed = c.changed
      BY <1>10, <3>1 DEF World
    <3>5. \A k \in Tables : h.games[k].status = c.games[k].status
                            /\ Members(h, k) = Members(c, k)
      BY <3>3, <3>4 DEF Members
    <3>6. Tells(v, h, {}, gained)
      <4>1. Tells(c, h, {}, {})
        BY <3>4, SameFlagsTell
      <4>2. Tells(v, h, {}, {Person(s), Game(g)} \union {})
        BY <1>11, <4>1, TellsTwice
      <4>3. {Person(s), Game(g)} \union {} \subseteq gained
        OBVIOUS
      <4> QED
        BY <4>2, <4>3, TellsMore
    <3>7. DueAt(c, g) = {Options(g)}
      BY <1>13, <2>1, LobbyAssumption DEF DueAt
    <3>8. \A f : Options(g) \in Known(h, f)
      BY <1>9, <2>1, <3>4 DEF Known
    <3>9. \A f : Known(h, f) = Known(c, f)
      BY <3>4 DEF Known
    <3> QED
      BY <1>10, <3>4, <3>5, <3>6, <3>7, <3>8, <3>9
  <2>2. CASE ~first
    <3>1. h = SendFullUpdate(c, s) /\ c.players[s].game = g
      BY <1>1, <1>6, <1>10, <2>2
    <3>2. c.players[s].game # NoGame
      BY <3>1, LobbyAssumption
    <3>3. SameObjects(c, h)
      BY <1>2, <1>10, <3>1, <3>2, SendFullUpdateSame
    <3>4. FullUpdateOf(c, g) \in SUBSET Kinds /\ h = Tell(c, s, FullUpdateOf(c, g))
      BY <1>10, <3>1, FullUpdateAreKinds DEF SendFullUpdate
    <3>5. /\ Tells(c, h, {}, Names(FullUpdateOf(c, g)))
          /\ Writable(c, c.players[s].socket) =>
               FullUpdateOf(c, g) \subseteq Known(h, c.players[s].socket)
      BY <1>2, <1>10, <3>4, TellTells
    <3>6. Tells(v, h, {}, gained)
      BY <1>11, <3>5, TellsTwice
    <3>7. /\ h.players = c.players /\ h.games = c.games /\ h.sockets = c.sockets
      BY <3>3 DEF SameObjects
    <3>8. s \in Listening(h) => Writable(c, c.players[s].socket)
      BY <3>7 DEF Listening, Writable
    <3>9. DueAt(c, g) \subseteq FullUpdateOf(c, g)
      BY LobbyAssumption DEF DueAt, FullUpdateOf
    <3>10. \A k \in Tables : Members(h, k) = Members(c, k)
      BY <3>7 DEF Members
    <3>11. \A f \in Fds : Known(c, f) \subseteq Known(h, f)
      BY <3>5 DEF Tells
    <3> QED
      BY <1>10, <3>5, <3>6, <3>7, <3>8, <3>9, <3>10, <3>11
  <2> QED
    BY <2>1, <2>2
<1>17. SameWires(v, h) /\ Alive(h) = Alive(v)
  BY <1>15, <1>16 DEF SameWires, Alive
<1>18. \A k \in Tables : Exists(v, k) <=> Exists(h, k)
  BY <1>13, <1>16 DEF Exists
<1>19. Living(h, gained)
  <2>1. Living(h, {Person(s)}) /\ Living(h, {Game(g)})
    BY <1>17, <1>18, LivingNames
  <2>2. Living(h, Names(FullUpdateOf(c, g)))
    <3>1. ASSUME NEW t \in Slots, Person(t) \in Names(FullUpdateOf(c, g)) PROVE t \in Alive(h)
      <4>1. Person(t) \in {Person(x) : x \in Members(c, g)}
        BY <3>1, ItemsDiffer DEF Names, FullUpdateOf, Visible
      <4>2. t \in Members(v, g) \union {s}
        BY <1>12, <4>1, ItemsDiffer
      <4> QED
        BY <1>17, <4>2 DEF Listed, Sits
    <3>2. ASSUME NEW k \in Tables PROVE Game(k) \notin Names(FullUpdateOf(c, g))
      BY ItemsDiffer DEF Names, FullUpdateOf, Visible
    <3> QED
      BY <3>1, <3>2 DEF Living
  <2> QED
    BY <2>1, <2>2 DEF Living
<1>20. Public(h) = Public(v)
  BY <1>15, <1>16, <1>17, <1>18 DEF Public, Alive
<1>21. \A k \in Tables \union {NoGame} : DueAt(h, k) = DueAt(c, k)
  BY <1>16 DEF DueAt, Visible
<1>22. ASSUME NEW k \in Tables \union {NoGame}
       PROVE  DueAt(c, k) \subseteq DueAt(v, k) \union {Seat(s)}
  BY <1>12, <1>13, <1>14 DEF DueAt, Visible
<1>23. ASSUME NEW t \in Listening(h)
       PROVE  Due(h, t) \subseteq (Due(v, t) \ {}) \union Known(h, h.players[t].socket)
  <2> DEFINE f == h.players[t].socket
  <2>1. t \in Slots /\ f \in Fds /\ h.players[t].game \in Tables \union {NoGame}
    BY <1>10, <1>16, SocketsOf, Records DEF Listening, Alive, PlayerRecord
  <2>2. Seat(s) \in Known(h, f)
    BY <1>8, <1>16, <2>1 DEF items
  <2>3. CASE t = s
    <3>1. DueAt(h, h.players[t].game) \subseteq Known(h, f)
      BY <1>6, <1>10, <1>16, <1>21, <2>3
    <3> QED
      BY <1>20, <3>1 DEF Due
  <2>4. CASE t # s
    <3>1. h.players[t].game = v.players[t].game
      BY <1>6, <1>10, <1>16, <2>1, <2>4
    <3>2. DueAt(h, h.players[t].game) \subseteq DueAt(v, v.players[t].game) \union {Seat(s)}
      BY <1>21, <1>22, <2>1, <3>1
    <3> QED
      BY <1>20, <2>2, <3>2 DEF Due
  <2> QED
    BY <2>3, <2>4
<1> HIDE DEF gained
<1> QED
  BY <1>16, <1>17, <1>18, <1>19, <1>23, InformedOn

\* a new game is for everybody, and its options for its creator
LEMMA NewGameInformed ==
  ASSUME NEW v, Ready(v), Informed(v), NEW s \in Alive(v), NEW g \in FreeTables(v),
         v.players[s].game = NoGame
  PROVE  Informed(NewGame(v, s, g))
<1> DEFINE r == [v.games[g] EXCEPT !.status = "config"]
           u == [v EXCEPT !.games[g] = r]
           items == {Game(g), Options(g)}
           c == Change(u, items)
<1>1. NewGame(v, s, g) = AddPlayer(c, s, g, FALSE, TRUE)
  BY DEF NewGame
<1>2. /\ v \in World /\ g \in Tables /\ v.games[g] \in GameRecord /\ ~Exists(v, g)
      /\ Table(v, g) /\ s \in Slots
  BY Records DEF Ready, FreeTables, Alive
<1>3. r \in GameRecord /\ r.status = "config" /\ r.members = v.games[g].members
  BY <1>2 DEF GameRecord
<1> HIDE DEF r
<1>4. /\ u \in World /\ u.players = v.players /\ u.sockets = v.sockets /\ u.views = v.views
      /\ u.lists = v.lists /\ u.changed = v.changed /\ u.games[g] = r
      /\ \A k \in Tables : k # g => u.games[k] = v.games[k]
  BY <1>2, <1>3 DEF World
<1> HIDE DEF u
<1>5. items \in SUBSET Kinds /\ Names(items) = {Game(g)}
  <2>1. Names(items) = Names({Game(g)}) \union Names({Options(g)})
    BY DEF Names
  <2> QED
    BY <1>2, <2>1, NamesOf, ItemsAreKinds
<1> HIDE DEF items
<1>6. /\ SameObjects(u, c) /\ Tells(u, c, {}, {Game(g)})
      /\ \A f \in Fds : items \subseteq Known(c, f)
      /\ c.changed = u.changed \union items
  <2>1. c.changed = u.changed \union items
    BY <1>4 DEF Change, World
  <2> QED
    BY <1>4, <1>5, <2>1, ChangeSame, ChangeTells
<1> HIDE DEF c
<1>7. /\ c \in World /\ c.players = v.players /\ c.games = u.games /\ c.sockets = v.sockets
  BY <1>4, <1>6 DEF SameObjects
<1>8. Tells(v, c, {}, {Game(g)})
  <2>1. Tells(v, u, {}, {})
    BY <1>4, SameFlagsTell
  <2>2. Tells(v, c, {}, {} \union {Game(g)})
    BY <1>6, <2>1, TellsTwice
  <2> QED
    BY <2>2
<1>9. SameWires(v, c) /\ Alive(c) = Alive(v)
  BY <1>7 DEF SameWires, Alive
<1>10. Exists(c, g) /\ \A k \in Tables : k # g => (Exists(c, k) <=> Exists(v, k))
  BY <1>3, <1>4, <1>7 DEF Exists
<1>11. Members(c, g) = {} /\ \A k \in Tables : Members(c, k) = Members(v, k)
  <2>1. \A k \in Tables : c.games[k].members = v.games[k].members
    BY <1>3, <1>4, <1>7
  <2>2. \A k \in Tables : Members(c, k) = Members(v, k)
    BY <2>1 DEF Members
  <2> QED
    BY <1>2, <2>2 DEF Table
<1>12. ASSUME NEW t \in Listening(c)
       PROVE  Due(c, t) \subseteq (Due(v, t) \ {}) \union Known(c, c.players[t].socket)
  <2>1. t \in Slots /\ c.players[t].socket \in Fds /\ v.players[t].game \in Tables \union {NoGame}
    BY <1>2, <1>7, SocketsOf, Records DEF Listening, Alive, PlayerRecord
  <2>2. Public(c) \subseteq Public(v) \union {Game(g)}
    BY <1>7, <1>9, <1>10 DEF Public
  <2>3. v.players[t].game # g
    <3>1. t \in Alive(v)
      BY <1>9 DEF Listening
    <3> QED
      BY <1>2, <2>1, <3>1 DEF Table, Listed, Sits
  <2>4. DueAt(c, c.players[t].game) = DueAt(v, v.players[t].game)
    BY <1>4, <1>7, <1>11, <2>1, <2>3 DEF DueAt, Visible
  <2>5. Game(g) \in Known(c, c.players[t].socket)
    BY <1>6, <2>1 DEF items
  <2> QED
    BY <2>2, <2>4, <2>5 DEF Due
<1>13. Informed(c)
  <2>1. Living(c, {Game(g)}) /\ \A k \in Tables : Exists(v, k) => Exists(c, k)
    BY <1>2, <1>10, LivingNames
  <2> QED
    BY <1>2, <1>8, <1>9, <1>12, <2>1, InformedOn
<1>14. Listed(c, g)
  BY <1>2, <1>3, <1>4, <1>7, <1>9, <1>11 DEF Table, Listed, Sits
<1>15. c.games[g].status = "config" /\ Options(g) \in c.changed
  BY <1>3, <1>4, <1>6, <1>7 DEF items
<1>16. Informed(AddPlayer(c, s, g, FALSE, TRUE))
  BY <1>2, <1>7, <1>9, <1>10, <1>13, <1>14, <1>15, AddPlayerInformed
<1> QED
  BY <1>1, <1>16

\* players and spectators who come
LEMMA JoinGameInformed ==
  ASSUME NEW v, Ready(v), Informed(v), NEW s \in Alive(v), NEW g \in Tables \ FreeTables(v),
         v.players[s].game = NoGame
  PROVE  Informed(JoinGame(v, s, g)) /\ Informed(WatchGame(v, s, g))
<1>1. v \in World /\ Exists(v, g) /\ Listed(v, g) /\ g \in Tables
  BY DEF Ready, Table, FreeTables
<1>2. \A b \in BOOLEAN : Informed(AddPlayer(v, s, g, b, FALSE))
  BY <1>1, AddPlayerInformed
<1> QED
  BY <1>2 DEF JoinGame, WatchGame

\* a game that starts is shown to all its players
LEMMA StartInformed ==
  ASSUME NEW v, Ready(v), Informed(v), NEW s \in Alive(v), v.players[s].game # NoGame,
         NEW order \in SetToSeqs(Members(v, v.players[s].game))
  PROVE  Informed(Start(v, s, order))
<1> DEFINE g == v.players[s].game
           may == /\ s = v.games[g].master /\ v.games[g].status = "config"
                  /\ Cardinality(Seated(v, g)) >= MinPlayers
           r == [v.games[g] EXCEPT !.status = "run", !.members = order]
           u == [v EXCEPT !.games[g] = r]
           items == {Game(g)} \union {Seat(t) : t \in Members(v, g)}
           c == Change(u, items)
           heard == {c.players[t].socket : t \in Members(c, g)}
           sent == [f \in Fds |-> IF f \in heard /\ Writable(c, f)
                                  THEN FullUpdateOf(c, g) ELSE {}]
           h == Start(v, s, order)
<1> SUFFICES Informed(h)
  OBVIOUS
<1>1. /\ v \in World /\ g \in Tables /\ v.games[g] \in GameRecord /\ Table(v, g)
      /\ Members(v, g) \in SUBSET Slots /\ IsFiniteSet(Members(v, g))
  BY Records, MembersAreSlots, RaceOf DEF Ready, Alive, PlayerRecord
<1>2. h = IF may THEN SendFullUpdates(c, g) ELSE v
  <2>1. ASSUME NEW k \in Tables
        PROVE  [v EXCEPT !.games[k].status = "run", !.games[k].members = order]
               = [v EXCEPT !.games[k] = [@ EXCEPT !.status = "run", !.members = order]]
    BY <1>1 DEF World, GameRecord
  <2>2. [v EXCEPT !.games[g].status = "run", !.games[g].members = order] = u
    BY <1>1, <2>1, Zenon
  <2> QED
    BY <2>2 DEF Start
<1>3. SameWires(v, h)
  BY StartReady
<1> HIDE DEF h
<1>4. order \in Seq(Slots) /\ Range(order) = Members(v, g)
  BY <1>1, OrderIsTheSet
<1> HIDE DEF g
<1>5. CASE ~may
  BY <1>2, <1>5
<1>6. CASE may
  <2>1. /\ r \in GameRecord /\ r.status = "run" /\ r.members = order
    BY <1>1, <1>4 DEF GameRecord
  <2> HIDE DEF r
  <2>2. /\ u \in World /\ u.players = v.players /\ u.sockets = v.sockets
        /\ u.views = v.views /\ u.lists = v.lists /\ u.changed = v.changed
        /\ u.games[g] = r /\ \A k \in Tables : k # g => u.games[k] = v.games[k]
    BY <1>1, <2>1 DEF World
  <2> HIDE DEF u
  <2>3. items \in SUBSET Kinds
    BY <1>1, ItemsAreKinds
  <2>4. Names(items) = {Game(g)}
    <3>1. \A i \in {Seat(t) : t \in Members(v, g)} : i[1] = "seat"
      BY ItemsDiffer
    <3> QED
      BY <3>1, ItemsDiffer DEF Names
  <2> HIDE DEF items
  <2>5. SameObjects(u, c) /\ Tells(u, c, {}, {Game(g)})
    BY <2>2, <2>3, <2>4, ChangeSame, ChangeTells
  <2> HIDE DEF c
  <2>6. /\ c \in World /\ c.players = v.players /\ c.games = u.games
        /\ c.sockets = v.sockets
    BY <2>2, <2>5 DEF SameObjects
  <2>7. h = Deliver(c, sent)
    BY <1>2, <1>6 DEF SendFullUpdates
  <2> DEFINE all == FullUpdateOf(c, g)
  <2>8. all \in SUBSET Kinds
    BY <1>1, <2>6, FullUpdateAreKinds
  <2>9. /\ sent \in [Fds -> SUBSET Kinds]
        /\ \A f \in Fds : Names(sent[f]) \subseteq Names(all)
        /\ \A f \in Fds : c.sockets[f] # "ok" => sent[f] = {}
    BY <2>8 DEF Names, Writable
  <2>10. \A f \in heard : f \in Fds /\ Writable(c, f) => sent[f] = all
    OBVIOUS
  <2> HIDE DEF sent
  <2>11. /\ SameObjects(c, h) /\ Tells(c, h, {}, Names(all))
         /\ \A f \in Fds : sent[f] \subseteq Known(h, f)
    BY <2>6, <2>7, <2>9, DeliverSame, DeliverTells
  <2>12. /\ h.players = v.players /\ h.games = c.games /\ h.sockets = v.sockets
    BY <2>6, <2>11 DEF SameObjects
  <2>13. Members(c, g) = Members(v, g) /\ Members(h, g) = Members(v, g)
    <3>1. Members(c, g) = Range(c.games[g].members)
      BY <1>1, <2>6, MembersAreSlots
    <3>2. c.games[g].members = order
      BY <2>1, <2>2, <2>6
    <3> QED
      BY <1>4, <2>12, <3>1, <3>2 DEF Members
  <2>14. h.games[g].status = "run" /\ c.games[g].status = "run" /\ Exists(v, g)
    BY <1>6, <2>1, <2>2, <2>6, <2>12 DEF Exists
  <2>15. \A k \in Tables : k # g => h.games[k] = v.games[k]
    BY <2>2, <2>6, <2>12
  <2>16. /\ \A k \in Tables : Exists(h, k) <=> Exists(v, k)
         /\ Alive(h) = Alive(v)
    BY <2>12, <2>14, <2>15 DEF Exists, Alive
  <2> DEFINE gained == {Game(g)} \union Names(all)
  <2>17. Tells(v, h, {}, gained)
    <3>1. Tells(v, u, {}, {})
      BY <2>2, SameFlagsTell
    <3>2. Tells(v, c, {}, {} \union {Game(g)})
      BY <2>5, <3>1, TellsTwice
    <3>3. Tells(v, c, {}, {Game(g)})
      BY <3>2
    <3> QED
      BY <2>11, <3>3, TellsTwice
  <2>18. Living(h, gained)
    <3>1. Alive(c) = Alive(v) /\ \A t, k : Sits(c, t, k) <=> Sits(v, t, k)
      BY <2>6 DEF Alive, Sits
    <3>2. ASSUME NEW t \in Slots, Person(t) \in gained PROVE t \in Alive(h)
      <4>1. Person(t) \in {Person(x) : x \in Members(c, g)}
        BY <3>2, ItemsDiffer DEF Names, FullUpdateOf, Visible
      <4>2. t \in Members(v, g)
        BY <2>13, <4>1, ItemsDiffer
      <4> QED
        BY <1>1, <2>16, <4>2 DEF Table, Listed, Sits
    <3>3. ASSUME NEW k \in Tables, Game(k) \in gained PROVE Exists(h, k)
      <4>1. Game(k) \notin Names(all)
        BY ItemsDiffer DEF Names, FullUpdateOf, Visible
      <4> QED
        BY <2>14, <2>16, <3>3, <4>1, ItemsDiffer
    <3> HIDE DEF gained
    <3> QED
      BY <3>2, <3>3 DEF Living
  <2>19. Public(h) = Public(v)
    BY <2>12, <2>16 DEF Public
  <2>20. ASSUME NEW t \in Listening(h)
         PROVE  Due(h, t) \subseteq (Due(v, t) \ {}) \union Known(h, h.players[t].socket)
    <3> DEFINE f == h.players[t].socket
               k == h.players[t].game
    <3>1. /\ t \in Slots /\ t \in Alive(v) /\ f \in Fds /\ k \in Tables \union {NoGame}
          /\ f = c.players[t].socket /\ k = v.players[t].game /\ Writable(c, f)
      BY <1>1, <2>6, <2>12, <2>16, SocketsOf, Records
         DEF Listening, Alive, PlayerRecord, Writable
    <3>2. CASE k = g
      <4>1. t \in Members(c, g)
        BY <1>1, <2>13, <3>1, <3>2 DEF Table, Listed, Sits
      <4>2. all \subseteq Known(h, f)
        BY <2>10, <2>11, <3>1, <4>1
      <4>3. DueAt(h, g) \subseteq all
        BY <2>13, <2>14 DEF DueAt, FullUpdateOf, Visible
      <4> QED
        BY <2>19, <3>1, <3>2, <4>2, <4>3 DEF Due
    <3>3. CASE k # g
      <4>1. \A x \in Tables \union {NoGame} : x # g => DueAt(h, x) = DueAt(v, x)
        BY <2>15 DEF DueAt, Visible, Members
      <4> QED
        BY <2>19, <3>1, <3>3, <4>1 DEF Due
    <3> QED
      BY <3>2, <3>3
  <2> HIDE DEF gained
  <2> QED
    BY <1>1, <1>3, <2>16, <2>17, <2>18, <2>20, InformedOn
<1> QED
  BY <1>5, <1>6

-----------------------------------------------------------------------------
(* Players who leave *)

\* who leaves is flagged, and so is his game
LEMMA RemovePlayerTells ==
  ASSUME NEW v \in World, NEW s
  PROVE  Tells(v, RemovePlayer(v, s), {}, {Game(v.players[s].game), Person(s)})
<1> DEFINE g == v.players[s].game
           rows == [v.games EXCEPT ![g].members = Without(@, s)]
           u1 == [v EXCEPT !.games = rows]
           w1 == Change(u1, {Game(g)})
           w2 == IF v.games[g].status = "run" THEN Bankrupt(w1, g, s) ELSE w1
           u3 == [w2 EXCEPT !.players[s].game = NoGame]
           w3 == Change(u3, {Person(s)})
           m == w3.games[g].members[1]
           u4 == [w3 EXCEPT !.games[g].master = m]
           w4 == Change(u4, {Game(g)})
           w5 == SendConfiguration(w4, m, g)
           h == RemovePlayer(v, s)
           both == {Game(g), Person(s)}
<1> SUFFICES Tells(v, h, {}, both)
  OBVIOUS
<1>1. h \in {w3, w4, w5}
  <2>1. [v EXCEPT !.games[g].members = Without(@, s)] = u1
    OBVIOUS
  <2>2. h = IF s = v.games[g].master /\ Members(w3, g) # {} THEN NewMaster(w3, g) ELSE w3
    BY <2>1 DEF RemovePlayer
  <2>3. NewMaster(w3, g) \in {w4, w5}
    BY DEF NewMaster
  <2> HIDE DEF h, w3, w4, w5
  <2> QED
    BY <2>2, <2>3
<1>2. Names({Game(g)}) = {Game(g)} /\ Names({Person(s)}) = {Person(s)}
      /\ Names({Options(g)}) = {}
  BY NamesOf
<1> HIDE DEF h
<1>3. Shaped(u1) /\ Tells(v, u1, {}, {})
  BY WorldIsShaped, ObjectsShaped
<1> HIDE DEF u1, rows
<1>4. Shaped(w1) /\ Tells(u1, w1, {}, {Game(g)})
  <2>1. Shaped(w1) /\ Tells(u1, w1, {}, Names({Game(g)}))
    BY <1>3, ChangeShaped
  <2> QED
    BY <1>2, <2>1
<1>5. Shaped(w2) /\ Tells(w1, w2, {}, {Game(g)})
  <2>1. Tells(w1, w1, {}, {Game(g)})
    <3>1. Tells(w1, w1, {}, {})
      BY SameFlagsTell
    <3> QED
      BY <3>1, TellsMore
  <2>2. Shaped(Bankrupt(w1, g, s)) /\ Tells(w1, Bankrupt(w1, g, s), {}, {Game(g)})
    BY <1>4, BankruptTells
  <2> HIDE DEF w1
  <2> QED
    BY <1>4, <2>1, <2>2
<1> HIDE DEF w1, w2
<1>6. Shaped(u3) /\ Tells(w2, u3, {}, {})
  BY <1>5, ObjectsShaped
<1> HIDE DEF u3
<1>7. Shaped(w3) /\ Tells(u3, w3, {}, {Person(s)})
  <2>1. Shaped(w3) /\ Tells(u3, w3, {}, Names({Person(s)}))
    BY <1>6, ChangeShaped
  <2> QED
    BY <1>2, <2>1
<1> HIDE DEF w3, m
<1>8. Shaped(u4) /\ Tells(w3, u4, {}, {})
  BY <1>7, ObjectsShaped
<1> HIDE DEF u4
<1>9. Shaped(w4) /\ Tells(u4, w4, {}, {Game(g)})
  <2>1. Shaped(w4) /\ Tells(u4, w4, {}, Names({Game(g)}))
    BY <1>8, ChangeShaped
  <2> QED
    BY <1>2, <2>1
<1> HIDE DEF w4
<1>10. Tells(w4, w5, {}, {})
  <2>1. Tells(w4, w5, {}, Names({Options(g)}))
    BY <1>9, TellShaped DEF SendConfiguration
  <2> QED
    BY <1>2, <2>1
<1> HIDE DEF w5
<1>11. \A a, b, c : Tells(a, b, {}, both) /\ Tells(b, c, {}, both) => Tells(a, c, {}, both)
  <2>1. both \union both = both
    OBVIOUS
  <2> HIDE DEF both
  <2>2. ASSUME NEW a, NEW b, NEW c, Tells(a, b, {}, both), Tells(b, c, {}, both)
        PROVE  Tells(a, c, {}, both)
    <3>1. Tells(a, c, {}, both \union both)
      BY <2>2, TellsTwice
    <3> QED
      BY <2>1, <3>1
  <2> QED
    BY <2>2
<1>12. /\ {} \subseteq both /\ {Game(g)} \subseteq both /\ {Person(s)} \subseteq both
  OBVIOUS
<1> HIDE DEF both
<1>13. /\ Tells(v, u1, {}, both) /\ Tells(u1, w1, {}, both) /\ Tells(w1, w2, {}, both)
       /\ Tells(w2, u3, {}, both) /\ Tells(u3, w3, {}, both) /\ Tells(w3, u4, {}, both)
       /\ Tells(u4, w4, {}, both) /\ Tells(w4, w5, {}, both)
  BY <1>3, <1>4, <1>5, <1>6, <1>7, <1>8, <1>9, <1>10, <1>12, TellsMore
<1>14. Tells(v, w1, {}, both) /\ Tells(w1, u3, {}, both)
  BY <1>11, <1>13
<1>15. Tells(v, u3, {}, both)
  BY <1>11, <1>14
<1>16. Tells(v, w3, {}, both)
  BY <1>11, <1>13, <1>15
<1>17. Tells(w3, w4, {}, both)
  BY <1>11, <1>13
<1>18. Tells(v, w4, {}, both)
  BY <1>11, <1>16, <1>17
<1>19. Tells(v, w5, {}, both)
  BY <1>11, <1>13, <1>18
<1> QED
  BY <1>1, <1>16, <1>18, <1>19

\* what is deleted is listed by nobody
LEMMA DeleteReaches ==
  ASSUME NEW v \in World, Attended(v), Silent(v), NEW item, NEW f \in Fds
  PROVE  item \notin Delete(v, item).lists[f]
<1>1. Delete(v, item).lists[f] = IF f \in Heard(v) THEN v.lists[f] \ {item} ELSE v.lists[f]
  BY DeleteTells
<1>2. f \notin Heard(v) => v.sockets[f] # "ok"
  BY LobbyAssumption DEF Attended, Heard, Writable, NoFd
<1>3. f \notin Heard(v) => v.lists[f] = {}
  BY <1>2 DEF Silent
<1> QED
  BY <1>1, <1>3

\* what is gone is not listed if it is nowhere
LEMMA GhostlessOn ==
  ASSUME NEW v, NEW h, NEW lost, NEW gained, Tells(v, h, lost, gained), Ghostless(v), NEW gone,
         \A s \in Alive(v) : s \in Alive(h) \/ Person(s) \in gone,
         \A g \in Tables : Exists(v, g) => Exists(h, g) \/ Game(g) \in gone,
         Living(h, gained \ gone),
         h.changed \intersect gone = {},
         \A f \in Fds : h.lists[f] \intersect gone = {}
  PROVE  Ghostless(h)
<1>1. Living(h, h.changed)
  <2>1. ASSUME NEW s \in Slots, Person(s) \in h.changed PROVE s \in Alive(h)
    <3>1. Person(s) \in v.changed \/ Person(s) \in gained
      BY <2>1, ItemsDiffer DEF Tells
    <3> QED
      BY <2>1, <3>1 DEF Ghostless, Living
  <2>2. ASSUME NEW g \in Tables, Game(g) \in h.changed PROVE Exists(h, g)
    <3>1. Game(g) \in v.changed \/ Game(g) \in gained
      BY <2>2, ItemsDiffer DEF Tells
    <3> QED
      BY <2>2, <3>1 DEF Ghostless, Living
  <2> QED
    BY <2>1, <2>2 DEF Living
<1>2. ASSUME NEW f \in Fds PROVE Living(h, h.lists[f])
  <2>1. h.lists[f] \subseteq v.lists[f] \union gained
    BY DEF Tells
  <2> QED
    BY <2>1 DEF Living, Ghostless
<1> QED
  BY <1>1, <1>2 DEF Ghostless

\* where somebody or something goes, it is enough that what is lost is not to be known
LEMMA InformedParts ==
  ASSUME NEW v \in World, NEW h \in World, \A k \in Tables : Listed(v, k),
         \A k \in Tables : Table(h, k), Recedes(v, h),
         NEW lost, NEW gained, Tells(v, h, lost, gained), Informed(v),
         \A t \in Listening(h) : h.players[t].socket = v.players[t].socket,
         \A t \in Listening(h) : Due(h, t) \intersect lost = {},
         Attended(h), Ghostless(h)
  PROVE  Informed(h)
<1>1. Silent(h)
  BY SilentOn DEF Informed
<1>2. ASSUME NEW t \in Listening(h)
      PROVE  Due(h, t) \subseteq Known(h, h.players[t].socket)
  <2> DEFINE f == h.players[t].socket
  <2>1. t \in Alive(h) /\ t \in Listening(v) /\ f = v.players[t].socket
    BY DEF Listening, Recedes, Tells
  <2>2. f \in Fds
    BY <2>1, SocketsOf DEF Listening
  <2>3. Due(h, t) \subseteq Due(v, t)
    BY <2>1, DueRecedes
  <2>4. Due(v, t) \subseteq Known(v, f)
    BY <2>1 DEF Informed, Fresh
  <2>5. Known(v, f) \subseteq Known(h, f) \union lost
    BY <2>2 DEF Tells
  <2> QED
    BY <2>3, <2>4, <2>5
<1> QED
  BY <1>1, <1>2 DEF Informed, Fresh

\* a player leaves his game, and the last one takes it with him
LEMMA OutInformed ==
  ASSUME NEW v, NEW s \in Alive(v), ReadyBut(v, s), v.players[s].game # NoGame, Informed(v)
  PROVE  Informed(DelGame(RemovePlayer(v, s), v.players[s].game))
<1> DEFINE g == v.players[s].game
           l == RemovePlayer(v, s)
           d == Delete(l, Game(g))
           e == [d EXCEPT !.games[g] = NoTable,
                          !.timers = [t \in Slots |-> [@[t] EXCEPT ![g] = 0]]]
           items == {Game(g), Board(g), Options(g)}
           o == DelGame(l, g)
<1> SUFFICES Informed(o)
  OBVIOUS
<1>1. /\ v \in World /\ s \in Slots /\ g \in Tables
      /\ \A k \in Tables : Table(v, k)
  BY Records DEF ReadyBut, Alive, PlayerRecord
<1>2. Left(v, l, s) /\ Out(v, o, s)
  BY RemovePlayerLeaves, DelGameIsOut
<1>3. Tells(v, l, {}, {Game(g), Person(s)})
  BY <1>1, RemovePlayerTells
<1>4. o = IF Members(l, g) # {} THEN l ELSE Forget(e, items)
  BY DEF DelGame
<1> HIDE DEF o, l
<1>5. Exists(v, g)
  BY <1>1 DEF Table, Listed, Sits, g
<1> HIDE DEF g
<1>6. /\ o \in World /\ o.sockets = v.sockets /\ \A k \in Tables : Table(o, k)
      /\ \A t \in Slots : t # s => o.players[t] = v.players[t]
      /\ o.players[s].alive /\ o.players[s].game = NoGame
      /\ o.players[s].socket = v.players[s].socket
      /\ o.players[s].identified = v.players[s].identified
  BY <1>2 DEF Out, ReadyBut
<1>7. Alive(o) = Alive(v) /\ \A t \in Slots : o.players[t].socket = v.players[t].socket
  BY <1>6 DEF Alive
<1>8. Recedes(v, o)
  BY <1>2, <1>6, <1>7 DEF Recedes, Out, Fewer, Alive
<1>9. Attended(o)
  BY <1>6, <1>7 DEF Informed, Attended, Alive
<1>10. \A t \in Listening(o) : o.players[t].socket = v.players[t].socket
  BY <1>7 DEF Listening, Alive
<1>11. /\ l \in World /\ l.sockets = v.sockets /\ Alive(l) = Alive(v)
       /\ \A t \in Slots : l.players[t].socket = v.players[t].socket
       /\ \A k \in Tables : k # g => l.games[k] = v.games[k]
       /\ Members(l, g) # {} => Table(l, g)
       /\ l.games[g].status \in {v.games[g].status, "end"}
  <2>1. /\ l \in World /\ l.sockets = v.sockets
        /\ \A t \in Slots : t # s => l.players[t] = v.players[t]
        /\ l.players[s].alive /\ l.players[s].socket = v.players[s].socket
        /\ \A k \in Tables : k # g => l.games[k] = v.games[k]
        /\ Members(l, g) # {} => Table(l, g)
        /\ l.games[g].status \in {v.games[g].status, "end"}
    BY <1>2 DEF Left, g
  <2> QED
    BY <2>1 DEF Alive
<1>12. \A k \in Tables : Exists(v, k) => Exists(l, k)
  BY <1>5, <1>11 DEF Exists
<1>13. CASE Members(l, g) # {}
  <2>1. o = l
    BY <1>4, <1>13
  <2>2. Living(o, {Game(g), Person(s)})
    <3>1. Exists(o, g) /\ s \in Alive(o)
      BY <1>1, <1>5, <1>7, <1>12, <2>1
    <3> QED
      BY <3>1, ItemsDiffer DEF Living
  <2>3. Ghostless(o)
    BY <1>3, <1>7, <1>12, <2>1, <2>2, LivingOn DEF Informed
  <2>4. \A t \in Listening(o) : Due(o, t) \intersect {} = {}
    OBVIOUS
  <2> QED
    BY <1>1, <1>3, <1>6, <1>8, <1>9, <1>10, <2>1, <2>3, <2>4, InformedParts DEF Table
<1>14. CASE Members(l, g) = {}
  <2> DEFINE timers == [t \in Slots |-> [d.timers[t] EXCEPT ![g] = 0]]
  <2>1. SameObjects(l, d) /\ Tells(l, d, {}, {}) /\ d.changed = l.changed
    BY <1>11, DeleteSame, DeleteTells
  <2>2. \A f \in Fds : Game(g) \notin d.lists[f]
    <3>1. Attended(l) /\ Silent(l)
      BY <1>3, <1>11, SilentOn DEF Informed, Attended, Alive
    <3> QED
      BY <1>11, <3>1, DeleteReaches
  <2>3. NoTable \in GameRecord /\ NoTable.status = "none"
    BY DEF NoTable, GameRecord
  <2>4. timers \in [Slots -> [Tables -> 0..MaxTimers]]
    <3>1. d.timers \in [Slots -> [Tables -> 0..MaxTimers]]
      BY <2>1 DEF World, SameObjects
    <3>2. 0 \in 0..MaxTimers
      BY LobbyAssumption
    <3>3. \A t \in Slots : [d.timers[t] EXCEPT ![g] = 0] \in [Tables -> 0..MaxTimers]
      BY <3>1, <3>2
    <3> QED
      BY <3>3
  <2>5. e = [d EXCEPT !.games[g] = NoTable, !.timers = timers]
    OBVIOUS
  <2> HIDE DEF d, e, timers, NoTable
  <2>6. /\ e \in World /\ e.sockets = d.sockets /\ e.views = d.views /\ e.lists = d.lists
        /\ e.changed = d.changed /\ e.players = d.players /\ e.games[g] = NoTable
        /\ \A k \in Tables : k # g => e.games[k] = d.games[k]
    BY <1>1, <2>1, <2>3, <2>4, <2>5 DEF World, SameObjects
  <2>7. o = Forget(e, items)
    BY <1>4, <1>14
  <2>8. /\ Tells(e, o, items, {}) /\ o.changed = e.changed \ items /\ o.lists = e.lists
        /\ SameObjects(e, o)
    BY <2>6, <2>7, ForgetTells, ForgetSame
  <2>9. Tells(v, o, items, {Game(g), Person(s)})
    <3>1. Tells(d, e, {}, {})
      BY <2>6, SameFlagsTell
    <3>2. Tells(v, d, {} \union {}, {Game(g), Person(s)} \union {})
      BY <1>3, <2>1, TellsOn
    <3>3. Tells(v, d, {}, {Game(g), Person(s)})
      BY <3>2
    <3>4. Tells(v, e, {} \union {}, {Game(g), Person(s)} \union {})
      BY <3>1, <3>3, TellsOn
    <3>5. Tells(v, e, {}, {Game(g), Person(s)})
      BY <3>4
    <3>6. Tells(v, o, {} \union items, {Game(g), Person(s)} \union {})
      BY <2>8, <3>5, TellsOn
    <3> QED
      BY <3>6
  <2>10. /\ ~Exists(o, g) /\ \A k \in Tables : k # g => o.games[k] = v.games[k]
    BY <1>1, <1>11, <2>1, <2>3, <2>6, <2>8 DEF SameObjects, Exists
  <2> DEFINE gone == {Game(g)}
  <2>11. Ghostless(o)
    <3>1. \A k \in Tables : Exists(v, k) => Exists(o, k) \/ Game(k) \in gone
      BY <2>10 DEF Exists
    <3>2. Living(o, {Game(g), Person(s)} \ gone)
      BY <1>1, <1>7, ItemsDiffer DEF Living
    <3>3. o.changed \intersect gone = {} /\ \A f \in Fds : o.lists[f] \intersect gone = {}
      BY <2>2, <2>6, <2>8
    <3> HIDE DEF gone, items
    <3> QED
      BY <1>7, <2>9, <3>1, <3>2, <3>3, GhostlessOn DEF Informed
  <2>12. ASSUME NEW t \in Listening(o) PROVE Due(o, t) \intersect items = {}
    <3> DEFINE k == o.players[t].game
    <3>1. t \in Alive(o) /\ t \in Slots /\ k \in Tables \union {NoGame}
      BY <1>6, Records DEF Listening, Alive, PlayerRecord
    <3>2. k # g
      BY <1>1, <1>6, <2>10, <3>1 DEF Table, Listed, Sits
    <3>3. Public(o) \intersect items = {}
      BY <2>10, ItemsDiffer DEF Public
    <3>4. DueAt(o, k) \intersect items = {}
      BY <3>2, ItemsDiffer DEF DueAt, Visible
    <3> QED
      BY <3>3, <3>4 DEF Due
  <2> HIDE DEF items
  <2> QED
    BY <1>1, <1>6, <1>8, <1>9, <1>10, <2>9, <2>11, <2>12, InformedParts DEF Table
<1> QED
  BY <1>13, <1>14

\* and if he was in none, nothing happens
LEMMA OutOrNotInformed ==
  ASSUME NEW v, NEW s \in Alive(v), ReadyBut(v, s), Informed(v), NEW o,
         o = IF v.players[s].game = NoGame THEN v
             ELSE DelGame(RemovePlayer(v, s), v.players[s].game)
  PROVE  Informed(o) /\ Out(v, o, s)
<1>1. CASE v.players[s].game = NoGame
  BY <1>1 DEF Out, ReadyBut, Alive, Fewer
<1>2. CASE v.players[s].game # NoGame
  BY <1>2, OutInformed, DelGameIsOut
<1> QED
  BY <1>1, <1>2

\* who is deleted and was not written to is missed by nobody
LEMMA DelPlayerInformed ==
  ASSUME NEW v, NEW s \in Alive(v), ReadyBut(v, s), Informed(v), s \notin Listening(v)
  PROVE  Informed(DelPlayer(v, s))
<1> DEFINE g == v.players[s].game
           o == IF g = NoGame THEN v ELSE DelGame(RemovePlayer(v, s), g)
           d == Delete(o, Person(s))
           e == [d EXCEPT !.players[s] = Deleted]
           items == {Person(s), Seat(s)}
           h == DelPlayer(v, s)
<1> SUFFICES Informed(h)
  OBVIOUS
<1>1. h = Forget(e, items)
  BY DEF DelPlayer
<1>2. Informed(o) /\ Out(v, o, s)
  BY OutOrNotInformed
<1>3. Gone(v, h, s)
  BY DelPlayerIsGone
<1> HIDE DEF o, h, g
<1>4. /\ o \in World /\ s \in Slots /\ o.sockets = v.sockets
      /\ \A t \in Slots : t # s => o.players[t] = v.players[t]
      /\ o.players[s].alive /\ o.players[s].game = NoGame
      /\ o.players[s].socket = v.players[s].socket
      /\ \A k \in Tables : Table(o, k)
  BY <1>2 DEF Out, ReadyBut, Alive
<1>5. SameObjects(o, d) /\ Tells(o, d, {}, {}) /\ d.changed = o.changed
      /\ \A f \in Fds : Person(s) \notin d.lists[f]
  BY <1>2, <1>4, DeleteSame, DeleteTells, DeleteReaches DEF Informed
<1>6. Deleted \in PlayerRecord /\ ~Deleted.alive
  BY DEF Deleted, PlayerRecord
<1> HIDE DEF d, Deleted
<1>7. /\ e \in World /\ e.sockets = d.sockets /\ e.views = d.views /\ e.lists = d.lists
      /\ e.changed = d.changed /\ e.games = d.games /\ e.players[s] = Deleted
      /\ \A t \in Slots : t # s => e.players[t] = d.players[t]
  BY <1>4, <1>5, <1>6 DEF World, SameObjects
<1> HIDE DEF e
<1>8. /\ Tells(e, h, items, {}) /\ h.changed = e.changed \ items /\ h.lists = e.lists
      /\ SameObjects(e, h)
  BY <1>1, <1>7, ForgetTells, ForgetSame
<1>9. Tells(o, h, items, {})
  <2>1. Tells(d, e, {}, {})
    BY <1>7, SameFlagsTell
  <2>2. Tells(o, e, {} \union {}, {} \union {})
    BY <1>5, <2>1, TellsOn
  <2>3. Tells(o, e, {}, {})
    BY <2>2
  <2>4. Tells(o, h, {} \union items, {} \union {})
    BY <1>8, <2>3, TellsOn
  <2> QED
    BY <2>4
<1>10. /\ h \in World /\ h.games = o.games /\ h.sockets = o.sockets
       /\ h.players[s] = Deleted
       /\ \A t \in Slots : t # s => h.players[t] = o.players[t]
  BY <1>5, <1>7, <1>8 DEF SameObjects
<1>11. Alive(h) = Alive(o) \ {s}
  BY <1>6, <1>10 DEF Alive
<1>12. \A t \in Alive(h) : t \in Slots /\ t # s /\ h.players[t] = o.players[t]
  BY <1>10, <1>11 DEF Alive
<1>13. Recedes(o, h)
  BY <1>10, <1>11, <1>12 DEF Recedes, Exists
<1>14. s \notin Listening(o)
  BY <1>4 DEF Listening, Alive
<1>15. Attended(h)
  <2>1. ASSUME NEW f \in Fds, h.sockets[f] = "ok"
        PROVE  \E t \in Alive(h) : h.players[t].socket = f
    <3>1. PICK t \in Alive(o) : o.players[t].socket = f
      BY <1>2, <1>10, <2>1 DEF Informed, Attended
    <3>2. t # s
      BY <1>10, <1>14, <2>1, <3>1, LobbyAssumption DEF Listening, NoFd
    <3> QED
      BY <1>11, <1>12, <3>1, <3>2
  <2> QED
    BY <2>1 DEF Attended
<1> DEFINE gone == {Person(s)}
<1>16. Ghostless(h)
  <2>1. \A t \in Alive(o) : t \in Alive(h) \/ Person(t) \in gone
    BY <1>11
  <2>2. Living(h, {} \ gone)
    BY DEF Living
  <2>3. h.changed \intersect gone = {} /\ \A f \in Fds : h.lists[f] \intersect gone = {}
    BY <1>5, <1>7, <1>8
  <2>4. \A k \in Tables : Exists(o, k) => Exists(h, k) \/ Game(k) \in gone
    BY <1>10 DEF Exists
  <2> HIDE DEF gone, items
  <2> QED
    BY <1>2, <1>9, <2>1, <2>2, <2>3, <2>4, GhostlessOn DEF Informed
<1>17. \A k \in Tables : Table(h, k)
  BY <1>3 DEF Gone, Ready
<1>18. ASSUME NEW t \in Listening(h) PROVE Due(h, t) \intersect items = {}
  <2> DEFINE k == h.players[t].game
  <2>1. t \in Alive(h) /\ k \in Tables \union {NoGame}
    BY <1>10, Records DEF Listening, Alive, PlayerRecord
  <2>2. Public(h) \intersect items = {}
    BY <1>11, ItemsDiffer DEF Public
  <2>3. \A x \in Tables : s \notin Members(h, x)
    BY <1>4, <1>11, <1>17 DEF Table, Listed, Sits
  <2>4. DueAt(h, k) \intersect items = {}
    BY <2>1, <2>3, ItemsDiffer DEF DueAt, Visible
  <2> QED
    BY <2>2, <2>4 DEF Due
<1> HIDE DEF items
<1>19. \A t \in Listening(h) : h.players[t].socket = o.players[t].socket
  BY <1>12 DEF Listening
<1> QED
  BY <1>2, <1>4, <1>9, <1>10, <1>13, <1>15, <1>16, <1>17, <1>18, <1>19, InformedParts DEF Table

\* who exits knows no less of what is for everybody
LEMMA ExitGameInformed ==
  ASSUME NEW v, Ready(v), Wired(v), Informed(v), NEW s \in Alive(v),
         v.players[s].game # NoGame, v.players[s].socket # NoFd
  PROVE  Informed(ExitGame(v, s))
<1> DEFINE g == v.players[s].game
           o == DelGame(RemovePlayer(v, s), g)
           f == o.players[s].socket
           u == Unfollow(o, s, g)
           p == [u.players[s] EXCEPT !.spectator = FALSE, !.bankrupt = FALSE]
           e == [u EXCEPT !.players[s] = p]
           board == {Board(g), Options(g)} \union {Seat(t) : t \in Slots}
           h == ExitGame(v, s)
<1> SUFFICES Informed(h)
  OBVIOUS
<1>1. h = Forget(e, {Seat(s)})
  BY DEF ExitGame
<1>2. Out(v, o, s) /\ Informed(o)
  BY ReadyIsReadyBut, DelGameIsOut, OutInformed
<1>3. Ready(h) /\ SameWires(v, h)
  BY ExitGameReady
<1>4. s \in Slots /\ v \in World /\ v.players[s].alive
  BY DEF Alive, Ready
<1> HIDE DEF o, h
<1>5. /\ o \in World /\ o.sockets = v.sockets /\ \A k \in Tables : Table(o, k)
      /\ \A t \in Slots : t # s => o.players[t] = v.players[t]
      /\ o.players[s].alive /\ o.players[s].game = NoGame
      /\ o.players[s].socket = v.players[s].socket
  BY <1>2 DEF Out, ReadyBut
<1>6. f \in Fds /\ f # NoFd
  BY <1>4, <1>5, SocketsOf
<1>7. \A t \in Alive(o) : t # s => o.players[t].socket # f
  BY <1>4, <1>5 DEF Wired, Alive
<1>8. /\ u \in World /\ u.players = o.players /\ u.games = o.games /\ u.sockets = o.sockets
      /\ u.lists = o.lists /\ u.changed = o.changed
      /\ u.views[f] = o.views[f] \ board
      /\ \A k \in Fds : k # f => u.views[k] = o.views[k]
  <2> DEFINE known == o.views[f] \ board
  <2>1. u = [o EXCEPT !.views[f] = known]
    BY <1>6 DEF Unfollow
  <2>2. known \in SUBSET Kinds
    BY <1>5, <1>6 DEF World
  <2>3. known = o.views[f] \ board
    OBVIOUS
  <2> HIDE DEF known, f, u, board
  <2> QED
    BY <1>5, <1>6, <2>1, <2>2, <2>3 DEF World
<1> HIDE DEF u
<1>9. u.players[s] \in PlayerRecord
  BY <1>4, <1>8, Records
<1>10. /\ p \in PlayerRecord /\ p.alive = u.players[s].alive
       /\ p.socket = u.players[s].socket /\ p.game = u.players[s].game
       /\ p.identified = u.players[s].identified
  BY <1>9 DEF PlayerRecord
<1> HIDE DEF p
<1>11. /\ e \in World /\ e.games = u.games /\ e.sockets = u.sockets
       /\ e.views = u.views /\ e.lists = u.lists /\ e.changed = u.changed
       /\ e.players[s] = p
       /\ \A t \in Slots : t # s => e.players[t] = u.players[t]
  BY <1>4, <1>8, <1>10 DEF World
<1> HIDE DEF e
<1>12. /\ SameObjects(e, h) /\ h.changed = e.changed \ {Seat(s)} /\ h.lists = e.lists
       /\ \A k \in Fds : h.views[k] = e.views[k] \ {Seat(s)}
  <2>1. \A k \in Fds : h.views[k] = e.views[k] \ {Seat(s)}
    BY <1>1, <1>11 DEF Forget, World
  <2> QED
    BY <1>1, <1>11, <2>1, ForgetSame, ForgetTells
<1>13. /\ h.games = o.games /\ h.sockets = o.sockets /\ h.lists = o.lists
       /\ h.changed = o.changed \ {Seat(s)}
       /\ h.views[f] = (o.views[f] \ board) \ {Seat(s)}
       /\ \A k \in Fds : k # f => h.views[k] = o.views[k] \ {Seat(s)}
  BY <1>6, <1>8, <1>11, <1>12 DEF SameObjects
<1>14. \A t \in Slots : /\ h.players[t].alive = o.players[t].alive
                        /\ h.players[t].socket = o.players[t].socket
                        /\ h.players[t].game = o.players[t].game
                        /\ h.players[t].identified = o.players[t].identified
  BY <1>8, <1>10, <1>11, <1>12 DEF SameObjects
<1>15. Alive(h) = Alive(o) /\ Alive(h) \subseteq Slots
  BY <1>14 DEF Alive
<1>16. /\ \A k \in Tables : Exists(h, k) <=> Exists(o, k)
       /\ \A k : DueAt(h, k) = DueAt(o, k)
       /\ Public(h) = Public(o)
  <2>1. Public(h) = Public(o)
    BY <1>13, <1>14, <1>15 DEF Public, Exists
  <2> QED
    BY <1>13, <2>1 DEF Exists, DueAt, Visible, Members
<1>17. Attended(h)
  BY <1>2, <1>13, <1>14, <1>15 DEF Informed, Attended
<1>18. Ghostless(h) /\ Silent(h)
  BY <1>2, <1>13, <1>15, <1>16 DEF Informed, Ghostless, Silent, Living
<1>19. ASSUME NEW t \in Listening(h)
       PROVE  Due(h, t) \subseteq Known(h, h.players[t].socket)
  <2> DEFINE x == h.players[t].socket
             k == h.players[t].game
  <2>1. /\ t \in Listening(o) /\ t \in Slots /\ t \in Alive(o)
        /\ x = o.players[t].socket /\ k = o.players[t].game
    BY <1>13, <1>14, <1>15 DEF Listening
  <2>2. x \in Fds /\ k \in Tables \union {NoGame}
    BY <1>5, <2>1, SocketsOf, Records DEF Listening, PlayerRecord
  <2>3. Due(h, t) = Due(o, t) /\ Due(o, t) \subseteq Known(o, x)
    BY <1>2, <1>16, <2>1 DEF Due, Informed, Fresh
  <2>4. Public(o) \intersect (board \union {Seat(s)}) = {}
    BY ItemsDiffer DEF Public
  <2>5. CASE t = s
    <3>1. Due(o, t) = Public(o)
      BY <1>5, <2>5 DEF Due, DueAt
    <3>2. x = f
      BY <2>1, <2>5
    <3> QED
      BY <1>13, <2>3, <2>4, <3>1, <3>2 DEF Known
  <2>6. CASE t # s
    <3>1. x # f
      BY <1>7, <2>1, <2>6
    <3>2. \A y \in Tables : s \notin Members(o, y)
      BY <1>4, <1>5, LobbyAssumption DEF Table, Listed, Sits
    <3>3. Seat(s) \notin DueAt(o, k)
      BY <2>2, <3>2, ItemsDiffer DEF DueAt, Visible
    <3>4. Seat(s) \notin Due(o, t)
      BY <2>1, <2>4, <3>3 DEF Due
    <3> QED
      BY <1>13, <2>2, <2>3, <3>1, <3>4 DEF Known
  <2> QED
    BY <2>5, <2>6
<1> QED
  BY <1>17, <1>18, <1>19 DEF Informed, Fresh

\* nor does who is kicked
LEMMA KickInformed ==
  ASSUME NEW v, Ready(v), Wired(v), Informed(v), NEW s \in Alive(v), NEW t \in Slots,
         v.players[s].game # NoGame
  PROVE  Informed(Kick(v, s, t))
<1> DEFINE g == v.players[s].game
           may == /\ s = v.games[g].master /\ v.games[g].status = "config"
                  /\ t \in Members(v, g)
<1>1. Kick(v, s, t) = IF may THEN ExitGame(v, t) ELSE v
  BY DEF Kick
<1>2. g \in Tables
  BY Records DEF Ready, Alive, PlayerRecord
<1>3. CASE may
  <2>1. t \in Alive(v) /\ v.players[t].game = g
    BY <1>2, <1>3 DEF Ready, Table, Listed, Sits
  <2>2. v.players[t].socket # NoFd
    BY <1>3, <2>1 DEF Ready, Awaited
  <2> QED
    BY <1>1, <1>3, <2>1, <2>2, ExitGameInformed
<1> QED
  BY <1>1, <1>3

-----------------------------------------------------------------------------
(* Connections that change *)

\* other sockets than those of clients that are written to make no difference
LEMMA SwitchedInformed ==
  ASSUME NEW v \in World, NEW h, NEW f \in Fds, NEW x, Switched(v, h, f, x), Informed(v),
         x # "ok", h.changed = v.changed,
         \A e \in Fds : e # f => h.views[e] = v.views[e] /\ h.lists[e] = v.lists[e],
         h.lists[f] = {}
  PROVE  Informed(h)
<1>1. /\ h.players = v.players /\ h.games = v.games /\ Alive(h) = Alive(v)
      /\ h.sockets[f] = x /\ \A e \in Fds : e # f => h.sockets[e] = v.sockets[e]
  BY DEF Switched, Alive
<1>2. Attended(h)
  BY <1>1 DEF Informed, Attended
<1>3. \A items : Living(h, items) <=> Living(v, items)
  BY <1>1 DEF Living, Exists
<1>4. Ghostless(h) /\ Silent(h)
  BY <1>1, <1>3 DEF Informed, Ghostless, Silent, Living
<1>5. ASSUME NEW t \in Listening(h)
      PROVE  Due(h, t) \subseteq Known(h, h.players[t].socket)
  <2> DEFINE e == v.players[t].socket
  <2>1. e \in Fds /\ e # f /\ h.players[t].socket = e /\ t \in Listening(v)
    BY <1>1, SocketsOf DEF Listening
  <2>2. Due(h, t) = Due(v, t)
    BY <1>1 DEF Due, DueAt, Public, Visible, Members, Exists
  <2>3. Due(v, t) \subseteq Known(v, e)
    BY <2>1 DEF Informed, Fresh
  <2>4. Known(h, e) = Known(v, e)
    BY <2>1 DEF Known
  <2> QED
    BY <2>1, <2>2, <2>3, <2>4
<1> QED
  BY <1>2, <1>4, <1>5 DEF Informed, Fresh

\* a socket that is given another status is forgotten
LEMMA SetStatusInformed ==
  ASSUME NEW v \in World, Informed(v), NEW f \in Fds, NEW x \in SocketStates \ {"ok"}
  PROVE  Informed(SetStatus(v, f, x)) /\ SetStatus(v, f, x).changed = v.changed
<1> DEFINE h == SetStatus(v, f, x)
<1>1. Switched(v, h, f, x)
  BY SetStatusSwitches
<1>2. /\ h.changed = v.changed /\ h.lists[f] = {}
      /\ \A e \in Fds : e # f => h.views[e] = v.views[e] /\ h.lists[e] = v.lists[e]
  BY DEF SetStatus, World
<1> HIDE DEF h
<1>3. Informed(h)
  BY <1>1, <1>2, SwitchedInformed
<1> QED
  BY <1>2, <1>3 DEF h

\* timeouts are nothing to be known
LEMMA TimersInformed ==
  ASSUME NEW v, NEW h, Informed(v), h.players = v.players, h.games = v.games,
         h.sockets = v.sockets, h.views = v.views, h.lists = v.lists, h.changed = v.changed
  PROVE  Informed(h)
<1>1. /\ Alive(h) = Alive(v) /\ Listening(h) = Listening(v)
      /\ \A items : Living(h, items) <=> Living(v, items)
      /\ \A k : DueAt(h, k) = DueAt(v, k)
      /\ Public(h) = Public(v)
  BY DEF Alive, Listening, Living, Exists, DueAt, Visible, Members, Public
<1>2. \A f : Known(h, f) = Known(v, f)
  BY DEF Known
<1> QED
  BY <1>1, <1>2 DEF Informed, Attended, Fresh, Due, Ghostless, Silent

\* a new host is flagged
LEMMA SetSocketTells ==
  ASSUME NEW v \in World, NEW s \in Alive(v), NEW f
  PROVE  /\ Tells(v, SetSocket(v, s, f), {}, {Person(s)})
         /\ SetSocket(v, s, f).players[s].identified = v.players[s].identified
<1> DEFINE rows == [v.players EXCEPT ![s].socket = f]
           u == [v EXCEPT !.players = rows]
           c == Change(u, {Person(s)})
           h == SetSocket(v, s, f)
<1>1. h = u \/ h = c
  BY DEF SetSocket
<1>2. s \in Slots /\ v.players[s] \in PlayerRecord /\ DOMAIN v.players = Slots
  BY Records DEF Alive, World
<1>3. u.players[s].identified = v.players[s].identified
  BY <1>2 DEF PlayerRecord, World
<1>4. Shaped(u) /\ Tells(v, u, {}, {})
  BY WorldIsShaped, ObjectsShaped
<1> HIDE DEF u, h
<1>5. Shaped(c) /\ Tells(u, c, {}, {Person(s)})
  <2>1. Shaped(c) /\ Tells(u, c, {}, Names({Person(s)}))
    BY <1>4, ChangeShaped
  <2>2. Names({Person(s)}) = {Person(s)}
    BY NamesOf
  <2> QED
    BY <2>1, <2>2
<1>6. c.players = u.players
  BY <1>4 DEF Change, Shaped
<1> HIDE DEF c
<1>7. Tells(v, u, {}, {Person(s)})
  BY <1>4, TellsMore
<1>8. Tells(v, c, {}, {Person(s)})
  <2>1. Tells(v, c, {}, {} \union {Person(s)})
    BY <1>4, <1>5, TellsTwice
  <2> QED
    BY <2>1
<1>9. Tells(v, h, {}, {Person(s)}) /\ h.players[s].identified = v.players[s].identified
  BY <1>1, <1>3, <1>6, <1>7, <1>8
<1> QED
  BY <1>9 DEF h

\* who gives a connection away that he does not hear from, or that another has too
LEMMA UnsetSocketInformed ==
  ASSUME NEW v, NEW s \in Alive(v), ReadyBut(v, s), Informed(v),
         s \in Listening(v) =>
           \E t \in Alive(v) : t # s /\ v.players[t].socket = v.players[s].socket
  PROVE  Informed(SetSocket(v, s, NoFd))
<1> DEFINE h == SetSocket(v, s, NoFd)
<1>1. v \in World /\ s \in Slots /\ \A k \in Tables : Table(v, k)
  BY DEF ReadyBut, Alive
<1>2. /\ Rewired(v, h, s, NoFd) /\ Tells(v, h, {}, {Person(s)})
      /\ h.players[s].identified = v.players[s].identified
  BY <1>1, SetSocketRewires, SetSocketTells
<1> HIDE DEF h
<1>3. /\ h \in World /\ h.sockets = v.sockets /\ h.games = v.games
      /\ \A t \in Slots : t # s => h.players[t] = v.players[t]
      /\ h.players[s].socket = NoFd /\ h.players[s].alive /\ Alive(h) = Alive(v)
      /\ h.players[s].game = v.players[s].game
      /\ \A k \in Tables : Table(h, k)
  BY <1>2 DEF Rewired, ReadyBut, Alive
<1>4. Recedes(v, h)
  BY <1>2, <1>3 DEF Recedes, Exists, Alive
<1>5. Attended(h)
  <2>1. ASSUME NEW f \in Fds, h.sockets[f] = "ok"
        PROVE  \E t \in Alive(h) : h.players[t].socket = f
    <3>1. PICK t \in Alive(v) : v.players[t].socket = f
      BY <1>3, <2>1 DEF Informed, Attended
    <3>2. CASE t # s
      BY <1>3, <3>1, <3>2 DEF Alive
    <3>3. CASE t = s
      <4>1. s \in Listening(v)
        BY <1>3, <2>1, <3>1, <3>3, LobbyAssumption DEF Listening, NoFd
      <4>2. PICK x \in Alive(v) : x # s /\ v.players[x].socket = f
        BY <3>1, <3>3, <4>1
      <4> QED
        BY <1>3, <4>2 DEF Alive
    <3> QED
      BY <3>2, <3>3
  <2> QED
    BY <2>1 DEF Attended
<1>6. Ghostless(h)
  <2>1. Living(h, {Person(s)}) /\ \A k \in Tables : Exists(v, k) => Exists(h, k)
    BY <1>3, LivingNames DEF Exists
  <2> QED
    BY <1>2, <1>3, <2>1, LivingOn DEF Informed
<1>7. \A t \in Listening(h) : /\ h.players[t].socket = v.players[t].socket
                              /\ Due(h, t) \intersect {} = {}
  BY <1>3 DEF Listening, Alive
<1>8. Informed(h)
  BY <1>1, <1>2, <1>3, <1>4, <1>5, <1>6, <1>7, InformedParts DEF Table
<1> QED
  BY <1>8 DEF h

\* a connection that was closed is nobody's
LEMMA ClosedSocketInformed ==
  ASSUME NEW v, Ready(v), Informed(v), NEW s \in Alive(v), s \notin Listening(v)
  PROVE  Informed(ClosedSocket(v, s))
<1> DEFINE g == v.players[s].game
           out == \/ g = NoGame
                  \/ v.games[g].status # "run"
                  \/ v.players[s].spectator \/ v.players[s].bankrupt
           u == SetSocket(v, s, NoFd)
           h == ClosedSocket(v, s)
<1>1. ReadyBut(v, s)
  BY ReadyIsReadyBut
<1>2. CASE out
  <2>1. h = DelPlayer(v, s)
    BY <1>2 DEF ClosedSocket
  <2> QED
    BY <1>1, <2>1, DelPlayerInformed
<1>3. CASE ~out
  <2>1. h = [u EXCEPT !.timers[s][g] = @ + 1]
    BY <1>3 DEF ClosedSocket
  <2> HIDE DEF h
  <2>2. Informed(u)
    BY <1>1, UnsetSocketInformed
  <2>3. u \in World
    BY <1>1, SetSocketRewires DEF Rewired, ReadyBut
  <2> HIDE DEF u
  <2>4. /\ h.players = u.players /\ h.games = u.games /\ h.sockets = u.sockets
        /\ h.views = u.views /\ h.lists = u.lists /\ h.changed = u.changed
    BY <2>1, <2>3 DEF World
  <2>5. Informed(h)
    BY <2>2, <2>4, TimersInformed
  <2> QED
    BY <2>5 DEF h
<1> QED
  BY <1>2, <1>3

\* nor is there one of who is timed out
LEMMA PlayerTimeoutInformed ==
  ASSUME NEW v, Ready(v), Informed(v), NEW s \in Slots, NEW g \in Tables, v.timers[s][g] > 0
  PROVE  Informed(PlayerTimeout(v, s, g))
<1> DEFINE absent == s \in Alive(v) /\ v.players[s].socket = NoFd
           row == [v.timers[s] EXCEPT ![g] = @ - 1]
           u == [v EXCEPT !.timers = [@ EXCEPT ![s] = row]]
           h == PlayerTimeout(v, s, g)
<1> SUFFICES Informed(h)
  OBVIOUS
<1>1. h = IF absent THEN DelPlayer(u, s) ELSE u
  <2>1. Alive(u) = Alive(v) /\ u.players = v.players
    BY DEF Alive, Ready, World
  <2> QED
    BY <2>1 DEF PlayerTimeout, Alive
<1> HIDE DEF h
<1>2. v \in World
  BY DEF Ready
<1>3. row \in [Tables -> 0..MaxTimers]
  <2>1. v.timers[s] \in [Tables -> 0..MaxTimers] /\ v.timers[s][g] \in 0..MaxTimers
    BY <1>2 DEF World
  <2>2. v.timers[s][g] - 1 \in 0..MaxTimers
    BY <2>1, LobbyAssumption
  <2> QED
    BY <2>1, <2>2
<1> HIDE DEF row
<1>4. /\ u \in World /\ u.players = v.players /\ u.games = v.games
      /\ u.sockets = v.sockets /\ u.views = v.views /\ u.lists = v.lists
      /\ u.changed = v.changed
      /\ \A t \in Slots : t # s => u.timers[t] = v.timers[t]
  BY <1>2, <1>3 DEF World
<1> HIDE DEF u
<1>5. Informed(u)
  BY <1>4, TimersInformed
<1>6. CASE absent
  <2>1. Alive(u) = Alive(v) /\ \A t, k : Sits(u, t, k) <=> Sits(v, t, k)
    BY <1>4 DEF Alive, Sits
  <2>2. ASSUME NEW k \in Tables PROVE Table(u, k)
    BY <1>2, <1>4, <2>1, TableKept DEF Ready
  <2>3. ASSUME NEW t \in Alive(u) \ {s} PROVE Awaited(u, t)
    <3>1. t \in Slots /\ Awaited(v, t)
      BY <2>1 DEF Ready, Alive
    <3> QED
      BY <1>4, <3>1 DEF Awaited
  <2>4. ReadyBut(u, s)
    BY <1>4, <2>2, <2>3 DEF ReadyBut
  <2>5. s \in Alive(u) /\ s \notin Listening(u)
    BY <1>4, <1>6, <2>1 DEF Listening
  <2> QED
    BY <1>1, <1>5, <1>6, <2>4, <2>5, DelPlayerInformed
<1>7. CASE ~absent
  BY <1>1, <1>5, <1>7
<1> QED
  BY <1>6, <1>7

\* who is back gets all there is in his game, and the rest he knows from who he was meanwhile
LEMMA ReconnectInformed ==
  ASSUME NEW v, Ready(v), Informed(v), NEW s \in Alive(v), NEW t \in Slots,
         v.players[s].game = NoGame, s \in Listening(v)
  PROVE  Informed(Reconnect(v, s, t))
<1> DEFINE f == v.players[s].socket
           g == v.players[t].game
           a == SetSocket(v, t, f)
           all == FullUpdateOf(a, g)
           b == SendFullUpdate(a, t)
           c == SetSocket(b, s, NoFd)
           h == Reconnect(v, s, t)
<1>1. CASE ~MayReconnect(v, t)
  BY <1>1 DEF Reconnect
<1>2. CASE MayReconnect(v, t)
  <2>1. h = DelPlayer(c, s)
    BY <1>2 DEF Reconnect
  <2>2. /\ v \in World /\ t \in Alive(v) /\ g # NoGame /\ g \in Tables
        /\ v.games[g].status = "run" /\ v.players[t].socket = NoFd
        /\ s # t /\ s \in Slots /\ f \in Fds /\ f # NoFd /\ v.sockets[f] = "ok"
    BY <1>2, Records, SocketsOf
       DEF MayReconnect, Ready, Alive, PlayerRecord, Listening
  <2>3. Rewired(v, a, t, f)
    BY <2>2, ReadyIsReadyBut, SetSocketRewires
  <2>4. Tells(v, a, {}, {Person(t)}) /\ a.players[t].identified = v.players[t].identified
    BY <2>2, SetSocketTells
  <2> HIDE DEF a, f, g
  <2>5. /\ a \in World /\ a.sockets = v.sockets /\ a.games = v.games
        /\ \A x \in Slots : x # t => a.players[x] = v.players[x]
        /\ a.players[t].socket = f /\ a.players[t].alive /\ a.players[t].game = g
        /\ \A k \in Tables : Table(a, k)
    BY <2>2, <2>3 DEF Rewired, ReadyBut, Alive, g
  <2>6. Awaited(a, t)
    BY <2>2, <2>5 DEF Awaited
  <2>7. Ready(a)
    BY <2>3, <2>6 DEF Rewired, Ready, ReadyBut
  <2>8. b = Tell(a, t, all) /\ all \in SUBSET Kinds
    BY <2>2, <2>5, FullUpdateAreKinds DEF SendFullUpdate
  <2>9. SameObjects(a, b)
    BY <2>2, <2>5, <2>8, TellSame
  <2>10. Tells(a, b, {}, Names(all)) /\ all \subseteq Known(b, f)
    <3>1. Writable(a, a.players[t].socket)
      BY <2>2, <2>5 DEF Writable
    <3> HIDE DEF b, all
    <3> QED
      BY <2>2, <2>5, <2>8, <3>1, TellTells
  <2>11. Tells(v, b, {}, {Person(t)} \union Names(all))
    BY <2>4, <2>10, TellsTwice
  <2> HIDE DEF b
  <2>12. Ready(b)
    BY <2>7, <2>9, SameReady
  <2>13. /\ b \in World /\ b.sockets = v.sockets /\ b.games = v.games
         /\ \A x \in Slots : x # t => b.players[x] = v.players[x]
         /\ b.players[t].socket = f /\ b.players[t].alive /\ b.players[t].game = g
         /\ b.players[t].identified = v.players[t].identified
    BY <2>4, <2>5, <2>9 DEF SameObjects
  <2>14. Alive(b) = Alive(v) /\ Alive(a) = Alive(v) /\ Alive(v) \in SUBSET Slots
    BY <2>2, <2>5, <2>13 DEF Alive
  <2>15. Recedes(v, b)
    <3>1. ASSUME NEW x \in Alive(b)
          PROVE  /\ b.players[x].identified => v.players[x].identified
                 /\ b.players[x].game \in {v.players[x].game, NoGame}
      BY <2>13, <2>14 DEF g
    <3> QED
      BY <2>13, <2>14, <3>1 DEF Recedes, Exists
  <2>16. Attended(b)
    <3>1. ASSUME NEW e \in Fds, b.sockets[e] = "ok"
          PROVE  \E x \in Alive(b) : b.players[x].socket = e
      <4>1. PICK x \in Alive(v) : v.players[x].socket = e
        BY <2>13, <3>1 DEF Informed, Attended
      <4>2. e # NoFd
        BY LobbyAssumption DEF NoFd
      <4>3. x # t
        BY <2>2, <4>1, <4>2
      <4> QED
        BY <2>13, <2>14, <4>1, <4>3
    <3> QED
      BY <3>1 DEF Attended
  <2>17. Ghostless(b) /\ Silent(b)
    <3>1. Listed(a, g)
      BY <2>2, <2>5 DEF Table
    <3>2. Living(a, Names(all))
      BY <2>2, <2>5, <3>1, FullUpdateLiving
    <3>3. Living(b, Names(all))
      BY <2>9, <3>2, SameObjectsRecede
    <3>4. Living(b, {Person(t)})
      BY <2>2, <2>14, LivingNames
    <3>5. Living(b, {Person(t)} \union Names(all))
      BY <3>3, <3>4, LivingNames
    <3>6. \A k \in Tables : Exists(v, k) => Exists(b, k)
      BY <2>13 DEF Exists
    <3> HIDE DEF all
    <3> QED
      BY <2>11, <2>14, <3>5, <3>6, LivingOn, SilentOn DEF Informed
  <2>18. Fresh(b)
    <3>1. ASSUME NEW x \in Listening(b) PROVE Due(b, x) \subseteq Known(b, b.players[x].socket)
      <4>1. x \in Alive(b) /\ x \in Slots /\ b.players[x].socket \in Fds
        BY <2>13, <2>14, SocketsOf DEF Listening
      <4>2. Due(b, x) \subseteq Due(v, x)
        BY <2>2, <2>12, <2>15, <4>1, DueRecedes DEF Ready, Table
      <4>3. CASE x # t
        <5>1. x \in Listening(v) /\ b.players[x].socket = v.players[x].socket
          BY <2>13, <2>14, <4>1, <4>3 DEF Listening
        <5>2. Due(v, x) \subseteq Known(v, b.players[x].socket)
          BY <5>1 DEF Informed, Fresh
        <5> QED
          BY <2>11, <4>1, <4>2, <5>2 DEF Tells
      <4>4. CASE x = t
        <5>1. Public(v) \subseteq Known(v, f)
          BY DEF Informed, Fresh, Due, f
        <5>2. Public(v) \subseteq Known(b, f)
          BY <2>2, <2>11, <5>1 DEF Tells
        <5>3. DueAt(v, g) \subseteq Known(b, f)
          <6>1. DueAt(v, g) = Visible(v, g)
            BY <2>2 DEF DueAt
          <6>2. Visible(v, g) = Visible(a, g)
            BY <2>5 DEF Visible, Members
          <6>3. Visible(a, g) \subseteq all
            BY <2>2, <2>5 DEF FullUpdateOf
          <6> QED
            BY <2>10, <6>1, <6>2, <6>3
        <5>4. Due(v, t) \subseteq Known(b, f)
          BY <5>2, <5>3 DEF Due, g
        <5> QED
          BY <2>13, <4>2, <4>4, <5>4
      <4> QED
        BY <4>3, <4>4
    <3> QED
      BY <3>1 DEF Fresh
  <2>19. Informed(b)
    BY <2>16, <2>17, <2>18 DEF Informed
  <2>20. s \in Alive(b) /\ b.players[s].socket = f
    BY <2>2, <2>13, <2>14 DEF f
  <2>21. Informed(c)
    <3>1. \E x \in Alive(b) : x # s /\ b.players[x].socket = b.players[s].socket
      BY <2>2, <2>13, <2>14, <2>20
    <3> QED
      BY <2>12, <2>19, <2>20, <3>1, ReadyIsReadyBut, UnsetSocketInformed
  <2>22. Rewired(b, c, s, NoFd)
    BY <2>12, <2>20, ReadyIsReadyBut, SetSocketRewires
  <2> HIDE DEF c
  <2>23. s \in Alive(c) /\ ReadyBut(c, s) /\ s \notin Listening(c)
    BY <2>20, <2>22 DEF Rewired, Alive, Listening
  <2>24. Informed(DelPlayer(c, s))
    BY <2>21, <2>23, DelPlayerInformed
  <2> QED
    BY <2>1, <2>24
<1> QED
  BY <1>1, <1>2

\* a new client gets all that is for everybody
LEMMA WelcomeNewInformed ==
  ASSUME NEW v, Ready(v), Informed(v), NEW f \in Fds, NEW s \in FreeSlots(v),
         v.sockets[f] # "ok", \A t \in Alive(v) : v.players[t].socket # f
  PROVE  Informed(WelcomeNew(v, f, s)) /\ WelcomeNew(v, f, s).changed = v.changed
<1> DEFINE p == [Deleted EXCEPT !.alive = TRUE, !.socket = f]
           u == [v EXCEPT !.sockets[f] = "ok", !.players[s] = p]
           public == Public(v)
           h == WelcomeNew(v, f, s)
<1> SUFFICES Informed(h) /\ h.changed = v.changed
  OBVIOUS
<1>1. h = Tell(u, s, public)
  BY DEF WelcomeNew
<1>2. v \in World /\ s \in Slots /\ s \notin Alive(v) /\ \A k \in Tables : Table(v, k)
  BY DEF Ready, FreeSlots
<1>3. Welcomed(v, h, f, s)
  BY WelcomeNewWelcomes
<1>4. /\ p \in PlayerRecord /\ p.alive = TRUE /\ p.socket = f /\ p.game = NoGame
      /\ ~p.identified
  BY DEF PlayerRecord, Deleted
<1> HIDE DEF p, h
<1>5. /\ u \in World /\ u.games = v.games /\ u.views = v.views /\ u.lists = v.lists
      /\ u.changed = v.changed
      /\ u.sockets[f] = "ok" /\ \A e \in Fds : e # f => u.sockets[e] = v.sockets[e]
      /\ u.players[s] = p /\ \A x \in Slots : x # s => u.players[x] = v.players[x]
  BY <1>2, <1>4 DEF World, SocketStates
<1> HIDE DEF u
<1>6. public \in SUBSET Kinds
  BY ItemsAreKinds DEF Public, Alive
<1>7. f # NoFd
  BY LobbyAssumption DEF NoFd
<1>8. /\ SameObjects(u, h) /\ Tells(u, h, {}, Names(public))
      /\ public \subseteq Known(h, f)
  <2>1. Writable(u, u.players[s].socket) /\ u.players[s].socket = f
    BY <1>4, <1>5, <1>7 DEF Writable
  <2> HIDE DEF public
  <2> QED
    BY <1>1, <1>2, <1>5, <1>6, <2>1, TellSame, TellTells
<1>9. h.changed = v.changed
  BY <1>1, <1>5 DEF Tell, Deliver, World
<1>10. /\ h \in World /\ h.games = v.games
       /\ h.sockets[f] = "ok" /\ \A e \in Fds : e # f => h.sockets[e] = v.sockets[e]
       /\ h.players[s] = p /\ \A x \in Slots : x # s => h.players[x] = v.players[x]
  BY <1>5, <1>8 DEF SameObjects
<1>11. Alive(h) = Alive(v) \union {s} /\ Alive(v) \in SUBSET Slots
  BY <1>2, <1>4, <1>10 DEF Alive
<1>12. Public(h) = Public(v) /\ \A k : DueAt(h, k) = DueAt(v, k)
  <2>1. \A x \in Alive(v) : h.players[x] = v.players[x]
    BY <1>2, <1>10 DEF Alive
  <2>2. {x \in Alive(h) : h.players[x].identified} = {x \in Alive(v) : v.players[x].identified}
    BY <1>4, <1>10, <1>11, <2>1
  <2>3. \A k \in Tables : Exists(h, k) <=> Exists(v, k)
    BY <1>10 DEF Exists
  <2> QED
    BY <1>10, <2>2, <2>3 DEF Public, DueAt, Visible, Members
<1>13. Living(h, Names(public)) /\ \A k \in Tables : Exists(v, k) => Exists(h, k)
  <2>1. \A k \in Tables : Exists(v, k) <=> Exists(h, k)
    BY <1>10 DEF Exists
  <2> QED
    BY <1>11, <2>1, ItemsDiffer DEF Living, Public, Names
<1>14. \A e \in Fds : h.lists[e] \subseteq v.lists[e] \union Names(public)
  BY <1>5, <1>8 DEF Tells
<1>15. \A e \in Fds : Known(v, e) \subseteq Known(h, e)
  BY <1>5, <1>8 DEF Tells, Known
<1>16. Silent(h)
  BY <1>5, <1>8, <1>10 DEF Informed, Silent, Tells
<1>17. Ghostless(h)
  <2>1. ASSUME NEW items, Living(v, items) PROVE Living(h, items)
    BY <1>11, <1>13, <2>1 DEF Living
  <2>2. Living(h, h.changed)
    BY <1>9, <2>1 DEF Informed, Ghostless
  <2>3. ASSUME NEW e \in Fds PROVE Living(h, h.lists[e])
    <3>1. Living(h, v.lists[e] \union Names(public))
      BY <1>13, <2>1, LivingNames DEF Informed, Ghostless
    <3> QED
      BY <1>14, <3>1 DEF Living
  <2> QED
    BY <2>2, <2>3 DEF Ghostless
<1>18. Attended(h)
  <2>1. ASSUME NEW e \in Fds, h.sockets[e] = "ok"
        PROVE  \E x \in Alive(h) : h.players[x].socket = e
    <3>1. CASE e = f
      BY <1>4, <1>10, <1>11, <3>1
    <3>2. CASE e # f
      BY <1>2, <1>10, <1>11, <2>1, <3>2 DEF Informed, Attended
    <3> QED
      BY <3>1, <3>2
  <2> QED
    BY <2>1 DEF Attended
<1>19. ASSUME NEW t \in Listening(h)
       PROVE  Due(h, t) \subseteq Known(h, h.players[t].socket)
  <2>1. CASE t = s
    BY <1>4, <1>8, <1>10, <1>12, <2>1 DEF Due, DueAt
  <2>2. CASE t # s
    <3>1. /\ t \in Alive(v) /\ h.players[t] = v.players[t] /\ t \in Slots
          /\ v.players[t].socket # f /\ v.players[t].socket \in Fds
      BY <1>2, <1>10, <1>11, <2>2, SocketsOf DEF Listening
    <3>2. t \in Listening(v)
      BY <1>10, <3>1 DEF Listening
    <3>3. Due(v, t) \subseteq Known(v, v.players[t].socket)
      BY <3>2 DEF Informed, Fresh
    <3>4. Due(h, t) = Due(v, t)
      BY <1>12, <3>1 DEF Due
    <3> QED
      BY <1>15, <3>1, <3>3, <3>4
  <2> QED
    BY <2>1, <2>2
<1> QED
  BY <1>9, <1>16, <1>17, <1>18, <1>19 DEF Informed, Fresh

-----------------------------------------------------------------------------
(* The end of a handler *)

\* what the game of a player shows is in his scope
LEMMA DueHasInScope ==
  ASSUME NEW v \in World, \A k \in Tables : Listed(v, k), NEW s \in Alive(v), NEW i \in Due(v, s)
  PROVE  HasInScope(v, i, s)
<1> DEFINE g == v.players[s].game
<1>1. CASE i \in Public(v)
  BY <1>1, ItemsDiffer DEF Public, HasInScope
<1>2. CASE i \in DueAt(v, g)
  <2>1. s \in Slots /\ g \in Tables /\ g # NoGame
    BY <1>2, Records DEF DueAt, Alive, PlayerRecord
  <2>2. s \in Members(v, g)
    BY <2>1 DEF Listed, Sits
  <2>3. Home(v, i) = g
    <3>1. CASE i \in {Options(g), Board(g)}
      BY <3>1, ItemsDiffer DEF Home
    <3>2. CASE \E x \in Members(v, g) : i = Seat(x)
      <4>1. PICK x \in Members(v, g) : i = Seat(x)
        BY <3>2
      <4>2. v.players[x].game = g
        BY <2>1, MembersAreSlots DEF Listed, Sits
      <4> QED
        BY <4>1, <4>2, ItemsDiffer DEF Home
    <3> QED
      BY <1>2, <2>1, <3>1, <3>2 DEF DueAt, Visible
  <2> QED
    BY <2>1, <2>2, <2>3 DEF HasInScope
<1> QED
  BY <1>1, <1>2 DEF Due

\* everybody is told, and no flag is left
LEMMA SendXMLUpdatesInformed ==
  ASSUME NEW v, Ready(v), Wired(v), Informed(v)
  PROVE  Informed(SendXMLUpdates(v)) /\ SendXMLUpdates(v).changed = {}
<1> DEFINE own(f) == {i \in v.changed : HasInScope(v, i, Listener(v, f))}
           sent == [f \in Fds |-> IF f \in Heard(v) THEN own(f) ELSE {}]
           d == Deliver(v, sent)
           h == SendXMLUpdates(v)
<1>1. h = [d EXCEPT !.changed = {}]
  BY DEF SendXMLUpdates, UnsetPropertiesChanged
<1>2. v \in World /\ \A k \in Tables : Listed(v, k)
  BY DEF Ready, Table
<1>3. SameObjects(v, h)
  BY <1>2, SendXMLUpdatesSame
<1>4. /\ sent \in [Fds -> SUBSET Kinds] /\ \A f \in Fds : sent[f] \subseteq v.changed
      /\ \A f \in Fds : v.sockets[f] # "ok" => sent[f] = {}
      /\ \A f \in Fds : f \in Heard(v) => sent[f] = own(f)
  BY <1>2 DEF World, Heard, Writable
<1> HIDE DEF h, sent
<1>5. /\ \A f \in Fds : d.views[f] = v.views[f] \union sent[f]
      /\ \A f \in Fds : d.lists[f] = v.lists[f] \union Names(sent[f])
      /\ DOMAIN d = DOMAIN v
  BY <1>2 DEF Deliver, World, Names
<1>6. /\ h.changed = {} /\ h.views = d.views /\ h.lists = d.lists
  BY <1>1, <1>2 DEF Deliver, World
<1> HIDE DEF d
<1>7. /\ h.players = v.players /\ h.games = v.games /\ h.sockets = v.sockets
      /\ Alive(h) = Alive(v) /\ Listening(h) = Listening(v)
  BY <1>3 DEF SameObjects, Alive, Listening
<1>8. Attended(h)
  BY <1>7 DEF Informed, Attended
<1>9. Ghostless(h) /\ Silent(h)
  <2>1. \A items : Living(h, items) <=> Living(v, items)
    BY <1>7 DEF Living, Exists
  <2>2. \A f \in Fds : h.lists[f] \subseteq v.lists[f] \union v.changed
    BY <1>4, <1>5, <1>6 DEF Names
  <2>3. Ghostless(h)
    BY <1>6, <2>1, <2>2 DEF Informed, Ghostless, Living
  <2>4. Silent(h)
    BY <1>4, <1>5, <1>6, <1>7 DEF Informed, Silent, Names
  <2> QED
    BY <2>3, <2>4
<1>10. ASSUME NEW s \in Listening(h)
       PROVE  Due(h, s) \subseteq Known(h, h.players[s].socket)
  <2> DEFINE f == v.players[s].socket
  <2>1. /\ s \in Alive(v) /\ s \in Listening(v) /\ f # NoFd /\ f \in Fds
        /\ v.sockets[f] = "ok" /\ h.players[s].socket = f
    BY <1>2, <1>7, SocketsOf DEF Listening
  <2>2. f \in Heard(v)
    BY <2>1 DEF Heard, Writable
  <2>3. Listener(v, f) = s
    BY <2>1 DEF Listener, Wired
  <2>4. Due(h, s) = Due(v, s)
    BY <1>7 DEF Due, DueAt, Public, Visible, Members, Exists
  <2>5. Due(v, s) \subseteq v.views[f] \union v.changed
    BY <2>1 DEF Informed, Fresh, Known
  <2>6. ASSUME NEW i \in Due(v, s), i \in v.changed PROVE i \in sent[f]
    BY <1>2, <1>4, <2>1, <2>2, <2>3, <2>6, DueHasInScope
  <2>7. v.views[f] \union sent[f] \subseteq Known(h, f)
    BY <1>5, <1>6, <2>1 DEF Known
  <2> QED
    BY <2>1, <2>4, <2>5, <2>6, <2>7
<1>11. Informed(h)
  BY <1>8, <1>9, <1>10 DEF Informed, Fresh
<1> QED
  BY <1>6, <1>11 DEF h

-----------------------------------------------------------------------------
(* The steps *)

\* between two handlers nothing is flagged, and everybody is informed
Told == Sound /\ Informed(w) /\ w.changed = {}

\* a handler that leaves everybody informed but for what is flagged tells it
LEMMA HandleTold ==
  ASSUME Sound', NEW v, Ready(v), Informed(v), Handle(v)
  PROVE  Told'
<1>1. SameObjects(v, w') /\ w' = SendXMLUpdates(v)
  BY SendXMLUpdatesSame DEF Handle, Ready
<1>2. SameWires(w', v)
  BY <1>1 DEF SameObjects, SameWires
<1>3. Wired(v)
  BY <1>2, SameWiresWired DEF Sound
<1> QED
  BY <1>1, <1>3, SendXMLUpdatesInformed DEF Told

\* players online are written to
LEMMA OnlineListen ==
  ASSUME Told, NEW s \in Online
  PROVE  /\ s \in Alive(w) /\ s \in Slots /\ s \in Listening(w)
         /\ w.players[s].socket # NoFd /\ w.players[s].socket \in Fds
         /\ Ready(w) /\ Wired(w) /\ Informed(w) /\ w \in World
BY OnlineHave DEF Told, Sound, Listening, Ready

\* the commands of clients
LEMMA CommandTold ==
  ASSUME Told, Sound', Command
  PROVE  Told'
<1>1. ASSUME SetName PROVE Told'
  BY <1>1, OnlineListen, SetPlayerNameReady, SetPlayerNameInformed, HandleTold DEF SetName
<1>2. ASSUME SetImage PROVE Told'
  BY <1>2, OnlineListen, SettingsReady, SettingsInformed, HandleTold DEF SetImage
<1>3. ASSUME NEW s \in Loungers PROVE s \in Online /\ w.players[s].game = NoGame
  BY DEF Loungers
<1>4. ASSUME NEW s \in Gamers PROVE s \in Online /\ w.players[s].game # NoGame
  BY DEF Gamers
<1>5. ASSUME Create PROVE Told'
  <2>1. PICK s \in Loungers, g \in FreeTables(w) : Handle(NewGame(w, s, g))
    BY <1>5 DEF Create
  <2> QED
    BY <1>3, <2>1, OnlineListen, NewGameReady, NewGameInformed, HandleTold
<1>6. ASSUME Join PROVE Told'
  <2>1. PICK s \in Loungers, g \in Tables \ FreeTables(w) : Handle(JoinGame(w, s, g))
    BY <1>6 DEF Join
  <2> QED
    BY <1>3, <2>1, OnlineListen, JoinGameReady, JoinGameInformed, HandleTold
<1>7. ASSUME Watch PROVE Told'
  <2>1. PICK s \in Loungers, g \in Tables \ FreeTables(w) : Handle(WatchGame(w, s, g))
    BY <1>7 DEF Watch
  <2> QED
    BY <1>3, <2>1, OnlineListen, JoinGameReady, JoinGameInformed, HandleTold
<1>8. ASSUME Exit PROVE Told'
  BY <1>4, <1>8, OnlineListen, ExitGameReady, ExitGameInformed, HandleTold DEF Exit
<1>9. ASSUME KickPlayer PROVE Told'
  BY <1>4, <1>9, OnlineListen, KickReady, KickInformed, HandleTold DEF KickPlayer
<1>10. ASSUME UpgradePlayer PROVE Told'
  BY <1>4, <1>10, OnlineListen, UpgradeReady, UpgradeInformed, HandleTold DEF UpgradePlayer
<1>11. ASSUME Configure PROVE Told'
  BY <1>4, <1>11, OnlineListen, SettingsReady, SettingsInformed, HandleTold DEF Configure
<1>12. ASSUME Describe PROVE Told'
  BY <1>4, <1>12, OnlineListen, SettingsReady, SettingsInformed, HandleTold DEF Describe
<1>13. ASSUME StartGame PROVE Told'
  <2>1. PICK s \in Gamers : \E order \in SetToSeqs(Members(w, w.players[s].game)) :
                              Handle(Start(w, s, order))
    BY <1>13 DEF StartGame
  <2>2. PICK order \in SetToSeqs(Members(w, w.players[s].game)) : Handle(Start(w, s, order))
    BY <2>1
  <2> QED
    BY <1>4, <2>2, OnlineListen, StartReady, StartInformed, HandleTold
<1>14. ASSUME FullUpdate PROVE Told'
  BY <1>4, <1>14, OnlineListen, SendFullUpdateReady, SendFullUpdateInformed, HandleTold
     DEF FullUpdate
<1>15. Ready(w) /\ Informed(w) /\ w \in World
  BY DEF Told, Sound, Ready
<1>16. ASSUME Play PROVE Told'
  <2>1. PICK g \in Tables : Handle(Change(w, Visible(w, g)))
    BY <1>16 DEF Play
  <2>2. Visible(w, g) \in SUBSET Kinds
    BY <1>15, VisibleAreKinds
  <2>3. Living(w, Names(Visible(w, g)))
    <3>1. Names(Visible(w, g)) = {}
      BY NamesOf
    <3> QED
      BY <3>1, LivingNames
  <2> QED
    BY <1>15, <2>1, <2>2, <2>3, ChangeReady, ChangeInformed, HandleTold
<1>17. ASSUME Ruin PROVE Told'
  BY <1>15, <1>17, BankruptReady, BankruptInformed, HandleTold DEF Ruin
<1>18. ASSUME ReconnectPlayer PROVE Told'
  <2>1. PICK s \in Online, t \in Slots :
               w.players[s].game = NoGame /\ Handle(Reconnect(w, s, t))
    BY <1>18 DEF ReconnectPlayer
  <2>2. Informed(Reconnect(w, s, t))
    BY <2>1, OnlineListen, ReconnectInformed
  <2>3. Ready(Reconnect(w, s, t))
    BY <2>1, OnlineListen, ReconnectSwaps DEF Swapped
  <2> QED
    BY <2>1, <2>2, <2>3, HandleTold
<1>19. ASSUME Quit PROVE Told'
  <2>1. PICK s \in Online :
               LET h == IF w.players[s].game = NoGame THEN w ELSE ExitGame(w, s)
               IN  Handle(SetStatus(h, w.players[s].socket, "quit"))
    BY <1>19 DEF Quit
  <2> DEFINE f == w.players[s].socket
             h == IF w.players[s].game = NoGame THEN w ELSE ExitGame(w, s)
             q == SetStatus(h, f, "quit")
  <2>2. Handle(q)
    BY <2>1
  <2>3. Ready(h) /\ Informed(h) /\ f \in Fds
    BY OnlineListen, ExitGameReady, ExitGameInformed
  <2> HIDE DEF h
  <2>4. h \in World /\ "quit" \in SocketStates \ {"ok"}
    BY <2>3 DEF Ready, SocketStates
  <2>5. Informed(q)
    BY <2>3, <2>4, SetStatusInformed
  <2>6. Ready(q)
    BY <2>3, <2>4, SetStatusSwitches, OtherSocketsReady DEF Switched
  <2> QED
    BY <2>2, <2>5, <2>6, HandleTold
<1> QED
  BY <1>1, <1>2, <1>5, <1>6, <1>7, <1>8, <1>9, <1>10, <1>11, <1>12, <1>13, <1>14, <1>16,
     <1>17, <1>18, <1>19 DEF Command

\* a server without objects has told everything
LEMMA NewWorldInformed ==
  Informed(NewWorld) /\ NewWorld.changed = {}
<1> DEFINE v == NewWorld
<1>1. Ready(v)
  BY NewWorldSound
<1>2. /\ v.sockets = [f \in Fds |-> "free"] /\ v.lists = [f \in Fds |-> {}]
      /\ v.changed = {}
      /\ v.players = [s \in Slots |-> Deleted]
  BY DEF NewWorld
<1> HIDE DEF v
<1>3. Alive(v) = {}
  BY <1>2 DEF Alive, Deleted
<1>4. Informed(v)
  BY <1>2, <1>3 DEF Informed, Attended, Fresh, Listening, Ghostless, Silent, Living
<1> QED
  BY <1>2, <1>4 DEF v

\* whose connection is closed
LEMMA ClosedTold ==
  ASSUME Told, Sound', NEW f \in Fds, NEW x \in {"quit", "free"},
         w.sockets[f] \in {"quit", "eof"}, Closed(f, x)
  PROVE  Told'
<1>1. CASE PlayersOn(f) = {}
  BY <1>1, NewWorldInformed DEF Closed, Crash, Told
<1>2. CASE PlayersOn(f) # {}
  <2>1. PICK s \in PlayersOn(f) :
          /\ w.players[s].game # NoGame => w.timers[s][w.players[s].game] < MaxTimers
          /\ Handle([ClosedSocket(w, s) EXCEPT !.sockets[f] = x])
    BY <1>2 DEF Closed
  <2> DEFINE h == ClosedSocket(w, s)
             q == [h EXCEPT !.sockets[f] = x]
  <2>2. s \in Alive(w) /\ w.players[s].socket = f /\ s \notin Listening(w)
    BY DEF PlayersOn, Listening
  <2>3. Unplugged(w, h, s) /\ Informed(h)
    BY <2>1, <2>2, ClosedSocketUnplugs, ClosedSocketInformed DEF Told, Sound
  <2>4. Handle(q)
    BY <2>1
  <2> HIDE DEF h
  <2>5. Ready(h) /\ h \in World /\ h.sockets = w.sockets
    BY <2>3 DEF Unplugged, Ready
  <2>6. Switched(h, q, f, x)
    BY <2>5, SocketSetSwitches DEF SocketStates
  <2>7. Ready(q)
    BY <2>5, <2>6, OtherSocketsReady DEF Switched
  <2>8. Informed(q)
    <3>1. h.lists[f] = {}
      BY <2>3, <2>5 DEF Informed, Silent
    <3>2. q.changed = h.changed /\ q.views = h.views /\ q.lists = h.lists
      BY <2>5 DEF World
    <3> HIDE DEF q
    <3> QED
      BY <2>3, <2>5, <2>6, <3>1, <3>2, SwitchedInformed
  <2> QED
    BY <2>4, <2>7, <2>8, HandleTold
<1> QED
  BY <1>1, <1>2

\* connections that come, break, and are closed
LEMMA ConnectionTold ==
  ASSUME Told, Sound', Connection
  PROVE  Told'
<1>1. Ready(w) /\ Informed(w) /\ w \in World /\ w.changed = {} /\ Sound
  BY DEF Told, Sound, Ready
<1>2. ASSUME Accept PROVE Told'
  <2> DEFINE f == Min(FreeFds)
  <2>1. f \in Fds /\ w.sockets[f] = "free"
    BY <1>1, <1>2, FreeFdIs DEF Accept
  <2>2. \A t \in Alive(w) : w.players[t].socket # f
    BY <1>1, <2>1, FreeIsFree
  <2>3. PICK s \in FreeSlots(w) : w' = WelcomeNew(w, f, s)
    BY <1>2 DEF Accept
  <2> HIDE DEF f
  <2> QED
    BY <1>1, <2>1, <2>2, <2>3, WelcomeNewInformed DEF Told
<1>3. {"eof", "quit"} \subseteq SocketStates \ {"ok"}
  BY DEF SocketStates
<1>4. ASSUME Eof PROVE Told'
  BY <1>1, <1>3, <1>4, SetStatusInformed DEF Eof, Told
<1>5. ASSUME WriteFails PROVE Told'
  BY <1>1, <1>3, <1>5, SetStatusInformed DEF WriteFails, Told
<1>6. ASSUME LineBehind PROVE Told'
  BY <1>6, ClosedTold DEF LineBehind
<1>7. ASSUME CloseSocket PROVE Told'
  BY <1>7, ClosedTold DEF CloseSocket
<1> QED
  BY <1>2, <1>4, <1>5, <1>6, <1>7 DEF Connection

\* timeouts, and the metaserver
LEMMA EventsTold ==
  ASSUME Told, Sound', PlayerTimesOut \/ SocketTimeout \/ Metaserver
  PROVE  Told'
<1>1. Ready(w) /\ Informed(w) /\ w \in World /\ w.changed = {} /\ Sound
      /\ socketTimeouts \subseteq Fds
  BY DEF Told, Sound, Ready
<1>2. ASSUME PlayerTimesOut PROVE Told'
  <2>1. PICK s \in Slots, g \in Tables :
               w.timers[s][g] > 0 /\ Handle(PlayerTimeout(w, s, g))
    BY <1>2 DEF PlayerTimesOut
  <2>2. Ready(PlayerTimeout(w, s, g))
    BY <1>1, <2>1, PlayerTimeoutUnplugs DEF Unplugged
  <2> QED
    BY <1>1, <2>1, <2>2, PlayerTimeoutInformed, HandleTold
<1>3. {"eof", "free", "connect", "registered", "closing"} \subseteq SocketStates \ {"ok"}
  BY DEF SocketStates
<1>4. ASSUME NEW f \in Fds,
             NEW x \in {"eof", "free", "connect", "registered", "closing"},
             w' = SetStatus(w, f, x)
      PROVE  Told'
  BY <1>1, <1>3, <1>4, SetStatusInformed DEF Told
<1>5. ASSUME SocketTimeout PROVE Told'
  <2>1. PICK f \in socketTimeouts :
          w' = IF w.sockets[f] = "ok" THEN SetStatus(w, f, "eof")
               ELSE IF w.sockets[f] \in {"connect", "registered"} THEN SetStatus(w, f, "closing")
               ELSE w
    BY <1>5 DEF SocketTimeout
  <2>2. f \in Fds
    BY <1>1
  <2>3. CASE w' = w
    BY <1>1, <2>3 DEF Told
  <2>4. CASE w' # w
    BY <1>4, <2>1, <2>2, <2>4
  <2> QED
    BY <2>3, <2>4
<1>6. ASSUME RegisterMetaserver PROVE Told'
  <2>1. Min(FreeFds) \in Fds
    BY <1>1, <1>6, FreeFdIs DEF RegisterMetaserver
  <2> QED
    BY <1>4, <1>6, <2>1 DEF RegisterMetaserver, ConnectSocket
<1>7. ASSUME MetaserverConnected PROVE Told'
  BY <1>4, <1>7 DEF MetaserverConnected
<1>8. ASSUME NextAddress PROVE Told'
  <2>1. PICK f \in Fds : FreeFds # {} /\ w' = SetStatus(ConnectSocket(w), f, "free")
    BY <1>8 DEF NextAddress
  <2> DEFINE e == Min(FreeFds)
             h == SetStatus(w, e, "connect")
  <2>2. e \in Fds /\ w.sockets[e] = "free"
    BY <1>1, <2>1, FreeFdIs
  <2>3. w' = SetStatus(h, f, "free")
    BY <2>1 DEF ConnectSocket
  <2> HIDE DEF e
  <2>4. /\ Informed(h) /\ h.changed = {}
    BY <1>1, <1>3, <2>2, SetStatusInformed
  <2>5. h \in World
    BY <1>1, <1>3, <2>2, SetStatusSwitches DEF Switched
  <2> HIDE DEF h
  <2> QED
    BY <1>3, <2>3, <2>4, <2>5, SetStatusInformed DEF Told
<1>9. ASSUME MetaserverFails PROVE Told'
  BY <1>4, <1>9 DEF MetaserverFails
<1>10. ASSUME ClosedMetaserver PROVE Told'
  BY <1>4, <1>10 DEF ClosedMetaserver, DelSocket
<1> QED
  BY <1>2, <1>5, <1>6, <1>7, <1>8, <1>9, <1>10 DEF Metaserver

-----------------------------------------------------------------------------
(* What follows *)

\* every step tells what it changes
LEMMA ToldNext ==
  ASSUME Told, [Next]_vars
  PROVE  Told'
<1>1. Sound'
  BY SoundNext DEF Told
<1>2. ASSUME UNCHANGED vars PROVE Told'
  BY <1>1, <1>2 DEF vars, Told
<1> QED
  BY <1>1, <1>2, CommandTold, ConnectionTold, EventsTold DEF Next

\* Between two handlers no flag is set, every client has been told all that is in his
\* scope, and lists nothing that is gone.
THEOREM AlwaysTold == Spec => []Told
<1>1. Init => Told
  BY SoundInitially, NewWorldInformed DEF Init, Told
<1>2. Told /\ [Next]_vars => Told'
  BY ToldNext
<1> QED
  BY <1>1, <1>2, PTL DEF Spec

\* What a client was told is up to date, whatever he missed while he was connected to
\* another player, watched, was kicked or came back: all players and games, the options
\* of a game that is not started, and the players and estates of a game that is.
THEOREM ClientsAlwaysUpToDate == Spec => []ClientsUpToDate
<1>1. ASSUME Told PROVE ClientsUpToDate
  <2>1. \A f : Known(w, f) = w.views[f]
    BY <1>1 DEF Told, Known
  <2>2. Online = Listening(w)
    BY DEF Online, Listening
  <2> QED
    BY <1>1, <2>1, <2>2 DEF Told, Informed, Fresh, Due, DueAt, ClientsUpToDate
<1> QED
  BY <1>1, AlwaysTold, PTL

\* No client lists a player or a game that was deleted, even if its memory was reused
\* since.
THEOREM NeverGhosts == Spec => []NoGhosts
<1>1. ASSUME Told PROVE NoGhosts
  <2>1. w \in World
    BY <1>1 DEF Told, Sound, Ready
  <2>2. Heard(w) \subseteq Fds
    BY <2>1, SocketsOf DEF Heard, Writable
  <2>3. \A f \in Fds : Living(w, w.lists[f])
    BY <1>1 DEF Told, Informed, Ghostless
  <2> QED
    BY <2>2, <2>3 DEF Living, NoGhosts
<1> QED
  BY <1>1, AlwaysTold, PTL
=============================================================================
