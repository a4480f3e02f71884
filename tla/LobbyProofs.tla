----------------------------- MODULE LobbyProofs -----------------------------
(***************************************************************************)
(* Proofs about Lobby, for every number of slots, games and descriptors:   *)
(* what its operators make of the players and the games.                   *)
(*                                                                         *)
(* The operators change flags and what clients know all the time; the      *)
(* lemmas of the first part say that this touches no object.               *)
(***************************************************************************)
EXTENDS Lobby, FiniteSetTheorems, SequenceTheorems, WellFoundedInduction, TLAPS

\* h has the players, games, timeouts and sockets of v
SameObjects(v, h) ==
  /\ h \in World
  /\ h.players = v.players /\ h.games = v.games
  /\ h.timers = v.timers /\ h.sockets = v.sockets

\* s is at the table g
Sits(v, s, g) == s \in Alive(v) /\ v.players[s].game = g

\* the members of the table are those who sit there, each once
Listed(v, g) ==
  /\ \A s \in Slots : s \in Members(v, g) <=> Sits(v, s, g)
  /\ IsInjective(v.games[g].members)

\* a game in progress has two players in the race, and before the start nobody is bankrupt
Raced(v, g) ==
  /\ v.games[g].status = "run" => \E s, t \in Active(v, g) : s # t
  /\ v.games[g].status = "config" => \A s \in Members(v, g) : ~v.players[s].bankrupt

\* the table is as it should be
Table(v, g) ==
  /\ Listed(v, g)
  /\ IF Exists(v, g) THEN v.games[g].master \in Members(v, g) ELSE Members(v, g) = {}
  /\ Raced(v, g)

\* if s has no connection, he sits in a game that has started, and is timed
Awaited(v, s) ==
  v.players[s].socket = NoFd =>
    /\ v.players[s].game # NoGame
    /\ v.games[v.players[s].game].status \in {"run", "end"}
    /\ v.timers[s][v.players[s].game] > 0

Ready(v) == /\ v \in World
            /\ \A g \in Tables : Table(v, g)
            /\ \A s \in Alive(v) : Awaited(v, s)

-----------------------------------------------------------------------------
(* Flags and messages *)

\* the items are kinds of things
LEMMA ItemsAreKinds ==
  /\ \A s \in Slots : Person(s) \in Kinds /\ Seat(s) \in Kinds
  /\ \A g \in Tables : Game(g) \in Kinds /\ Board(g) \in Kinds /\ Options(g) \in Kinds
BY DEF Person, Seat, Game, Board, Options, Kinds

\* the members of a game are players
LEMMA MembersAreSlots ==
  ASSUME NEW v \in World, NEW g \in Tables
  PROVE  /\ Members(v, g) \in SUBSET Slots
         /\ Members(v, g) = Range(v.games[g].members)
<1>1. v.games[g].members \in Seq(Slots)
  BY DEF World, GameRecord
<1> QED
  BY <1>1, LenProperties, ElementOfSeq DEF Members, Range

\* what the players of a game see of it are items
LEMMA VisibleAreKinds ==
  ASSUME NEW v \in World, NEW g \in Tables
  PROVE  Visible(v, g) \in SUBSET Kinds
BY MembersAreSlots, ItemsAreKinds DEF Visible

\* setting the changed flags touches no object
LEMMA ChangeSame ==
  ASSUME NEW v \in World, NEW items \in SUBSET Kinds
  PROVE  SameObjects(v, Change(v, items))
BY DEF SameObjects, Change, World

\* clearing them, for objects that are deleted, neither
LEMMA ForgetSame ==
  ASSUME NEW v \in World, NEW items
  PROVE  SameObjects(v, Forget(v, items))
BY DEF SameObjects, Forget, World

\* sending touches no object
LEMMA DeliverSame ==
  ASSUME NEW v \in World, NEW sent \in [Fds -> SUBSET Kinds]
  PROVE  SameObjects(v, Deliver(v, sent))
<1> DEFINE views == [f \in Fds |-> v.views[f] \union sent[f]]
           lists == [f \in Fds |-> v.lists[f] \union {i \in sent[f] : i[1] \in {"player", "game"}}]
<1>1. views \in [Fds -> SUBSET Kinds] /\ lists \in [Fds -> SUBSET Kinds]
  BY DEF World
<1>2. Deliver(v, sent) = [v EXCEPT !.views = views, !.lists = lists]
  BY DEF Deliver
<1> HIDE DEF views, lists
<1> QED
  BY <1>1, <1>2 DEF SameObjects, World

\* nor does sending to one player
LEMMA TellSame ==
  ASSUME NEW v \in World, NEW s \in Slots, NEW items \in SUBSET Kinds
  PROVE  SameObjects(v, Tell(v, s, items))
BY DeliverSame DEF Tell

\* nor telling everybody that an object is deleted
LEMMA DeleteSame ==
  ASSUME NEW v \in World, NEW item
  PROVE  SameObjects(v, Delete(v, item))
BY DEF SameObjects, Delete, World

\* what is sent at the end of every handler
LEMMA SendXMLUpdatesSame ==
  ASSUME NEW v \in World
  PROVE  SameObjects(v, SendXMLUpdates(v))
<1> DEFINE own(f) == {i \in v.changed : HasInScope(v, i, Listener(v, f))}
           sent == [f \in Fds |-> IF f \in Heard(v) THEN own(f) ELSE {}]
           h == Deliver(v, sent)
<1>1. v.changed \in SUBSET Kinds
  BY DEF World
<1>2. sent \in [Fds -> SUBSET Kinds]
  BY <1>1
<1>3. SendXMLUpdates(v) = [h EXCEPT !.changed = {}]
  BY DEF SendXMLUpdates, UnsetPropertiesChanged
<1> HIDE DEF h, sent
<1>4. SameObjects(v, h)
  BY <1>2, DeliverSame DEF h
<1> QED
  BY <1>3, <1>4 DEF SameObjects, World

\* a full update consists of items
LEMMA FullUpdateAreKinds ==
  ASSUME NEW v \in World, NEW g \in Tables
  PROVE  FullUpdateOf(v, g) \in SUBSET Kinds
BY VisibleAreKinds, MembersAreSlots, ItemsAreKinds DEF FullUpdateOf

\* a full update to one player touches no object
LEMMA SendFullUpdateSame ==
  ASSUME NEW v \in World, NEW s \in Slots, v.players[s].game # NoGame
  PROVE  SameObjects(v, SendFullUpdate(v, s))
<1>1. v.players[s].game \in Tables
  BY DEF World, PlayerRecord
<1> QED
  BY <1>1, FullUpdateAreKinds, TellSame DEF SendFullUpdate

\* nor does one to all players of a game
LEMMA SendFullUpdatesSame ==
  ASSUME NEW v \in World, NEW g \in Tables
  PROVE  SameObjects(v, SendFullUpdates(v, g))
BY FullUpdateAreKinds, DeliverSame DEF SendFullUpdates

\* nor does sending the options to a player
LEMMA SendConfigurationSame ==
  ASSUME NEW v \in World, NEW s \in Slots, NEW g \in Tables
  PROVE  SameObjects(v, SendConfiguration(v, s, g))
BY ItemsAreKinds, TellSame DEF SendConfiguration

\* whom a change of flags does not touch, it leaves ready
LEMMA SameReady ==
  ASSUME NEW v, NEW h, SameObjects(v, h), Ready(v)
  PROVE  Ready(h)
<1>1. /\ h \in World /\ h.players = v.players /\ h.games = v.games
      /\ h.timers = v.timers /\ Alive(h) = Alive(v)
  BY DEF SameObjects, Alive
<1>2. \A g \in Tables : Members(h, g) = Members(v, g) /\ Exists(h, g) = Exists(v, g)
  BY <1>1 DEF Members, Exists
<1>3. \A g \in Tables : Active(h, g) = Active(v, g)
  BY <1>1, <1>2 DEF Active, Seated
<1>4. \A g \in Tables, s \in Slots : Sits(h, s, g) <=> Sits(v, s, g)
  BY <1>1 DEF Sits
<1>5. ASSUME NEW g \in Tables PROVE Table(h, g)
  BY <1>1, <1>2, <1>3, <1>4 DEF Ready, Table, Listed, Raced
<1>6. ASSUME NEW s \in Alive(h) PROVE Awaited(h, s)
  BY <1>1 DEF Ready, Awaited
<1> QED
  BY <1>1, <1>5, <1>6 DEF Ready

-----------------------------------------------------------------------------
(* Sequences of players *)

\* who is erased is gone, and the others are there once each
LEMMA WithoutIsErasure ==
  ASSUME NEW ms \in Seq(Slots), IsInjective(ms), NEW s \in Range(ms)
  PROVE  /\ Without(ms, s) \in Seq(Slots)
         /\ IsInjective(Without(ms, s))
         /\ Range(Without(ms, s)) = Range(ms) \ {s}
<1> DEFINE i == CHOOSE j \in DOMAIN ms : ms[j] = s
           n == Len(ms)
           a == SubSeq(ms, 1, i - 1)
           b == SubSeq(ms, i + 1, n)
<1>1. /\ n \in Nat /\ DOMAIN ms = 1..n /\ i \in 1..n /\ ms[i] = s
      /\ \A j \in 1..n : ms[j] \in Slots
  BY LenProperties, ElementOfSeq DEF Range
<1>2. Without(ms, s) = a \o b
  BY DEF Without, RemoveAt
<1> HIDE DEF i, n
<1>3. /\ a \in Seq(Slots) /\ Len(a) = i - 1
      /\ \A j \in 1..(i - 1) : a[j] = ms[j]
  BY <1>1, SubSeqProperties
<1>4. /\ b \in Seq(Slots) /\ Len(b) = n - i
      /\ \A j \in 1..(n - i) : b[j] = ms[i + j]
  BY <1>1, SubSeqProperties
<1> HIDE DEF a, b
<1>5. /\ a \o b \in Seq(Slots) /\ Len(a \o b) = n - 1
      /\ \A j \in 1..(n - 1) : (a \o b)[j] = IF j < i THEN ms[j] ELSE ms[j + 1]
  <2>1. /\ a \o b \in Seq(Slots) /\ Len(a \o b) = Len(a) + Len(b)
        /\ \A j \in 1..(Len(a) + Len(b)) :
             (a \o b)[j] = IF j <= Len(a) THEN a[j] ELSE b[j - Len(a)]
    BY <1>3, <1>4, ConcatProperties
  <2>2. Len(a) + Len(b) = n - 1
    BY <1>1, <1>3, <1>4
  <2>3. ASSUME NEW j \in 1..(n - 1)
        PROVE  (a \o b)[j] = IF j < i THEN ms[j] ELSE ms[j + 1]
    <3>1. CASE j < i
      <4>1. j \in 1..(i - 1) /\ j <= Len(a) /\ j \in 1..(Len(a) + Len(b))
        BY <1>1, <1>3, <2>2, <3>1
      <4> QED
        BY <1>3, <2>1, <3>1, <4>1
    <3>2. CASE j >= i
      <4>1. j - (i - 1) \in 1..(n - i) /\ i + (j - (i - 1)) = j + 1
        BY <1>1, <3>2
      <4>2. ~(j <= Len(a)) /\ ~(j < i) /\ j \in 1..(Len(a) + Len(b))
        BY <1>1, <1>3, <2>2, <3>2
      <4>3. (a \o b)[j] = b[j - (i - 1)]
        BY <1>3, <2>1, <4>2
      <4>4. b[j - (i - 1)] = ms[j + 1]
        BY <1>4, <4>1
      <4> QED
        BY <4>2, <4>3, <4>4
    <3>3. j < i \/ j >= i
      BY <1>1
    <3> QED
      BY <3>1, <3>2, <3>3
  <2> QED
    BY <2>1, <2>2, <2>3
<1> DEFINE r == a \o b
           old(j) == IF j < i THEN j ELSE j + 1
<1>6. /\ DOMAIN r = 1..(n - 1)
      /\ \A j \in 1..(n - 1) : r[j] = ms[old(j)] /\ old(j) \in 1..n /\ old(j) # i
  BY <1>1, <1>5, LenProperties
<1>7. \A j, k \in 1..(n - 1) : j # k => old(j) # old(k)
  BY <1>1
<1>8. \A k \in 1..n : k # i => \E j \in 1..(n - 1) : old(j) = k
  <2>1. ASSUME NEW k \in 1..n, k # i PROVE \E j \in 1..(n - 1) : old(j) = k
    <3>1. CASE k < i
      BY <1>1, <3>1
    <3>2. CASE k > i
      <4>1. k - 1 \in 1..(n - 1) /\ old(k - 1) = k
        BY <1>1, <3>2
      <4> QED
        BY <4>1
    <3> QED
      BY <1>1, <2>1, <3>1, <3>2
  <2> QED
    BY <2>1
<1> HIDE DEF r, old
<1>9. \A j, k \in 1..n : ms[j] = ms[k] => j = k
  BY <1>1 DEF IsInjective
<1>10. IsInjective(r)
  <2>1. ASSUME NEW j \in 1..(n - 1), NEW k \in 1..(n - 1), r[j] = r[k] PROVE j = k
    BY <1>6, <1>7, <1>9, <2>1
  <2> QED
    BY <1>6, <2>1 DEF IsInjective
<1>11. Range(r) = Range(ms) \ {s}
  <2>1. ASSUME NEW x \in Range(r) PROVE x \in Range(ms) \ {s}
    <3>1. PICK j \in 1..(n - 1) : x = r[j]
      BY <1>6 DEF Range
    <3> QED
      BY <1>1, <1>6, <1>9, <3>1 DEF Range
  <2>2. ASSUME NEW x \in Range(ms) \ {s} PROVE x \in Range(r)
    <3>1. PICK k \in 1..n : ms[k] = x /\ k # i
      BY <1>1 DEF Range
    <3>2. PICK j \in 1..(n - 1) : old(j) = k
      BY <1>8, <3>1
    <3> QED
      BY <1>6, <3>1, <3>2 DEF Range
  <2> QED
    BY <2>1, <2>2
<1>12. r \in Seq(Slots)
  BY <1>5 DEF r
<1> QED
  BY <1>2, <1>10, <1>11, <1>12 DEF r

\* who is appended is there with the others
LEMMA AppendIsAddition ==
  ASSUME NEW ms \in Seq(Slots), IsInjective(ms), NEW s \in Slots, s \notin Range(ms)
  PROVE  /\ Append(ms, s) \in Seq(Slots)
         /\ IsInjective(Append(ms, s))
         /\ Range(Append(ms, s)) = Range(ms) \union {s}
<1> DEFINE n == Len(ms)
           r == Append(ms, s)
<1>1. n \in Nat /\ DOMAIN ms = 1..n
  BY LenProperties
<1>2. /\ r \in Seq(Slots) /\ Len(r) = n + 1
      /\ \A i \in 1..n : r[i] = ms[i]
      /\ r[n + 1] = s
  BY AppendProperties
<1>3. DOMAIN r = 1..(n + 1)
  BY <1>2, LenProperties
<1> HIDE DEF r, n
<1>4. \A i \in 1..(n + 1) : i \in 1..n \/ i = n + 1
  BY <1>1
<1>5. IsInjective(r)
  BY <1>1, <1>2, <1>3, <1>4 DEF IsInjective, Range
<1>6. Range(r) = Range(ms) \union {s}
  BY <1>1, <1>2, <1>3, <1>4 DEF Range
<1> QED
  BY <1>2, <1>5, <1>6 DEF r

\* who is put in anywhere is there with the others
LEMMA InsertIsAddition ==
  ASSUME NEW ms \in Seq(Slots), IsInjective(ms), NEW s \in Slots, s \notin Range(ms),
         NEW k \in 0..Len(ms)
  PROVE  LET r == SubSeq(ms, 1, k) \o <<s>> \o SubSeq(ms, k + 1, Len(ms))
         IN  r \in Seq(Slots) /\ IsInjective(r) /\ Range(r) = Range(ms) \union {s}
<1> DEFINE n == Len(ms)
           a == SubSeq(ms, 1, k)
           b == SubSeq(ms, k + 1, n)
           c == a \o <<s>>
           r == c \o b
<1>1. /\ n \in Nat /\ DOMAIN ms = 1..n /\ k \in 0..n
      /\ \A i \in 1..n : ms[i] \in Slots
  BY LenProperties, ElementOfSeq
<1> HIDE DEF n
<1>2. a \in Seq(Slots) /\ Len(a) = k /\ \A i \in 1..k : a[i] = ms[i]
  BY <1>1, SubSeqProperties
<1>3. /\ b \in Seq(Slots) /\ Len(b) = n - k
      /\ \A i \in 1..(n - k) : b[i] = ms[k + i]
  BY <1>1, SubSeqProperties
<1> HIDE DEF a, b
<1>4. /\ c \in Seq(Slots) /\ Len(c) = k + 1
      /\ \A i \in 1..k : c[i] = ms[i]
      /\ c[k + 1] = s
  <2>1. <<s>> \in Seq(Slots) /\ Len(<<s>>) = 1 /\ <<s>>[1] = s
    OBVIOUS
  <2>2. /\ c \in Seq(Slots) /\ Len(c) = Len(a) + 1
        /\ \A i \in 1..(Len(a) + 1) : c[i] = IF i <= Len(a) THEN a[i] ELSE <<s>>[i - Len(a)]
    BY <1>2, <2>1, ConcatProperties
  <2>3. \A i \in 1..k : i \in 1..(k + 1) /\ i <= k
    BY <1>1
  <2>4. k + 1 \in 1..(k + 1) /\ ~(k + 1 <= k) /\ (k + 1) - k = 1
    BY <1>1
  <2>5. c[k + 1] = <<s>>[(k + 1) - k]
    BY <1>2, <2>2, <2>4
  <2> QED
    BY <1>2, <2>1, <2>2, <2>3, <2>4, <2>5
<1> HIDE DEF c
<1> DEFINE old(i) == IF i <= k THEN i ELSE i - 1
<1>5. /\ r \in Seq(Slots) /\ Len(r) = n + 1
      /\ \A i \in 1..(n + 1) : i # k + 1 => r[i] = ms[old(i)]
      /\ r[k + 1] = s
  <2>1. /\ r \in Seq(Slots) /\ Len(r) = (k + 1) + (n - k)
        /\ \A i \in 1..((k + 1) + (n - k)) : r[i] = IF i <= k + 1 THEN c[i] ELSE b[i - (k + 1)]
    <3>1. /\ c \o b \in Seq(Slots) /\ Len(c \o b) = Len(c) + Len(b)
          /\ \A i \in 1..(Len(c) + Len(b)) :
               (c \o b)[i] = IF i <= Len(c) THEN c[i] ELSE b[i - Len(c)]
      BY <1>3, <1>4, ConcatProperties
    <3>2. Len(c) = k + 1 /\ Len(b) = n - k
      BY <1>3, <1>4
    <3> QED
      BY <3>1, <3>2, Zenon
  <2>2. (k + 1) + (n - k) = n + 1
    BY <1>1
  <2>3. r[k + 1] = s
    <3>1. k + 1 \in 1..(n + 1) /\ k + 1 <= k + 1
      BY <1>1
    <3> QED
      BY <1>4, <2>1, <2>2, <3>1
  <2>4. ASSUME NEW i \in 1..(n + 1), i # k + 1 PROVE r[i] = ms[old(i)]
    <3>1. CASE i <= k
      <4>1. i <= k + 1 /\ i \in 1..k
        BY <1>1, <3>1
      <4> QED
        BY <1>4, <2>1, <2>2, <3>1, <4>1
    <3>2. CASE i > k + 1
      <4>1. /\ ~(i <= k + 1) /\ i - (k + 1) \in 1..(n - k)
            /\ k + (i - (k + 1)) = i - 1 /\ ~(i <= k)
        BY <1>1, <3>2
      <4>2. r[i] = b[i - (k + 1)]
        BY <2>1, <2>2, <4>1
      <4> QED
        BY <1>3, <4>1, <4>2
    <3>3. i <= k \/ i > k + 1
      BY <1>1, <2>4
    <3> QED
      BY <3>1, <3>2, <3>3
  <2> QED
    BY <2>1, <2>2, <2>3, <2>4
<1>6. DOMAIN r = 1..(n + 1)
  BY <1>5, LenProperties
<1>7. \A i \in 1..(n + 1) : i # k + 1 => old(i) \in 1..n
  BY <1>1
<1>8. \A i, j \in 1..(n + 1) : i # j /\ i # k + 1 /\ j # k + 1 => old(i) # old(j)
  BY <1>1
<1>9. \A j \in 1..n : \E i \in 1..(n + 1) : i # k + 1 /\ old(i) = j
  <2>1. ASSUME NEW j \in 1..n PROVE \E i \in 1..(n + 1) : i # k + 1 /\ old(i) = j
    <3>1. CASE j <= k
      BY <1>1, <3>1
    <3>2. CASE j > k
      <4>1. j + 1 \in 1..(n + 1) /\ j + 1 # k + 1 /\ old(j + 1) = j
        BY <1>1, <3>2
      <4> QED
        BY <4>1
    <3> QED
      BY <1>1, <3>1, <3>2
  <2> QED
    BY <2>1
<1>10. \A i, j \in 1..n : ms[i] = ms[j] => i = j
  BY <1>1 DEF IsInjective
<1>11. k + 1 \in 1..(n + 1)
  BY <1>1
<1>12. \A i \in 1..n : ms[i] # s
  BY <1>1 DEF Range
<1> HIDE DEF r, old
<1>13. IsInjective(r)
  <2>1. ASSUME NEW i \in 1..(n + 1), NEW j \in 1..(n + 1), r[i] = r[j] PROVE i = j
    <3>1. CASE i = k + 1 \/ j = k + 1
      BY <1>5, <1>7, <1>12, <2>1, <3>1
    <3>2. CASE i # k + 1 /\ j # k + 1
      BY <1>5, <1>7, <1>8, <1>10, <2>1, <3>2
    <3> QED
      BY <3>1, <3>2
  <2> QED
    BY <1>6, <2>1 DEF IsInjective
<1>14. Range(r) = Range(ms) \union {s}
  <2>1. ASSUME NEW x \in Range(r) PROVE x \in Range(ms) \union {s}
    BY <1>1, <1>5, <1>6, <1>7 DEF Range
  <2>2. ASSUME NEW x \in Range(ms) PROVE x \in Range(r)
    <3>1. PICK j \in 1..n : ms[j] = x
      BY <1>1 DEF Range
    <3>2. PICK i \in 1..(n + 1) : i # k + 1 /\ old(i) = j
      BY <1>9
    <3> QED
      BY <1>5, <1>6, <3>1, <3>2 DEF Range
  <2>3. s \in Range(r)
    BY <1>5, <1>6, <1>11 DEF Range
  <2> QED
    BY <2>1, <2>2, <2>3
<1> QED
  BY <1>5, <1>13, <1>14 DEF r, c, a, b, n

\* the players of a game are finitely many
LEMMA RangeIsFinite ==
  ASSUME NEW ms \in Seq(Slots)
  PROVE  IsFiniteSet(Range(ms))
<1> DEFINE D == 1..Len(ms)
<1>1. IsFiniteSet(D)
  BY LenProperties, FS_Interval
<1>2. ms \in Surjection(D, Range(ms))
  BY LenProperties DEF Surjection, Range
<1> QED
  BY <1>1, <1>2, FS_Surjection

\* a set in some order
LEMMA OrderIsTheSet ==
  ASSUME NEW S \in SUBSET Slots, IsFiniteSet(S), NEW order \in SetToSeqs(S)
  PROVE  order \in Seq(Slots) /\ IsInjective(order) /\ Range(order) = S
<1> DEFINE n == Cardinality(S)
           D == 1..n
<1>1. n \in Nat
  BY FS_CardinalityType
<1>2. IsFiniteSet(D) /\ Cardinality(D) = n
  BY <1>1, FS_Interval
<1>3. order \in [D -> S] /\ \A i, j \in D : i # j => order[i] # order[j]
  BY DEF SetToSeqs
<1>4. order \in Injection(D, S)
  BY <1>3 DEF Injection, IsInjective
<1>5. order \in Surjection(D, S)
  BY <1>2, <1>4, FS_Injection
<1>6. order \in Seq(Slots)
  BY <1>1, <1>3, SeqDef
<1>7. IsInjective(order)
  BY <1>3 DEF IsInjective
<1>8. Range(order) = S
  BY <1>3, <1>5 DEF Surjection, Range
<1> QED
  BY <1>6, <1>7, <1>8

\* the minimum of a set of numbers is its least member
LEMMA MinIn ==
  ASSUME NEW S \in SUBSET Nat, S # {}
  PROVE  Min(S) \in S /\ \A y \in S : Min(S) <= y
<1>1. IsWellFoundedOn(OpToRel(<, Nat), Nat)
  BY NatLessThanWellFounded
<1>2. PICK x \in S : \A y \in S : ~(<<y, x>> \in OpToRel(<, Nat))
  BY <1>1, WFMin
<1>3. ASSUME NEW y \in S
      PROVE  x <= y
  <2> DEFINE yx == <<y, x>>
  <2>1. yx \in Nat \X Nat /\ yx[1] = y /\ yx[2] = x
    OBVIOUS
  <2>2. ~(y < x)
    BY <1>2, <2>1 DEF OpToRel
  <2> QED
    BY <2>2
<1> QED
  BY <1>3 DEF Min

\* the maximum of a set of bounded numbers is in it
LEMMA MaxIn ==
  ASSUME NEW n \in Nat, NEW S \in SUBSET (0..n), S # {}
  PROVE  Max(S) \in S
<1> DEFINE T == {n - x : x \in S}
<1>1. T \in SUBSET Nat /\ T # {}
  <2>1. \A x \in S : n - x \in Nat
    OBVIOUS
  <2> QED
    BY <2>1, Zenon
<1>2. Min(T) \in T /\ \A y \in T : Min(T) <= y
  BY <1>1, MinIn
<1>3. PICK x \in S : Min(T) = n - x
  BY <1>2
<1>4. \A y \in S : n - x <= n - y
  BY <1>2, <1>3
<1>5. \A y \in S : x >= y
  BY <1>4
<1> QED
  BY <1>5 DEF Max

\* who is promoted stays in the game, like all others
LEMMA PromotedAreTheSame ==
  ASSUME NEW v, NEW ms \in Seq(Slots), IsInjective(ms), NEW t \in Range(ms)
  PROVE  /\ Promoted(v, ms, t) \in Seq(Slots)
         /\ IsInjective(Promoted(v, ms, t))
         /\ Range(Promoted(v, ms, t)) = Range(ms)
<1> DEFINE rest  == Without(ms, t)
           seats == {i \in DOMAIN rest : ~v.players[rest[i]].spectator}
           S     == {0} \union seats
           last  == Max(S)
<1>1. rest \in Seq(Slots) /\ IsInjective(rest) /\ Range(rest) = Range(ms) \ {t}
  BY WithoutIsErasure
<1> HIDE DEF rest
<1>2. Len(rest) \in Nat /\ DOMAIN rest = 1..Len(rest)
  BY <1>1, LenProperties
<1>3. S \in SUBSET (0..Len(rest)) /\ S # {}
  BY <1>2
<1>4. last \in 0..Len(rest)
  BY <1>2, <1>3, MaxIn
<1>5. t \in Slots
  BY LenProperties, ElementOfSeq DEF Range
<1>6. Promoted(v, ms, t) = SubSeq(rest, 1, last) \o <<t>> \o SubSeq(rest, last + 1, Len(rest))
  BY DEF Promoted, rest
<1> HIDE DEF last
<1> DEFINE r == SubSeq(rest, 1, last) \o <<t>> \o SubSeq(rest, last + 1, Len(rest))
<1>7. r \in Seq(Slots) /\ IsInjective(r) /\ Range(r) = Range(rest) \union {t}
  BY <1>1, <1>4, <1>5, InsertIsAddition
<1> QED
  BY <1>1, <1>6, <1>7

-----------------------------------------------------------------------------
(* Tables and players *)

\* what players and games are
LEMMA Records ==
  ASSUME NEW v \in World
  PROVE  /\ \A s \in Slots : v.players[s] \in PlayerRecord
         /\ \A g \in Tables : v.games[g] \in GameRecord
BY DEF World

\* one game is replaced, and everything else stays
LEMMA GameSet ==
  ASSUME NEW v \in World, NEW g \in Tables, NEW r \in GameRecord,
         NEW h, h = [v EXCEPT !.games[g] = r]
  PROVE  /\ h \in World
         /\ h.players = v.players /\ h.timers = v.timers /\ h.sockets = v.sockets
         /\ h.games[g] = r
         /\ \A k \in Tables : k # g => h.games[k] = v.games[k]
BY DEF World

\* what the members and the players in the race are
LEMMA RaceOf ==
  ASSUME NEW v \in World, NEW g \in Tables
  PROVE  /\ Active(v, g) = {s \in Range(v.games[g].members) :
                              ~v.players[s].spectator /\ ~v.players[s].bankrupt}
         /\ Active(v, g) \in SUBSET Members(v, g)
         /\ IsFiniteSet(Active(v, g)) /\ IsFiniteSet(Members(v, g))
<1>1. v.games[g].members \in Seq(Slots)
  BY DEF World, GameRecord
<1>2. IsFiniteSet(Members(v, g))
  BY <1>1, MembersAreSlots, RangeIsFinite
<1>3. /\ Active(v, g) = {s \in Range(v.games[g].members) :
                           ~v.players[s].spectator /\ ~v.players[s].bankrupt}
      /\ Active(v, g) \in SUBSET Members(v, g)
  BY MembersAreSlots DEF Active, Seated
<1> QED
  BY <1>2, <1>3, FS_Subset

\* a table that nobody comes to or leaves stays as it should be
LEMMA TableKept ==
  ASSUME NEW v \in World, NEW h \in World, NEW g \in Tables, Table(v, g),
         h.games[g] = v.games[g],
         \A t \in Slots : Sits(h, t, g) <=> Sits(v, t, g),
         \A t \in Slots : Sits(v, t, g) =>
           /\ h.players[t].spectator = v.players[t].spectator
           /\ h.players[t].bankrupt = v.players[t].bankrupt
  PROVE  Table(h, g)
<1>1. Members(h, g) = Members(v, g) /\ (Exists(h, g) <=> Exists(v, g))
  BY DEF Members, Exists
<1>2. Listed(h, g)
  BY <1>1 DEF Table, Listed
<1>3. Members(v, g) \in SUBSET Slots
  BY MembersAreSlots
<1>4. Active(h, g) = Active(v, g)
  BY <1>1, <1>3 DEF Active, Seated, Table, Listed
<1>5. Raced(h, g)
  BY <1>1, <1>3, <1>4 DEF Table, Raced, Listed
<1> QED
  BY <1>1, <1>2, <1>5 DEF Table

\* s is not in the race at g any more in h, and one player alone does not race
Ruined(v, h, g, s) ==
  /\ h \in World /\ h.timers = v.timers /\ h.sockets = v.sockets
  /\ \A t \in Slots : t # s => h.players[t] = v.players[t]
  /\ \E b \in BOOLEAN : h.players[s] = [v.players[s] EXCEPT !.bankrupt = b]
  /\ \A k \in Tables : k # g => h.games[k] = v.games[k]
  /\ h.games[g].members = v.games[g].members
  /\ h.games[g].master = v.games[g].master
  /\ Active(h, g) = Active(v, g) \ {s}
  /\ h.games[g].status =
       IF /\ ~v.players[s].bankrupt /\ ~v.players[s].spectator
          /\ Cardinality(Active(v, g) \ {s}) = 1
       THEN "end" ELSE v.games[g].status

\* Bankrupt has these effects and no others
LEMMA BankruptRuins ==
  ASSUME NEW v \in World, NEW g \in Tables, NEW s \in Slots
  PROVE  Ruined(v, Bankrupt(v, g, s), g, s)
<1> DEFINE p == [v.players[s] EXCEPT !.bankrupt = TRUE]
           u == [v EXCEPT !.players[s] = p]
           c == Change(u, {Seat(s)} \union Visible(v, g))
           r == [c.games[g] EXCEPT !.status = "end"]
           e == [c EXCEPT !.games[g] = r]
           ends == Cardinality(Active(c, g)) = 1
           out == v.players[s].bankrupt \/ v.players[s].spectator
           h == Bankrupt(v, g, s)
<1> SUFFICES Ruined(v, h, g, s)
  OBVIOUS
<1>1. h = IF out THEN v ELSE IF ends THEN Change(e, {Game(g)}) ELSE c
  BY DEF Bankrupt
<1> HIDE DEF h
<1>2. v.players[s] \in PlayerRecord
  BY Records
<1>3. CASE out
  <2>1. v.players[s] = [v.players[s] EXCEPT !.bankrupt = v.players[s].bankrupt]
    BY <1>2 DEF PlayerRecord
  <2>2. v.players[s].bankrupt \in BOOLEAN
    BY <1>2 DEF PlayerRecord
  <2>3. s \notin Active(v, g)
    BY <1>3 DEF Active, Seated
  <2> QED
    BY <1>1, <1>3, <2>1, <2>2, <2>3 DEF Ruined
<1>4. CASE ~out
  <2>1. p \in PlayerRecord /\ p.bankrupt
    BY <1>2 DEF PlayerRecord
  <2>3. p = [v.players[s] EXCEPT !.bankrupt = TRUE]
    OBVIOUS
  <2> HIDE DEF p
  <2>2. /\ u \in World /\ u.timers = v.timers /\ u.sockets = v.sockets
        /\ u.games = v.games
        /\ u.players[s] = p
        /\ \A t \in Slots : t # s => u.players[t] = v.players[t]
    BY <2>1 DEF World
  <2> HIDE DEF u
  <2>4. {Seat(s)} \union Visible(v, g) \in SUBSET Kinds
    BY <2>2, ItemsAreKinds, VisibleAreKinds
  <2>5. SameObjects(u, c)
    BY <2>2, <2>4, ChangeSame
  <2> HIDE DEF c
  <2>6. Members(u, g) = Members(v, g) /\ Members(v, g) \in SUBSET Slots
    BY <2>2, MembersAreSlots DEF Members
  <2>7. Active(u, g) = Active(v, g) \ {s}
    BY <2>1, <2>2, <2>6 DEF Active, Seated
  <2>8. Active(c, g) = Active(u, g)
    BY <2>5 DEF SameObjects, Active, Seated, Members
  <2>9. CASE ends
    <3>0. c \in World /\ c.games[g] \in GameRecord
      BY <2>5, Records DEF SameObjects
    <3>1. r \in GameRecord /\ r.status = "end" /\ r.members = c.games[g].members
          /\ r.master = c.games[g].master
      BY <3>0 DEF GameRecord
    <3> HIDE DEF r
    <3>2. /\ e \in World /\ e.players = c.players /\ e.timers = c.timers
          /\ e.sockets = c.sockets
          /\ e.games[g] = r
          /\ \A k \in Tables : k # g => e.games[k] = c.games[k]
      BY <3>0, <3>1, GameSet
    <3> HIDE DEF e
    <3>3. SameObjects(e, h)
      BY <1>1, <1>4, <2>9, <3>2, ItemsAreKinds, ChangeSame
    <3>4. Active(h, g) = Active(c, g)
      <4>1. h.players = c.players /\ h.games[g].members = c.games[g].members
        BY <3>1, <3>2, <3>3 DEF SameObjects
      <4> QED
        BY <4>1 DEF Active, Seated, Members
    <3>5. h \in World /\ h.timers = v.timers /\ h.sockets = v.sockets
      BY <2>2, <2>5, <3>2, <3>3 DEF SameObjects
    <3>6. h.players = u.players
      BY <2>5, <3>2, <3>3 DEF SameObjects
    <3>7. /\ h.games[g] = r
          /\ \A k \in Tables : k # g => h.games[k] = v.games[k]
      BY <2>2, <2>5, <3>2, <3>3 DEF SameObjects
    <3>8. r.members = v.games[g].members /\ r.master = v.games[g].master
      BY <2>2, <2>5, <3>1 DEF SameObjects
    <3> QED
      BY <1>4, <2>2, <2>3, <2>7, <2>8, <2>9, <3>1, <3>4, <3>5, <3>6, <3>7, <3>8 DEF Ruined
  <2>10. CASE ~ends
    <3>1. h = c
      BY <1>1, <1>4, <2>10
    <3>2. /\ c \in World /\ c.players = u.players /\ c.games = v.games
          /\ c.timers = v.timers /\ c.sockets = v.sockets
      BY <2>2, <2>5 DEF SameObjects
    <3> QED
      BY <1>4, <2>2, <2>3, <2>7, <2>8, <2>10, <3>1, <3>2 DEF Ruined
  <2> QED
    BY <2>9, <2>10
<1> QED
  BY <1>3, <1>4

\* what is as it should be, but for s who has no connection perhaps
ReadyBut(v, s) == /\ v \in World
                  /\ \A g \in Tables : Table(v, g)
                  /\ \A t \in Alive(v) \ {s} : Awaited(v, t)

\* no game is new or started
Fewer(v, h) ==
  \A k \in Tables : Exists(h, k) =>
    /\ Exists(v, k)
    /\ h.games[k].status = "config" <=> v.games[k].status = "config"

\* s has left the game he was in, in h, which may be without players then
Left(v, h, s) ==
  LET g == v.players[s].game
  IN  /\ h \in World /\ h.timers = v.timers /\ h.sockets = v.sockets
      /\ \A t \in Slots : t # s => h.players[t] = v.players[t]
      /\ h.players[s].alive /\ h.players[s].game = NoGame
      /\ h.players[s].socket = v.players[s].socket
      /\ h.players[s].identified = v.players[s].identified
      /\ \A k \in Tables : k # g => h.games[k] = v.games[k]
      /\ h.games[g].status \in {v.games[g].status, "end"}
      /\ h.games[g].status # "end" \/ v.games[g].status \in {"run", "end"}
      /\ Members(h, g) = Members(v, g) \ {s}
      /\ Members(h, g) # {} => Table(h, g)

\* bankrupt or not, he takes his leave
LEMMA RemovePlayerLeaves ==
  ASSUME NEW v, NEW s \in Alive(v), ReadyBut(v, s), v.players[s].game # NoGame
  PROVE  Left(v, RemovePlayer(v, s), s)
<1> DEFINE g == v.players[s].game
           r1 == [v.games[g] EXCEPT !.members = Without(@, s)]
           u1 == [v EXCEPT !.games[g] = r1]
           w1 == Change(u1, {Game(g)})
           w2 == IF v.games[g].status = "run" THEN Bankrupt(w1, g, s) ELSE w1
           p3 == [w2.players[s] EXCEPT !.game = NoGame]
           u3 == [w2 EXCEPT !.players[s] = p3]
           w3 == Change(u3, {Person(s)})
           m == w3.games[g].members[1]
           r4 == [w3.games[g] EXCEPT !.master = m]
           u4 == [w3 EXCEPT !.games[g] = r4]
           w4 == Change(u4, {Game(g)})
           w5 == IF w3.games[g].status = "config" THEN SendConfiguration(w4, m, g) ELSE w4
           h == RemovePlayer(v, s)
<1>1. h = IF s = v.games[g].master /\ Members(w3, g) # {} THEN w5 ELSE w3
  BY DEF RemovePlayer, NewMaster
<1>2. /\ v \in World /\ g \in Tables /\ s \in Slots /\ Table(v, g)
      /\ v.players[s] \in PlayerRecord /\ v.games[g] \in GameRecord
      /\ v.players[s].alive
      /\ Sits(v, s, g)
  BY DEF ReadyBut, Alive, World, PlayerRecord, Sits
<1> HIDE DEF g
<1>3. /\ Members(v, g) = Range(v.games[g].members)
      /\ v.games[g].members \in Seq(Slots) /\ IsInjective(v.games[g].members)
      /\ s \in Range(v.games[g].members)
  BY <1>2, MembersAreSlots DEF Table, Listed, GameRecord
<1> DEFINE rest == Without(v.games[g].members, s)
<1>4. /\ rest \in Seq(Slots) /\ IsInjective(rest)
      /\ Range(rest) = Members(v, g) \ {s}
  BY <1>3, WithoutIsErasure
<1> HIDE DEF rest
<1>5. /\ r1 \in GameRecord /\ r1.members = rest
      /\ r1.status = v.games[g].status /\ r1.master = v.games[g].master
  BY <1>2, <1>4 DEF GameRecord, rest
<1> HIDE DEF r1
<1>6. /\ u1 \in World /\ u1.players = v.players /\ u1.timers = v.timers
      /\ u1.sockets = v.sockets /\ u1.games[g] = r1
      /\ \A k \in Tables : k # g => u1.games[k] = v.games[k]
  BY <1>2, <1>5 DEF World
<1> HIDE DEF u1
<1>7. /\ w1 \in World /\ w1.players = v.players /\ w1.timers = v.timers
      /\ w1.sockets = v.sockets /\ w1.games[g] = r1
      /\ \A k \in Tables : k # g => w1.games[k] = v.games[k]
  BY <1>2, <1>6, ItemsAreKinds, ChangeSame DEF SameObjects
<1> HIDE DEF w1
<1>8. Active(w1, g) = Active(v, g) \ {s}
  <2>1. Members(w1, g) = Members(v, g) \ {s}
    BY <1>2, <1>4, <1>5, <1>7, MembersAreSlots
  <2> QED
    BY <1>7, <2>1 DEF Active, Seated
<1>9. /\ w2 \in World /\ w2.timers = v.timers /\ w2.sockets = v.sockets
      /\ \A t \in Slots : t # s => w2.players[t] = v.players[t]
      /\ \E b \in BOOLEAN : w2.players[s] = [v.players[s] EXCEPT !.bankrupt = b]
      /\ \A k \in Tables : k # g => w2.games[k] = v.games[k]
      /\ w2.games[g].members = rest /\ w2.games[g].master = v.games[g].master
      /\ Active(w2, g) = Active(v, g) \ {s}
      /\ w2.games[g].status \in {v.games[g].status, "end"}
      /\ w2.games[g].status # "end" \/ v.games[g].status \in {"run", "end"}
      /\ w2.games[g].status = "run" => \E x, y \in Active(w2, g) : x # y
  <2>1. CASE v.games[g].status = "run"
    <3>0. w2 = Bankrupt(w1, g, s)
      BY <2>1
    <3> HIDE DEF w2
    <3>01. Ruined(w1, w2, g, s)
      BY <1>2, <1>7, <3>0, BankruptRuins
    <3>1. /\ w2 \in World /\ w2.timers = w1.timers /\ w2.sockets = w1.sockets
          /\ \A t \in Slots : t # s => w2.players[t] = w1.players[t]
          /\ \E b \in BOOLEAN : w2.players[s] = [w1.players[s] EXCEPT !.bankrupt = b]
          /\ \A k \in Tables : k # g => w2.games[k] = w1.games[k]
          /\ w2.games[g].members = w1.games[g].members
          /\ w2.games[g].master = w1.games[g].master
          /\ Active(w2, g) = Active(w1, g) \ {s}
          /\ w2.games[g].status =
               IF /\ ~w1.players[s].bankrupt /\ ~w1.players[s].spectator
                  /\ Cardinality(Active(w1, g) \ {s}) = 1
               THEN "end" ELSE w1.games[g].status
      BY <3>01 DEF Ruined
    <3>2. PICK x, y \in Active(v, g) : x # y
      BY <1>2, <2>1 DEF Table, Raced
    <3>3. ASSUME w2.games[g].status = "run"
          PROVE  \E a, b \in Active(w2, g) : a # b
      <4>1. CASE s \notin Active(v, g)
        BY <1>8, <3>1, <3>2, <4>1
      <4>2. CASE s \in Active(v, g)
        <5>1. ~v.players[s].bankrupt /\ ~v.players[s].spectator
          BY <4>2 DEF Active, Seated
        <5>2. Cardinality(Active(w2, g)) # 1
          BY <1>7, <1>8, <3>1, <3>3, <5>1
        <5>3. IsFiniteSet(Active(w2, g))
          BY <1>2, <3>1, RaceOf
        <5>4. \E a : a \in Active(w2, g)
          BY <1>8, <3>1, <3>2
        <5> QED
          BY <5>2, <5>3, <5>4, FS_Singleton
      <4> QED
        BY <4>1, <4>2
    <3> QED
      BY <1>5, <1>7, <1>8, <2>1, <3>1, <3>3
  <2>2. CASE v.games[g].status # "run"
    <3>1. v.players[s] = [v.players[s] EXCEPT !.bankrupt = v.players[s].bankrupt]
          /\ v.players[s].bankrupt \in BOOLEAN
      BY <1>2 DEF PlayerRecord
    <3> QED
      BY <1>5, <1>7, <1>8, <2>2, <3>1
  <2> QED
    BY <2>1, <2>2
<1> HIDE DEF w2
<1>10. /\ p3 \in PlayerRecord /\ p3.game = NoGame /\ p3.alive
       /\ p3.socket = v.players[s].socket
       /\ p3.identified = v.players[s].identified
  <2>1. PICK b \in BOOLEAN : w2.players[s] = [v.players[s] EXCEPT !.bankrupt = b]
    BY <1>9
  <2> QED
    BY <1>2, <2>1 DEF PlayerRecord
<1> HIDE DEF p3
<1>11. /\ u3 \in World /\ u3.games = w2.games /\ u3.timers = w2.timers
       /\ u3.sockets = w2.sockets
       /\ u3.players[s] = p3
       /\ \A t \in Slots : t # s => u3.players[t] = w2.players[t]
  BY <1>2, <1>9, <1>10 DEF World
<1> HIDE DEF u3
<1>12. SameObjects(u3, w3)
  BY <1>2, <1>11, ItemsAreKinds, ChangeSame
<1> HIDE DEF w3
<1>13. /\ w3 \in World /\ w3.timers = v.timers /\ w3.sockets = v.sockets
       /\ \A t \in Slots : t # s => w3.players[t] = v.players[t]
       /\ w3.players[s] = p3
       /\ \A k \in Tables : k # g => w3.games[k] = v.games[k]
       /\ w3.games[g] = w2.games[g]
  BY <1>9, <1>11, <1>12 DEF SameObjects
<1>14. Members(w3, g) = Members(v, g) \ {s}
  BY <1>2, <1>4, <1>9, <1>13, MembersAreSlots
<1>15. Active(w3, g) = Active(w2, g)
  <2>1. Members(w2, g) = Members(w3, g)
    BY <1>13 DEF Members
  <2>2. s \notin Members(w3, g) /\ Members(w3, g) \in SUBSET Slots
    BY <1>2, <1>13, <1>14, MembersAreSlots
  <2> QED
    BY <1>9, <1>13, <2>1, <2>2 DEF Active, Seated
<1>16. Listed(w3, g) /\ Raced(w3, g)
  <2>1. ASSUME NEW t \in Slots PROVE t \in Members(w3, g) <=> Sits(w3, t, g)
    <3>1. CASE t = s
      BY <1>2, <1>10, <1>13, <1>14, <3>1, LobbyAssumption DEF Sits
    <3>2. CASE t # s
      BY <1>2, <1>13, <1>14, <3>2 DEF Sits, Alive, Table, Listed
    <3> QED
      BY <3>1, <3>2
  <2>2. IsInjective(w3.games[g].members)
    BY <1>4, <1>9, <1>13
  <2>3. Raced(w3, g)
    <3>1. ASSUME w3.games[g].status = "config", NEW t \in Members(w3, g)
          PROVE  ~w3.players[t].bankrupt
      <4>1. v.games[g].status = "config" /\ t \in Members(v, g) \ {s}
        BY <1>9, <1>13, <1>14, <3>1
      <4>2. t \in Slots
        BY <1>2, <4>1, MembersAreSlots
      <4> QED
        BY <1>2, <1>13, <4>1, <4>2 DEF Table, Raced
    <3> QED
      BY <1>9, <1>13, <1>15, <3>1 DEF Raced
  <2> QED
    BY <2>1, <2>2, <2>3 DEF Listed
<1>17. CASE ~(s = v.games[g].master /\ Members(w3, g) # {})
  <2>1. h = w3
    BY <1>1, <1>17
  <2>2. ASSUME Members(w3, g) # {} PROVE Table(w3, g)
    <3>1. Exists(v, g) /\ Exists(w3, g)
      BY <1>2, <1>3, <1>9, <1>13 DEF Table, Exists
    <3>2. w3.games[g].master \in Members(w3, g)
      BY <1>2, <1>9, <1>13, <1>14, <1>17, <2>2, <3>1 DEF Table
    <3> QED
      BY <1>16, <3>1, <3>2 DEF Table
  <2> QED
    BY <1>9, <1>10, <1>13, <1>14, <2>1, <2>2 DEF Left, g
<1>18. CASE s = v.games[g].master /\ Members(w3, g) # {}
  <2>1. m \in Members(w3, g) /\ m \in Slots
    <3>1. w3.games[g].members \in Seq(Slots)
      BY <1>2, <1>13, Records DEF GameRecord
    <3>2. 1 \in DOMAIN w3.games[g].members
      BY <1>18, <3>1, LenProperties DEF Members
    <3> QED
      BY <3>1, <3>2, ElementOfSeq, LenProperties DEF Members
  <2> HIDE DEF m
  <2>2. w3.games[g] \in GameRecord
    BY <1>2, <1>13, Records
  <2>3. /\ r4 \in GameRecord /\ r4.status = w3.games[g].status
        /\ r4.members = w3.games[g].members /\ r4.master = m
    BY <2>1, <2>2 DEF GameRecord
  <2> HIDE DEF r4
  <2>4. /\ u4 \in World /\ u4.players = w3.players /\ u4.timers = w3.timers
        /\ u4.sockets = w3.sockets /\ u4.games[g] = r4
        /\ \A k \in Tables : k # g => u4.games[k] = w3.games[k]
    BY <1>2, <1>13, <2>3 DEF World
  <2> HIDE DEF u4
  <2>5. SameObjects(u4, w4)
    BY <1>2, <2>4, ItemsAreKinds, ChangeSame
  <2> HIDE DEF w4
  <2>6. SameObjects(w4, w5)
    BY <1>2, <2>1, <2>5, SendConfigurationSame DEF SameObjects
  <2>7. h = w5
    BY <1>1, <1>18
  <2> HIDE DEF w5, h
  <2>8. /\ h \in World /\ h.players = w3.players /\ h.timers = v.timers
        /\ h.sockets = v.sockets /\ h.games[g] = r4
        /\ \A k \in Tables : k # g => h.games[k] = w3.games[k]
    BY <1>2, <1>13, <2>4, <2>5, <2>6, <2>7 DEF SameObjects
  <2>9. Members(h, g) = Members(w3, g) /\ Alive(h) = Alive(w3)
    BY <2>3, <2>8 DEF Members, Alive
  <2>10. Active(h, g) = Active(w3, g)
    BY <2>8, <2>9 DEF Active, Seated
  <2>11. Table(h, g)
    <3>1. Listed(h, g)
      BY <1>16, <2>3, <2>8, <2>9 DEF Listed, Sits
    <3>2. Raced(h, g)
      BY <1>16, <2>3, <2>8, <2>9, <2>10 DEF Raced
    <3>3. Exists(h, g)
      BY <1>2, <1>3, <1>9, <1>13, <2>3, <2>8 DEF Table, Exists
    <3> QED
      BY <2>1, <2>3, <2>8, <2>9, <3>1, <3>2, <3>3 DEF Table
  <2>12. h.games[g].status = w2.games[g].status
    BY <1>13, <2>3, <2>8
  <2> QED
    BY <1>9, <1>10, <1>13, <1>14, <2>8, <2>9, <2>11, <2>12 DEF Left, g, h
<1> QED
  BY <1>17, <1>18

\* nobody sits anywhere else than before, but s who is out of his game
LEMMA TablesKept ==
  ASSUME NEW v, NEW h \in World, NEW s \in Alive(v), ReadyBut(v, s),
         h.players[s].alive, h.players[s].game = NoGame,
         \A t \in Slots : t # s => h.players[t] = v.players[t],
         NEW k \in Tables, k # v.players[s].game, h.games[k] = v.games[k]
  PROVE  Table(h, k)
<1>1. v \in World /\ Table(v, k) /\ s \in Slots /\ ~Sits(v, s, k)
  BY DEF ReadyBut, Alive, Sits
<1>2. ASSUME NEW t \in Slots PROVE Sits(h, t, k) <=> Sits(v, t, k)
  BY <1>1, LobbyAssumption DEF Sits, Alive
<1>3. ASSUME NEW t \in Slots, Sits(v, t, k)
      PROVE  /\ h.players[t].spectator = v.players[t].spectator
             /\ h.players[t].bankrupt = v.players[t].bankrupt
  BY <1>1, <1>3
<1> QED
  BY <1>1, <1>2, <1>3, TableKept

\* s is out of the game, and everything is as it should be, but for him perhaps
Out(v, h, s) ==
  /\ ReadyBut(h, s)
  /\ h.sockets = v.sockets
  /\ \A t \in Slots : t # s => h.players[t] = v.players[t]
  /\ h.players[s].alive /\ h.players[s].game = NoGame
  /\ h.players[s].socket = v.players[s].socket
  /\ h.players[s].identified = v.players[s].identified
  /\ Fewer(v, h)

\* a game that is empty goes with its timeouts
LEMMA DelGameIsOut ==
  ASSUME NEW v, NEW s \in Alive(v), ReadyBut(v, s), v.players[s].game # NoGame
  PROVE  Out(v, DelGame(RemovePlayer(v, s), v.players[s].game), s)
<1> DEFINE g == v.players[s].game
           l == RemovePlayer(v, s)
           d == Delete(l, Game(g))
           timers == [t \in Slots |-> [l.timers[t] EXCEPT ![g] = 0]]
           e == [d EXCEPT !.games[g] = NoTable,
                          !.timers = [t \in Slots |-> [@[t] EXCEPT ![g] = 0]]]
           h == DelGame(l, g)
<1> SUFFICES Out(v, h, s)
  OBVIOUS
<1>1. /\ v \in World /\ g \in Tables /\ s \in Slots /\ Table(v, g)
      /\ \A k \in Tables : Table(v, k)
      /\ \A t \in Alive(v) \ {s} : Awaited(v, t)
  BY DEF ReadyBut, Alive, World, PlayerRecord
<1>2. Left(v, l, s)
  BY RemovePlayerLeaves
<1>3. h = IF Members(l, g) # {} THEN l ELSE Forget(e, {Game(g), Board(g), Options(g)})
  BY DEF DelGame
<1>4. d.timers = l.timers
  BY DEF Delete
<1> HIDE DEF h, l, g
<1>5. /\ l \in World /\ l.timers = v.timers /\ l.sockets = v.sockets
      /\ \A t \in Slots : t # s => l.players[t] = v.players[t]
      /\ l.players[s].alive /\ l.players[s].game = NoGame
      /\ l.players[s].socket = v.players[s].socket
      /\ l.players[s].identified = v.players[s].identified
      /\ \A k \in Tables : k # g => l.games[k] = v.games[k]
      /\ l.games[g].status \in {v.games[g].status, "end"}
      /\ l.games[g].status # "end" \/ v.games[g].status \in {"run", "end"}
      /\ Members(l, g) = Members(v, g) \ {s}
      /\ Members(l, g) # {} => Table(l, g)
  BY <1>2 DEF Left, g
<1>6. /\ \A t \in Alive(l) \ {s} : t \in Alive(v) \ {s} /\ v.players[t] = l.players[t]
      /\ \A t \in Alive(v) : v.players[t].game \in Tables \union {NoGame}
  BY <1>1, <1>5 DEF Alive, World, PlayerRecord
<1>7. Exists(v, g)
  BY <1>1 DEF Table, Listed, Sits, g
<1>8. CASE Members(l, g) # {}
  <2>1. h = l
    BY <1>3, <1>8
  <2>2. ASSUME NEW k \in Tables PROVE Table(l, k)
    <3>1. CASE k = g
      BY <1>5, <1>8, <3>1
    <3>2. CASE k # g
      BY <1>1, <1>5, <3>2, TablesKept DEF g
    <3> QED
      BY <3>1, <3>2
  <2>3. ASSUME NEW t \in Alive(l) \ {s} PROVE Awaited(l, t)
    BY <1>1, <1>5, <1>6 DEF Awaited
  <2>4. Fewer(v, l)
    <3>1. l.games[g].status = "config" <=> v.games[g].status = "config"
      BY <1>5
    <3> QED
      BY <1>5, <1>7, <3>1 DEF Fewer, Exists
  <2> QED
    BY <1>5, <2>1, <2>2, <2>3, <2>4 DEF Out, ReadyBut
<1>9. CASE Members(l, g) = {}
  <2>1. SameObjects(l, d)
    BY <1>5, DeleteSame
  <2>2. timers \in [Slots -> [Tables -> 0..MaxTimers]]
    <3>1. l.timers \in [Slots -> [Tables -> 0..MaxTimers]]
      BY <1>5 DEF World
    <3>2. 0 \in 0..MaxTimers
      BY LobbyAssumption
    <3>3. \A t \in Slots : [l.timers[t] EXCEPT ![g] = 0] \in [Tables -> 0..MaxTimers]
      BY <3>1, <3>2
    <3> QED
      BY <3>3
  <2>3. NoTable \in GameRecord /\ NoTable.status = "none" /\ NoTable.members = <<>>
    BY DEF NoTable, GameRecord
  <2>4. e = [d EXCEPT !.games[g] = NoTable, !.timers = timers]
    BY <1>4
  <2> HIDE DEF d, e, timers
  <2>5. /\ e \in World /\ e.players = l.players /\ e.sockets = l.sockets
        /\ e.timers = timers /\ e.games[g] = NoTable
        /\ \A k \in Tables : k # g => e.games[k] = l.games[k]
    BY <1>1, <2>1, <2>2, <2>3, <2>4 DEF World, SameObjects
  <2>6. SameObjects(e, h)
    BY <1>3, <1>9, <2>5, ForgetSame
  <2>7. /\ h \in World /\ h.players = l.players /\ h.sockets = l.sockets
        /\ h.timers = timers /\ h.games[g] = NoTable
        /\ \A k \in Tables : k # g => h.games[k] = l.games[k]
    BY <2>5, <2>6 DEF SameObjects
  <2> HIDE DEF NoTable
  <2>8. ASSUME NEW t \in Slots PROVE ~Sits(h, t, g)
    <3>1. CASE t = s
      BY <1>1, <1>5, <2>7, <3>1, LobbyAssumption DEF Sits
    <3>2. CASE t # s
      BY <1>1, <1>5, <1>9, <2>7, <3>2 DEF Sits, Alive, Table, Listed
    <3> QED
      BY <3>1, <3>2
  <2>9. Table(h, g)
    <3>1. h.games[g].members = <<>> /\ h.games[g].status = "none"
      BY <2>3, <2>7
    <3>2. Members(h, g) = {}
      BY <3>1 DEF Members
    <3>3. IsInjective(h.games[g].members)
      BY <3>1 DEF IsInjective
    <3> QED
      BY <2>8, <3>1, <3>2, <3>3 DEF Table, Listed, Raced, Exists
  <2>10. ASSUME NEW k \in Tables PROVE Table(h, k)
    <3>1. CASE k = g
      BY <2>9, <3>1
    <3>2. CASE k # g
      BY <1>1, <1>5, <2>7, <3>2, TablesKept DEF g
    <3> QED
      BY <3>1, <3>2
  <2>11. ASSUME NEW t \in Alive(h) \ {s} PROVE Awaited(h, t)
    <3>1. t \in Alive(v) \ {s} /\ v.players[t] = h.players[t] /\ t \in Slots
      BY <1>6, <2>7 DEF Alive
    <3>2. Awaited(v, t)
      BY <1>1, <3>1
    <3>3. SUFFICES ASSUME h.players[t].socket = NoFd PROVE Awaited(h, t)
      BY DEF Awaited
    <3> DEFINE k == v.players[t].game
    <3>4. /\ k \in Tables /\ v.games[k].status \in {"run", "end"} /\ v.timers[t][k] > 0
      BY <1>6, <3>1, <3>2, <3>3 DEF Awaited
    <3>5. k # g
      BY <2>8, <3>1 DEF Sits, Alive
    <3>6. h.timers[t][k] = v.timers[t][k]
      <4>1. h.timers[t] = [v.timers[t] EXCEPT ![g] = 0]
        BY <1>5, <2>7, <3>1 DEF timers
      <4>2. v.timers[t] \in [Tables -> 0..MaxTimers]
        BY <1>1, <3>1 DEF World
      <4> QED
        BY <1>1, <3>4, <3>5, <4>1, <4>2
    <3>7. h.games[k] = v.games[k]
      BY <1>5, <2>7, <3>4, <3>5
    <3> QED
      BY <3>1, <3>2, <3>4, <3>6, <3>7 DEF Awaited
  <2>12. Fewer(v, h)
    BY <1>5, <2>3, <2>7 DEF Fewer, Exists
  <2> QED
    BY <1>5, <2>7, <2>10, <2>11, <2>12 DEF Out, ReadyBut
<1> QED
  BY <1>8, <1>9

\* players and places are taken as they are when one of them is changed in other respects
LEMMA ReadyKept ==
  ASSUME NEW v \in World, NEW h \in World, NEW s,
         \A g \in Tables : Table(v, g),
         \A t \in Alive(v) \ {s} : Awaited(v, t),
         h.games = v.games, h.timers = v.timers,
         \A t \in Slots : t # s => h.players[t] = v.players[t],
         \A g \in Tables : Sits(h, s, g) <=> Sits(v, s, g),
         \/ \A g \in Tables : ~Sits(v, s, g)
         \/ /\ h.players[s].spectator = v.players[s].spectator
            /\ h.players[s].bankrupt = v.players[s].bankrupt
  PROVE  ReadyBut(h, s)
<1>1. ASSUME NEW g \in Tables PROVE Table(h, g)
  <2>1. ASSUME NEW t \in Slots PROVE Sits(h, t, g) <=> Sits(v, t, g)
    BY DEF Sits, Alive
  <2>2. ASSUME NEW t \in Slots, Sits(v, t, g)
        PROVE  /\ h.players[t].spectator = v.players[t].spectator
               /\ h.players[t].bankrupt = v.players[t].bankrupt
    BY <2>2
  <2> QED
    BY <2>1, <2>2, TableKept
<1>2. ASSUME NEW t \in Alive(h) \ {s} PROVE Awaited(h, t)
  BY DEF Awaited, Alive
<1> QED
  BY <1>1, <1>2 DEF ReadyBut

\* s is deleted, and nobody else is touched
Gone(v, h, s) ==
  /\ Ready(h)
  /\ h.sockets = v.sockets
  /\ h.players[s] = Deleted
  /\ \A t \in Slots : t # s => h.players[t] = v.players[t]
  /\ Fewer(v, h)

\* delPlayer has these effects
LEMMA DelPlayerIsGone ==
  ASSUME NEW v, NEW s \in Alive(v), ReadyBut(v, s)
  PROVE  Gone(v, DelPlayer(v, s), s)
<1> DEFINE g == v.players[s].game
           o == IF g = NoGame THEN v ELSE DelGame(RemovePlayer(v, s), g)
           d == Delete(o, Person(s))
           e == [d EXCEPT !.players[s] = Deleted]
           h == DelPlayer(v, s)
<1> SUFFICES Gone(v, h, s)
  OBVIOUS
<1>1. h = Forget(e, {Person(s), Seat(s)})
  BY DEF DelPlayer
<1>2. Out(v, o, s)
  <2>1. CASE g = NoGame
    BY <2>1 DEF Out, ReadyBut, Alive, Fewer
  <2>2. CASE g # NoGame
    BY <2>2, DelGameIsOut
  <2> QED
    BY <2>1, <2>2
<1>3. s \in Slots /\ v \in World
  BY DEF Alive, ReadyBut
<1> HIDE DEF o, h
<1>4. /\ o \in World /\ o.sockets = v.sockets
      /\ \A t \in Slots : t # s => o.players[t] = v.players[t]
      /\ \A k \in Tables : Table(o, k)
      /\ \A t \in Alive(o) \ {s} : Awaited(o, t)
      /\ \A k \in Tables : ~Sits(o, s, k)
  BY <1>2, <1>3, LobbyAssumption DEF Out, ReadyBut, Sits
<1>5. SameObjects(o, d)
  BY <1>4, DeleteSame
<1> HIDE DEF d
<1>6. Deleted \in PlayerRecord /\ ~Deleted.alive
  BY DEF Deleted, PlayerRecord
<1> HIDE DEF Deleted
<1>7. /\ e \in World /\ e.games = d.games /\ e.timers = d.timers /\ e.sockets = d.sockets
      /\ e.players[s] = Deleted
      /\ \A t \in Slots : t # s => e.players[t] = d.players[t]
  BY <1>3, <1>5, <1>6 DEF World, SameObjects
<1> HIDE DEF e
<1>8. SameObjects(e, h)
  BY <1>1, <1>7, ForgetSame
<1>9. /\ h \in World /\ h.games = o.games /\ h.timers = o.timers /\ h.sockets = o.sockets
      /\ h.players[s] = Deleted
      /\ \A t \in Slots : t # s => h.players[t] = o.players[t]
  BY <1>5, <1>7, <1>8 DEF SameObjects
<1>10. \A k \in Tables : ~Sits(h, s, k)
  BY <1>6, <1>9 DEF Sits, Alive
<1>11. ReadyBut(h, s)
  BY <1>4, <1>9, <1>10, ReadyKept
<1>12. s \notin Alive(h)
  BY <1>6, <1>9 DEF Alive
<1>13. Fewer(v, h)
  BY <1>2, <1>9 DEF Out, Fewer, Exists
<1> QED
  BY <1>4, <1>9, <1>11, <1>12, <1>13 DEF Gone, Ready, ReadyBut

\* nobody comes, goes or gets another connection, and no connection another state
SameWires(v, h) ==
  /\ h.sockets = v.sockets
  /\ \A t \in Slots : /\ h.players[t].alive = v.players[t].alive
                      /\ h.players[t].socket = v.players[t].socket

\* where everybody is awaited, all but s are
LEMMA ReadyIsReadyBut ==
  ASSUME NEW v, Ready(v), NEW s
  PROVE  ReadyBut(v, s)
BY DEF Ready, ReadyBut

\* who exits a game is in none, and has a connection
LEMMA ExitGameReady ==
  ASSUME NEW v, Ready(v), NEW s \in Alive(v), v.players[s].game # NoGame,
         v.players[s].socket # NoFd
  PROVE  Ready(ExitGame(v, s)) /\ SameWires(v, ExitGame(v, s))
<1> DEFINE g == v.players[s].game
           o == DelGame(RemovePlayer(v, s), g)
           f == o.players[s].socket
           u == Unfollow(o, s, g)
           p == [u.players[s] EXCEPT !.spectator = FALSE, !.bankrupt = FALSE]
           e == [u EXCEPT !.players[s] = p]
           h == ExitGame(v, s)
<1> SUFFICES Ready(h) /\ SameWires(v, h)
  OBVIOUS
<1>1. h = Forget(e, {Seat(s)})
  BY DEF ExitGame
<1>2. Out(v, o, s)
  BY ReadyIsReadyBut, DelGameIsOut
<1>3. s \in Slots /\ v \in World /\ v.players[s].alive
  BY DEF Alive, Ready
<1> HIDE DEF o, h
<1>4. /\ o \in World /\ o.sockets = v.sockets
      /\ \A t \in Slots : t # s => o.players[t] = v.players[t]
      /\ o.players[s].alive /\ o.players[s].game = NoGame
      /\ o.players[s].socket = v.players[s].socket
      /\ \A k \in Tables : Table(o, k)
      /\ \A t \in Alive(o) \ {s} : Awaited(o, t)
  BY <1>2 DEF Out, ReadyBut
<1>5. SameObjects(o, u)
  <2>1. f \in Fds
    BY <1>3, <1>4, Records DEF PlayerRecord
  <2> DEFINE known == o.views[f] \ ({Board(g), Options(g)} \union {Seat(t) : t \in Slots})
  <2>2. u = [o EXCEPT !.views[f] = known]
    BY <1>4 DEF Unfollow
  <2>3. known \in SUBSET Kinds
    BY <1>4, <2>1 DEF World
  <2> HIDE DEF known, f, u
  <2> QED
    BY <1>4, <2>1, <2>2, <2>3 DEF World, SameObjects
<1> HIDE DEF u
<1>6. /\ u.players = o.players /\ u \in World /\ u.games = o.games
      /\ u.timers = o.timers /\ u.sockets = o.sockets
  BY <1>5 DEF SameObjects
<1>7. u.players[s] \in PlayerRecord
  BY <1>3, <1>6, Records
<1>8. /\ p \in PlayerRecord /\ p.alive = u.players[s].alive
      /\ p.socket = u.players[s].socket /\ p.game = u.players[s].game
  BY <1>7 DEF PlayerRecord
<1> HIDE DEF p
<1>9. /\ e \in World /\ e.games = u.games /\ e.timers = u.timers /\ e.sockets = u.sockets
      /\ e.players[s] = p
      /\ \A t \in Slots : t # s => e.players[t] = u.players[t]
  BY <1>3, <1>6, <1>8 DEF World
<1> HIDE DEF e
<1>10. SameObjects(e, h)
  BY <1>1, <1>9, ForgetSame
<1>11. /\ h \in World /\ h.games = o.games /\ h.timers = o.timers
       /\ h.sockets = o.sockets
       /\ h.players[s] = p
       /\ \A t \in Slots : t # s => h.players[t] = o.players[t]
  BY <1>6, <1>9, <1>10 DEF SameObjects
<1>12. \A k \in Tables : ~Sits(h, s, k) /\ ~Sits(o, s, k)
  BY <1>4, <1>6, <1>8, <1>11, LobbyAssumption DEF Sits
<1>13. ReadyBut(h, s)
  BY <1>4, <1>11, <1>12, ReadyKept
<1>14. Awaited(h, s)
  BY <1>4, <1>6, <1>8, <1>11 DEF Awaited
<1>15. SameWires(v, h)
  BY <1>3, <1>4, <1>6, <1>8, <1>11 DEF SameWires
<1> QED
  BY <1>13, <1>14, <1>15 DEF Ready, ReadyBut

\* s sits down as the last of the table g
Seating(v, s, g, watch) ==
  [v EXCEPT !.players[s].game = g, !.players[s].spectator = watch,
            !.players[s].bankrupt = FALSE, !.games[g].members = Append(@, s)]

SatDown(v, u, s, g, watch) ==
  /\ u \in World /\ u.timers = v.timers /\ u.sockets = v.sockets
  /\ u.players[s] = [v.players[s] EXCEPT !.game = g, !.spectator = watch, !.bankrupt = FALSE]
  /\ \A t \in Slots : t # s => u.players[t] = v.players[t]
  /\ u.games[g] = [v.games[g] EXCEPT !.members = Append(@, s)]
  /\ \A k \in Tables : k # g => u.games[k] = v.games[k]

\* who is seated sits in the game and the others where they sat
LEMMA SeatingSits ==
  ASSUME NEW v \in World, NEW s \in Slots, NEW g \in Tables, NEW watch \in BOOLEAN,
         Append(v.games[g].members, s) \in Seq(Slots)
  PROVE  SatDown(v, Seating(v, s, g, watch), s, g, watch)
<1> DEFINE p == [v.players[s] EXCEPT !.game = g, !.spectator = watch, !.bankrupt = FALSE]
           r == [v.games[g] EXCEPT !.members = Append(@, s)]
           u1 == [v EXCEPT !.players[s] = p]
           u2 == [u1 EXCEPT !.games[g] = r]
           u == Seating(v, s, g, watch)
<1>1. u = u2
  BY DEF Seating, World, PlayerRecord, GameRecord
<1>2. v.players[s] \in PlayerRecord /\ v.games[g] \in GameRecord
  BY Records
<1>3. p \in PlayerRecord
  BY <1>2 DEF PlayerRecord
<1>4. r \in GameRecord
  BY <1>2 DEF GameRecord
<1> HIDE DEF p, r
<1>5. /\ u1 \in World /\ u1.games = v.games /\ u1.timers = v.timers
      /\ u1.sockets = v.sockets /\ u1.players[s] = p
      /\ \A t \in Slots : t # s => u1.players[t] = v.players[t]
  BY <1>3 DEF World
<1> HIDE DEF u1
<1>6. /\ u2 \in World /\ u2.players = u1.players /\ u2.timers = u1.timers
      /\ u2.sockets = u1.sockets /\ u2.games[g] = r
      /\ \A k \in Tables : k # g => u2.games[k] = u1.games[k]
  BY <1>4, <1>5 DEF World
<1> HIDE DEF u, u2
<1>7. /\ u \in World /\ u.timers = v.timers /\ u.sockets = v.sockets
      /\ u.players[s] = p
      /\ \A t \in Slots : t # s => u.players[t] = v.players[t]
      /\ u.games[g] = r
      /\ \A k \in Tables : k # g => u.games[k] = v.games[k]
  BY <1>1, <1>5, <1>6
<1> QED
  BY <1>7 DEF u, p, r, SatDown

\* who comes to a table is the last of its members, and the master if he is the first
LEMMA AddPlayerReady ==
  ASSUME NEW v \in World, NEW s \in Alive(v), NEW g \in Tables,
         NEW watch \in BOOLEAN, NEW first \in BOOLEAN,
         v.players[s].game = NoGame, v.players[s].socket # NoFd,
         \A k \in Tables : k # g => Table(v, k),
         \A t \in Alive(v) : Awaited(v, t),
         Listed(v, g), Raced(v, g), Exists(v, g),
         ~first => v.games[g].master \in Members(v, g)
  PROVE  Ready(AddPlayer(v, s, g, watch, first)) /\ SameWires(v, AddPlayer(v, s, g, watch, first))
<1> DEFINE p == [v.players[s] EXCEPT !.game = g, !.spectator = watch, !.bankrupt = FALSE]
           r == [v.games[g] EXCEPT !.members = Append(@, s)]
           u == Seating(v, s, g, watch)
           c == Change(u, {Person(s), Seat(s), Game(g)})
           r2 == [c.games[g] EXCEPT !.master = s]
           c2 == [c EXCEPT !.games[g] = r2]
           h == AddPlayer(v, s, g, watch, first)
<1> SUFFICES Ready(h) /\ SameWires(v, h)
  OBVIOUS
<1>1. h = IF first THEN c2 ELSE SendFullUpdate(c, s)
  BY DEF AddPlayer, Seating
<1> HIDE DEF h
<1>2. /\ s \in Slots /\ v.players[s] \in PlayerRecord /\ v.games[g] \in GameRecord
      /\ v.players[s].alive
  BY Records DEF Alive
<1>3. /\ Members(v, g) = Range(v.games[g].members)
      /\ v.games[g].members \in Seq(Slots) /\ IsInjective(v.games[g].members)
      /\ s \notin Range(v.games[g].members)
  <2>1. ~Sits(v, s, g)
    BY LobbyAssumption DEF Sits
  <2> QED
    BY <1>2, <2>1, MembersAreSlots DEF Listed, GameRecord
<1> DEFINE ms == Append(v.games[g].members, s)
<1>4. ms \in Seq(Slots) /\ IsInjective(ms) /\ Range(ms) = Members(v, g) \union {s}
  BY <1>2, <1>3, AppendIsAddition
<1> HIDE DEF ms
<1>5. /\ r \in GameRecord /\ r.members = ms
      /\ r.status = v.games[g].status /\ r.master = v.games[g].master
  BY <1>2, <1>4 DEF GameRecord, ms
<1>6. /\ p \in PlayerRecord /\ p.alive = v.players[s].alive /\ p.game = g
      /\ p.socket = v.players[s].socket
  BY <1>2 DEF PlayerRecord
<1>8. /\ u \in World /\ u.timers = v.timers /\ u.sockets = v.sockets
      /\ u.players[s] = p
      /\ \A t \in Slots : t # s => u.players[t] = v.players[t]
      /\ u.games[g] = r
      /\ \A k \in Tables : k # g => u.games[k] = v.games[k]
  <2>1. SatDown(v, u, s, g, watch)
    BY <1>2, <1>4, SeatingSits DEF ms
  <2> HIDE DEF u
  <2> QED
    BY <2>1 DEF SatDown
<1> HIDE DEF u, p, r
<1>9. SameObjects(u, c)
  BY <1>2, <1>8, ItemsAreKinds, ChangeSame
<1> HIDE DEF c
<1>10. /\ c \in World /\ c.timers = v.timers /\ c.sockets = v.sockets
       /\ c.players[s] = p
       /\ \A t \in Slots : t # s => c.players[t] = v.players[t]
       /\ c.games[g] = r
       /\ \A k \in Tables : k # g => c.games[k] = v.games[k]
  BY <1>8, <1>9 DEF SameObjects
<1>11. /\ h \in World /\ h.players = c.players /\ h.timers = c.timers
       /\ h.sockets = c.sockets
       /\ \A k \in Tables : k # g => h.games[k] = c.games[k]
       /\ h.games[g].members = r.members /\ h.games[g].status = r.status
       /\ h.games[g].master = IF first THEN s ELSE r.master
  <2>1. CASE first
    <3>1. /\ r2 \in GameRecord /\ r2.members = r.members /\ r2.status = r.status
          /\ r2.master = s
      BY <1>2, <1>5, <1>10 DEF GameRecord
    <3> HIDE DEF r2
    <3>2. /\ c2 \in World /\ c2.players = c.players /\ c2.timers = c.timers
          /\ c2.sockets = c.sockets /\ c2.games[g] = r2
          /\ \A k \in Tables : k # g => c2.games[k] = c.games[k]
      BY <1>10, <3>1 DEF World
    <3> HIDE DEF c2
    <3> QED
      BY <1>1, <2>1, <3>1, <3>2
  <2>2. CASE ~first
    <3>1. h = SendFullUpdate(c, s)
      BY <1>1, <2>2
    <3>2. c.players[s].game # NoGame
      BY <1>6, <1>10, LobbyAssumption
    <3>3. SameObjects(c, h)
      BY <1>2, <1>10, <3>1, <3>2, SendFullUpdateSame
    <3> QED
      BY <1>10, <2>2, <3>3 DEF SameObjects
  <2> QED
    BY <2>1, <2>2
<1>12. Members(h, g) = Members(v, g) \union {s}
  BY <1>4, <1>5, <1>11, MembersAreSlots
<1>13. ASSUME NEW t \in Slots, NEW k \in Tables, t # s
       PROVE  Sits(h, t, k) <=> Sits(v, t, k)
  BY <1>10, <1>11, <1>13 DEF Sits, Alive
<1>14. \A k \in Tables : Sits(h, s, k) <=> k = g
  BY <1>2, <1>6, <1>10, <1>11 DEF Sits, Alive
<1>15. \A k \in Tables : ~Sits(v, s, k)
  BY LobbyAssumption DEF Sits
<1>16. Table(h, g)
  <2>1. Listed(h, g)
    <3>1. ASSUME NEW t \in Slots PROVE t \in Members(h, g) <=> Sits(h, t, g)
      <4>1. CASE t = s
        BY <1>12, <1>14, <4>1
      <4>2. CASE t # s
        BY <1>12, <1>13, <4>2 DEF Listed
      <4> QED
        BY <4>1, <4>2
    <3>2. IsInjective(h.games[g].members)
      BY <1>4, <1>5, <1>11
    <3> QED
      BY <3>1, <3>2 DEF Listed
  <2>2. Raced(h, g)
    <3>0. ASSUME h.games[g].status = "config", NEW t \in Members(h, g)
          PROVE  ~h.players[t].bankrupt
      <4>1. t = s \/ (t \in Members(v, g) /\ t # s /\ t \in Slots)
        BY <1>3, <1>12, MembersAreSlots
      <4>2. v.games[g].status = "config" /\ ~p.bankrupt
        BY <1>2, <1>5, <1>11, <3>0 DEF PlayerRecord, p
      <4> QED
        BY <1>10, <1>11, <4>1, <4>2 DEF Raced
    <3>1. SUFFICES ASSUME h.games[g].status = "run"
                   PROVE  \E x, y \in Active(h, g) : x # y
      BY <3>0 DEF Raced
    <3>2. PICK x, y \in Active(v, g) : x # y
      BY <1>5, <1>11, <3>1 DEF Raced
    <3>3. x \in Members(v, g) /\ y \in Members(v, g) /\ x # s /\ y # s /\ x \in Slots /\ y \in Slots
      BY <1>3, RaceOf, MembersAreSlots
    <3>4. x \in Active(h, g) /\ y \in Active(h, g)
      BY <1>10, <1>11, <1>12, <3>3 DEF Active, Seated
    <3> QED
      BY <3>2, <3>4
  <2>3. Exists(h, g) /\ h.games[g].master \in Members(h, g)
    BY <1>5, <1>11, <1>12 DEF Exists
  <2> QED
    BY <2>1, <2>2, <2>3 DEF Table
<1>17. ASSUME NEW k \in Tables, k # g PROVE Table(h, k)
  <2>1. /\ Table(v, k) /\ h.games[k] = v.games[k]
    BY <1>10, <1>11, <1>17
  <2>2. ASSUME NEW t \in Slots PROVE Sits(h, t, k) <=> Sits(v, t, k)
    BY <1>13, <1>14, <1>15, <1>17
  <2>3. ASSUME NEW t \in Slots, Sits(v, t, k)
        PROVE  /\ h.players[t].spectator = v.players[t].spectator
               /\ h.players[t].bankrupt = v.players[t].bankrupt
    BY <1>10, <1>11, <1>15, <2>3
  <2> QED
    BY <1>11, <2>1, <2>2, <2>3, TableKept
<1>18. ASSUME NEW t \in Alive(h) PROVE Awaited(h, t)
  <2>1. CASE t = s
    BY <1>6, <1>10, <1>11, <2>1 DEF Awaited
  <2>2. CASE t # s
    <3>1. t \in Slots /\ t \in Alive(v) /\ h.players[t] = v.players[t]
      BY <1>10, <1>11, <2>2 DEF Alive
    <3>2. \A k \in Tables : h.games[k].status = v.games[k].status
      BY <1>5, <1>10, <1>11
    <3>3. v.players[t].game \in Tables \union {NoGame}
      BY <3>1, Records DEF PlayerRecord
    <3> QED
      BY <1>10, <1>11, <3>1, <3>2, <3>3 DEF Awaited
  <2> QED
    BY <2>1, <2>2
<1>19. SameWires(v, h)
  BY <1>2, <1>6, <1>10, <1>11 DEF SameWires
<1> QED
  BY <1>11, <1>16, <1>17, <1>18, <1>19 DEF Ready

-----------------------------------------------------------------------------
(* The requests of players *)

\* what Play does, and every setting of a property
LEMMA ChangeReady ==
  ASSUME NEW v, Ready(v), NEW items \in SUBSET Kinds
  PROVE  Ready(Change(v, items)) /\ SameWires(v, Change(v, items))
<1>1. SameObjects(v, Change(v, items))
  BY ChangeSame DEF Ready
<1> QED
  BY <1>1, SameReady DEF SameWires, SameObjects

\* a full update leaves the objects as they should be
LEMMA SendFullUpdateReady ==
  ASSUME NEW v, Ready(v), NEW s \in Slots, v.players[s].game # NoGame
  PROVE  Ready(SendFullUpdate(v, s)) /\ SameWires(v, SendFullUpdate(v, s))
<1>1. SameObjects(v, SendFullUpdate(v, s))
  BY SendFullUpdateSame DEF Ready
<1> QED
  BY <1>1, SameReady DEF SameWires, SameObjects

\* the creator of a game is its first player
LEMMA NewGameReady ==
  ASSUME NEW v, Ready(v), NEW s \in Alive(v), NEW g \in FreeTables(v),
         v.players[s].game = NoGame, v.players[s].socket # NoFd
  PROVE  Ready(NewGame(v, s, g)) /\ SameWires(v, NewGame(v, s, g))
<1> DEFINE r == [v.games[g] EXCEPT !.status = "config"]
           u == [v EXCEPT !.games[g] = r]
           c == Change(u, {Game(g), Options(g)})
           h == NewGame(v, s, g)
<1>1. h = AddPlayer(c, s, g, FALSE, TRUE)
  BY DEF NewGame
<1> HIDE DEF h
<1>2. /\ v \in World /\ g \in Tables /\ ~Exists(v, g) /\ v.games[g] \in GameRecord
      /\ \A k \in Tables : Table(v, k)
      /\ \A t \in Alive(v) : Awaited(v, t)
  BY Records DEF Ready, FreeTables
<1>3. r \in GameRecord /\ r.status = "config" /\ r.members = v.games[g].members
  BY <1>2 DEF GameRecord
<1> HIDE DEF r
<1>4. /\ u \in World /\ u.players = v.players /\ u.timers = v.timers
      /\ u.sockets = v.sockets /\ u.games[g] = r
      /\ \A k \in Tables : k # g => u.games[k] = v.games[k]
  BY <1>2, <1>3 DEF World
<1> HIDE DEF u
<1>5. SameObjects(u, c)
  BY <1>2, <1>4, ItemsAreKinds, ChangeSame
<1> HIDE DEF c
<1>6. /\ c \in World /\ c.players = v.players /\ c.timers = v.timers
      /\ c.sockets = v.sockets /\ c.games[g] = r
      /\ \A k \in Tables : k # g => c.games[k] = v.games[k]
      /\ Alive(c) = Alive(v)
  BY <1>4, <1>5 DEF SameObjects, Alive
<1>7. \A t, k : Sits(c, t, k) <=> Sits(v, t, k)
  BY <1>6 DEF Sits
<1>8. Members(c, g) = Members(v, g) /\ Members(c, g) = {}
  BY <1>2, <1>3, <1>6 DEF Members, Table
<1>9. Listed(c, g) /\ Raced(c, g) /\ Exists(c, g)
  BY <1>2, <1>3, <1>6, <1>7, <1>8 DEF Table, Listed, Raced, Exists
<1>10. ASSUME NEW k \in Tables, k # g PROVE Table(c, k)
  BY <1>2, <1>6, <1>7, <1>10, TableKept
<1>11. ASSUME NEW t \in Alive(c) PROVE Awaited(c, t)
  <2>1. t \in Slots /\ t \in Alive(v)
    BY <1>6 DEF Alive
  <2>2. SUFFICES ASSUME v.players[t].socket = NoFd PROVE Awaited(c, t)
    BY <1>6 DEF Awaited
  <2>3. /\ v.players[t].game # NoGame /\ v.players[t].game \in Tables
        /\ v.games[v.players[t].game].status \in {"run", "end"}
    BY <1>2, <2>1, <2>2, Records DEF Awaited, PlayerRecord
  <2>4. v.players[t].game # g
    BY <1>2, <2>3 DEF Exists
  <2> QED
    BY <1>2, <1>6, <2>1, <2>3, <2>4 DEF Awaited
<1>12. Ready(h) /\ SameWires(c, h)
  BY <1>1, <1>2, <1>6, <1>9, <1>10, <1>11, AddPlayerReady
<1> QED
  BY <1>6, <1>12 DEF SameWires, h

\* who joins or watches comes to a table that is as it should be
LEMMA JoinGameReady ==
  ASSUME NEW v, Ready(v), NEW s \in Alive(v), NEW g \in Tables,
         v.players[s].game = NoGame, v.players[s].socket # NoFd
  PROVE  /\ Ready(JoinGame(v, s, g)) /\ SameWires(v, JoinGame(v, s, g))
         /\ Ready(WatchGame(v, s, g)) /\ SameWires(v, WatchGame(v, s, g))
<1>1. /\ v \in World
      /\ \A k \in Tables : Table(v, k)
      /\ \A t \in Alive(v) : Awaited(v, t)
  BY DEF Ready
<1>2. Ready(v) /\ SameWires(v, v)
  BY DEF SameWires
<1>3. ASSUME Exists(v, g), NEW watch \in BOOLEAN
      PROVE  /\ Ready(AddPlayer(v, s, g, watch, FALSE))
             /\ SameWires(v, AddPlayer(v, s, g, watch, FALSE))
  BY <1>1, <1>3, AddPlayerReady DEF Table
<1>4. Ready(JoinGame(v, s, g)) /\ SameWires(v, JoinGame(v, s, g))
  <2>1. CASE /\ Cardinality(Seated(v, g)) < MaxPlayers
             /\ v.games[g].status = "config"
    <3>1. JoinGame(v, s, g) = AddPlayer(v, s, g, FALSE, FALSE)
      BY <2>1 DEF JoinGame
    <3> QED
      BY <1>3, <2>1, <3>1 DEF Exists
  <2>2. CASE ~(/\ Cardinality(Seated(v, g)) < MaxPlayers
               /\ v.games[g].status = "config")
    BY <1>2, <2>2 DEF JoinGame
  <2> QED
    BY <2>1, <2>2
<1>5. Ready(WatchGame(v, s, g)) /\ SameWires(v, WatchGame(v, s, g))
  <2>1. CASE AllowSpectators /\ v.games[g].status = "run"
    <3>1. WatchGame(v, s, g) = AddPlayer(v, s, g, TRUE, FALSE)
      BY <2>1 DEF WatchGame
    <3> QED
      BY <1>3, <2>1, <3>1 DEF Exists
  <2>2. CASE ~(AllowSpectators /\ v.games[g].status = "run")
    BY <1>2, <2>2 DEF WatchGame
  <2> QED
    BY <2>1, <2>2
<1> QED
  BY <1>4, <1>5

\* in a game that is not started everybody has a connection, so that who is kicked has one
LEMMA KickReady ==
  ASSUME NEW v, Ready(v), NEW s \in Alive(v), NEW t \in Slots, v.players[s].game # NoGame
  PROVE  Ready(Kick(v, s, t)) /\ SameWires(v, Kick(v, s, t))
<1> DEFINE g == v.players[s].game
           may == /\ s = v.games[g].master /\ v.games[g].status = "config"
                  /\ t \in Members(v, g)
<1>1. Kick(v, s, t) = IF may THEN ExitGame(v, t) ELSE v
  BY DEF Kick
<1>2. g \in Tables
  BY Records DEF Ready, Alive, PlayerRecord
<1>3. CASE may
  <2>1. t \in Alive(v) /\ v.players[t].game = g
    BY <1>2, <1>3 DEF Ready, Table, Listed, Sits
  <2>2. v.players[t].socket # NoFd
    BY <1>3, <2>1 DEF Ready, Awaited
  <2> QED
    BY <1>1, <1>3, <2>1, <2>2, ExitGameReady
<1>4. CASE ~may
  BY <1>1, <1>4 DEF SameWires
<1> QED
  BY <1>3, <1>4

\* the table of a game goes on with the same players in another order and other respects
LEMMA SameTableReady ==
  ASSUME NEW v, Ready(v), NEW h \in World, NEW g \in Tables,
         h.timers = v.timers,
         \A k \in Tables : k # g => h.games[k] = v.games[k],
         Members(h, g) = Members(v, g), IsInjective(h.games[g].members),
         h.games[g].master = v.games[g].master,
         Exists(h, g), Exists(v, g), Raced(h, g),
         h.games[g].status \in {v.games[g].status, "run", "end"},
         \A t \in Slots :
           /\ h.players[t].alive = v.players[t].alive
           /\ h.players[t].game = v.players[t].game
           /\ h.players[t].socket = v.players[t].socket
           /\ v.players[t].game # g =>
                /\ h.players[t].spectator = v.players[t].spectator
                /\ h.players[t].bankrupt = v.players[t].bankrupt
  PROVE  Ready(h)
<1>1. v \in World /\ Alive(h) = Alive(v)
  BY DEF Ready, Alive
<1>2. \A t \in Slots, k \in Tables : Sits(h, t, k) <=> Sits(v, t, k)
  BY <1>1 DEF Sits
<1>3. Table(h, g)
  BY <1>2 DEF Ready, Table, Listed
<1>4. ASSUME NEW k \in Tables, k # g PROVE Table(h, k)
  <2>1. Table(v, k) /\ h.games[k] = v.games[k]
    BY <1>4 DEF Ready
  <2>2. ASSUME NEW t \in Slots, Sits(v, t, k)
        PROVE  /\ h.players[t].spectator = v.players[t].spectator
               /\ h.players[t].bankrupt = v.players[t].bankrupt
    BY <1>4, <2>2 DEF Sits
  <2> QED
    BY <1>1, <1>2, <2>1, <2>2, TableKept
<1>5. ASSUME NEW t \in Alive(h) PROVE Awaited(h, t)
  <2>1. t \in Slots /\ t \in Alive(v) /\ Awaited(v, t)
    BY <1>1 DEF Ready, Alive
  <2>2. v.players[t].game \in Tables \union {NoGame}
    BY <1>1, <2>1, Records DEF PlayerRecord
  <2> QED
    BY <2>1, <2>2 DEF Awaited
<1> QED
  BY <1>3, <1>4, <1>5 DEF Ready

\* a set of two or more has two different members
LEMMA TwoOf ==
  ASSUME NEW S, IsFiniteSet(S), S # {}, Cardinality(S) # 1
  PROVE  \E x, y \in S : x # y
<1>1. PICK x : x \in S
  OBVIOUS
<1>2. S # {x}
  BY FS_Singleton
<1> QED
  BY <1>1, <1>2

\* who is ruined leaves two in the race, or it ends
LEMMA BankruptReady ==
  ASSUME NEW v, Ready(v), NEW g \in Tables, NEW s \in Active(v, g),
         v.games[g].status = "run"
  PROVE  Ready(Bankrupt(v, g, s)) /\ SameWires(v, Bankrupt(v, g, s))
<1> DEFINE h == Bankrupt(v, g, s)
<1> SUFFICES Ready(h) /\ SameWires(v, h)
  OBVIOUS
<1>1. /\ v \in World /\ s \in Slots /\ s \in Members(v, g) /\ Sits(v, s, g)
      /\ v.players[s] \in PlayerRecord /\ Table(v, g)
  <2>1. v \in World /\ s \in Members(v, g) /\ s \in Slots
    BY MembersAreSlots DEF Ready, Active, Seated
  <2> QED
    BY <2>1, Records DEF Ready, Table, Listed
<1>2. Ruined(v, h, g, s)
  BY <1>1, BankruptRuins
<1> HIDE DEF h
<1>3. /\ h \in World /\ h.timers = v.timers /\ h.sockets = v.sockets
      /\ \A t \in Slots : t # s => h.players[t] = v.players[t]
      /\ \A k \in Tables : k # g => h.games[k] = v.games[k]
      /\ h.games[g].members = v.games[g].members
      /\ h.games[g].master = v.games[g].master
      /\ Active(h, g) = Active(v, g) \ {s}
      /\ h.games[g].status = IF Cardinality(Active(v, g) \ {s}) = 1
                             THEN "end" ELSE v.games[g].status
  BY <1>2 DEF Ruined, Active, Seated
<1>4. /\ h.players[s].alive = v.players[s].alive
      /\ h.players[s].game = v.players[s].game
      /\ h.players[s].socket = v.players[s].socket
  <2>1. PICK b \in BOOLEAN : h.players[s] = [v.players[s] EXCEPT !.bankrupt = b]
    BY <1>2 DEF Ruined
  <2> QED
    BY <1>1, <2>1 DEF PlayerRecord
<1>5. Raced(h, g)
  <2>1. SUFFICES ASSUME h.games[g].status = "run"
                 PROVE  \E x, y \in Active(h, g) : x # y
    BY <1>3 DEF Raced
  <2>2. PICK x, y \in Active(v, g) : x # y
    BY <1>1 DEF Table, Raced
  <2>3. Active(h, g) # {}
    BY <1>3, <2>2
  <2>4. Cardinality(Active(h, g)) # 1
    BY <1>3, <2>1
  <2>5. IsFiniteSet(Active(h, g))
    BY <1>3, RaceOf
  <2> QED
    BY <2>3, <2>4, <2>5, TwoOf
<1>6. Members(h, g) = Members(v, g) /\ Exists(h, g) /\ Exists(v, g)
  BY <1>3 DEF Members, Exists
<1>7. IsInjective(h.games[g].members)
  BY <1>1, <1>3 DEF Table, Listed
<1>8. \A t \in Slots :
        /\ h.players[t].alive = v.players[t].alive
        /\ h.players[t].game = v.players[t].game
        /\ h.players[t].socket = v.players[t].socket
        /\ v.players[t].game # g =>
             /\ h.players[t].spectator = v.players[t].spectator
             /\ h.players[t].bankrupt = v.players[t].bankrupt
  BY <1>1, <1>3, <1>4 DEF Sits
<1>9. h.games[g].status \in {v.games[g].status, "run", "end"}
  BY <1>3
<1>10. Ready(h)
  BY <1>3, <1>5, <1>6, <1>7, <1>8, <1>9, SameTableReady
<1> QED
  BY <1>3, <1>8, <1>10 DEF SameWires

\* a game starts with all its players, who are two at least
LEMMA StartReady ==
  ASSUME NEW v, Ready(v), NEW s \in Alive(v), v.players[s].game # NoGame,
         NEW order \in SetToSeqs(Members(v, v.players[s].game))
  PROVE  Ready(Start(v, s, order)) /\ SameWires(v, Start(v, s, order))
<1> DEFINE g == v.players[s].game
           may == /\ s = v.games[g].master /\ v.games[g].status = "config"
                  /\ Cardinality(Seated(v, g)) >= MinPlayers
           r == [v.games[g] EXCEPT !.status = "run", !.members = order]
           u == [v EXCEPT !.games[g] = r]
           items == {Game(g)} \union {Seat(t) : t \in Members(v, g)}
           c == Change(u, items)
           h == Start(v, s, order)
<1> SUFFICES Ready(h) /\ SameWires(v, h)
  OBVIOUS
<1>1. /\ v \in World /\ g \in Tables /\ v.games[g] \in GameRecord /\ Table(v, g)
      /\ Members(v, g) \in SUBSET Slots /\ IsFiniteSet(Members(v, g))
  BY Records, MembersAreSlots, RaceOf DEF Ready, Alive, PlayerRecord
<1>2. h = IF may THEN SendFullUpdates(c, g) ELSE v
  <2>1. ASSUME NEW k \in Tables
        PROVE  [v EXCEPT !.games[k].status = "run", !.games[k].members = order]
               = [v EXCEPT !.games[k] = [@ EXCEPT !.status = "run", !.members = order]]
    BY <1>1 DEF World, GameRecord
  <2>2. [v EXCEPT !.games[g].status = "run", !.games[g].members = order] = u
    BY <1>1, <2>1, Zenon
  <2> QED
    BY <2>2 DEF Start
<1> HIDE DEF h
<1>3. order \in Seq(Slots) /\ IsInjective(order) /\ Range(order) = Members(v, g)
  BY <1>1, OrderIsTheSet
<1> HIDE DEF g
<1>4. CASE may
  <2>1. /\ r \in GameRecord /\ r.status = "run" /\ r.members = order
        /\ r.master = v.games[g].master
    BY <1>1, <1>3 DEF GameRecord
  <2> HIDE DEF r
  <2>2. /\ u \in World /\ u.players = v.players /\ u.timers = v.timers
        /\ u.sockets = v.sockets /\ u.games[g] = r
        /\ \A k \in Tables : k # g => u.games[k] = v.games[k]
    BY <1>1, <2>1 DEF World
  <2> HIDE DEF u
  <2>3. items \in SUBSET Kinds
    BY <1>1, ItemsAreKinds
  <2> HIDE DEF items
  <2>4. SameObjects(u, c)
    BY <2>2, <2>3, ChangeSame
  <2>5. SameObjects(c, h)
    BY <1>2, <1>1, <1>4, <2>4, SendFullUpdatesSame DEF SameObjects
  <2>6. /\ h \in World /\ h.players = v.players /\ h.timers = v.timers
        /\ h.sockets = v.sockets /\ h.games[g] = r
        /\ \A k \in Tables : k # g => h.games[k] = v.games[k]
    BY <2>2, <2>4, <2>5 DEF SameObjects
  <2>7. Members(h, g) = Members(v, g)
    BY <1>1, <1>3, <2>1, <2>6, MembersAreSlots
  <2>8. Active(h, g) = Seated(v, g)
    <3>1. \A t \in Members(v, g) : ~v.players[t].bankrupt
      BY <1>1, <1>4 DEF Table, Raced
    <3> QED
      BY <2>6, <2>7, <3>1 DEF Active, Seated
  <2>9. \E x, y \in Seated(v, g) : x # y
    <3>1. Cardinality(Seated(v, g)) # 1 /\ Cardinality(Seated(v, g)) # 0
      BY <1>4, LobbyAssumption
    <3>2. Seated(v, g) # {}
      BY <3>1, FS_EmptySet
    <3>3. IsFiniteSet(Seated(v, g))
      BY <1>1, FS_Subset DEF Seated
    <3> QED
      BY <3>1, <3>2, <3>3, TwoOf
  <2>10. Raced(h, g)
    BY <2>1, <2>6, <2>8, <2>9 DEF Raced
  <2>11. IsInjective(h.games[g].members) /\ Exists(h, g) /\ Exists(v, g)
    BY <1>3, <1>4, <2>1, <2>6 DEF Exists
  <2>12. Ready(h)
    BY <1>1, <2>1, <2>6, <2>7, <2>10, <2>11, SameTableReady
  <2> QED
    BY <2>6, <2>12 DEF SameWires
<1>5. CASE ~may
  BY <1>2, <1>5 DEF SameWires
<1> QED
  BY <1>4, <1>5

\* a spectator becomes a player of a game that goes on
LEMMA UpgradeReady ==
  ASSUME NEW v, Ready(v), NEW s \in Alive(v), NEW t \in Slots, v.players[s].game # NoGame
  PROVE  Ready(Upgrade(v, s, t)) /\ SameWires(v, Upgrade(v, s, t))
<1> DEFINE g == v.players[s].game
           may == /\ s = v.games[g].master /\ v.games[g].status = "run"
                  /\ Cardinality(Seated(v, g)) < MaxPlayers
                  /\ t \in Members(v, g) /\ v.players[t].spectator
           p == [v.players[t] EXCEPT !.spectator = FALSE]
           r == [v.games[g] EXCEPT !.members = Promoted(v, @, t)]
           u1 == [v EXCEPT !.players[t] = p]
           u == [u1 EXCEPT !.games[g] = r]
           h == Upgrade(v, s, t)
<1> SUFFICES Ready(h) /\ SameWires(v, h)
  OBVIOUS
<1>1. h = IF may THEN Change(u, {Game(g), Seat(t)}) ELSE v
  <2>1. [v EXCEPT !.players[t].spectator = FALSE, !.games[g].members = Promoted(v, @, t)] = u
    OBVIOUS
  <2> QED
    BY <2>1 DEF Upgrade
<1> HIDE DEF h
<1>2. /\ v \in World /\ g \in Tables /\ v.games[g] \in GameRecord /\ Table(v, g)
      /\ v.players[t] \in PlayerRecord
      /\ v.games[g].members \in Seq(Slots) /\ IsInjective(v.games[g].members)
      /\ Members(v, g) = Range(v.games[g].members)
  BY Records, MembersAreSlots DEF Ready, Alive, PlayerRecord, GameRecord, Table, Listed
<1> HIDE DEF g
<1>3. CASE may
  <2> DEFINE ms == Promoted(v, v.games[g].members, t)
  <2>1. ms \in Seq(Slots) /\ IsInjective(ms) /\ Range(ms) = Members(v, g)
    BY <1>2, <1>3, PromotedAreTheSame
  <2> HIDE DEF ms
  <2>2. /\ r \in GameRecord /\ r.status = "run" /\ r.members = ms
        /\ r.master = v.games[g].master
    BY <1>2, <1>3, <2>1 DEF GameRecord, ms
  <2> HIDE DEF r
  <2>3. /\ p \in PlayerRecord /\ p.alive = v.players[t].alive /\ p.game = v.players[t].game
        /\ p.socket = v.players[t].socket /\ p.bankrupt = v.players[t].bankrupt
        /\ p.spectator = FALSE
    BY <1>2 DEF PlayerRecord
  <2> HIDE DEF p
  <2>4. /\ u1 \in World /\ u1.games = v.games /\ u1.timers = v.timers
        /\ u1.sockets = v.sockets /\ u1.players[t] = p
        /\ \A x \in Slots : x # t => u1.players[x] = v.players[x]
    BY <1>2, <2>3 DEF World
  <2> HIDE DEF u1
  <2>5. /\ u \in World /\ u.players = u1.players /\ u.timers = u1.timers
        /\ u.sockets = u1.sockets /\ u.games[g] = r
        /\ \A k \in Tables : k # g => u.games[k] = u1.games[k]
    BY <1>2, <2>2, <2>4 DEF World
  <2> HIDE DEF u
  <2>6. SameObjects(u, h)
    BY <1>1, <1>2, <1>3, <2>5, ItemsAreKinds, ChangeSame
  <2>7. /\ h \in World /\ h.timers = v.timers /\ h.sockets = v.sockets
        /\ h.players[t] = p /\ h.games[g] = r
        /\ \A x \in Slots : x # t => h.players[x] = v.players[x]
        /\ \A k \in Tables : k # g => h.games[k] = v.games[k]
    BY <2>4, <2>5, <2>6 DEF SameObjects
  <2>8. Members(h, g) = Members(v, g)
    BY <1>2, <2>1, <2>2, <2>7, MembersAreSlots
  <2>9. v.players[t].game = g
    BY <1>2, <1>3 DEF Table, Listed, Sits
  <2>10. Raced(h, g)
    <3>1. PICK x, y \in Active(v, g) : x # y
      BY <1>2, <1>3 DEF Table, Raced
    <3>2. Active(v, g) \in SUBSET Active(h, g)
      <4>1. Members(v, g) \in SUBSET Slots
        BY <1>2, MembersAreSlots
      <4>2. t \notin Active(v, g)
        BY <1>3 DEF Active, Seated
      <4> QED
        BY <2>7, <2>8, <4>1, <4>2 DEF Active, Seated
    <3> QED
      BY <2>2, <2>7, <3>1, <3>2 DEF Raced
  <2>11. IsInjective(h.games[g].members) /\ Exists(h, g) /\ Exists(v, g)
    BY <1>3, <2>1, <2>2, <2>7 DEF Exists
  <2>12. \A x \in Slots :
           /\ h.players[x].alive = v.players[x].alive
           /\ h.players[x].game = v.players[x].game
           /\ h.players[x].socket = v.players[x].socket
           /\ v.players[x].game # g =>
                /\ h.players[x].spectator = v.players[x].spectator
                /\ h.players[x].bankrupt = v.players[x].bankrupt
    BY <2>3, <2>7, <2>9
  <2>13. Ready(h)
    BY <1>2, <2>2, <2>7, <2>8, <2>10, <2>11, <2>12, SameTableReady
  <2> QED
    BY <2>7, <2>12, <2>13 DEF SameWires
<1>4. CASE ~may
  BY <1>1, <1>4 DEF SameWires
<1> QED
  BY <1>3, <1>4

\* settings
LEMMA SettingsReady ==
  ASSUME NEW v, Ready(v), NEW s \in Alive(v)
  PROVE  /\ Ready(SetPlayerImage(v, s)) /\ SameWires(v, SetPlayerImage(v, s))
         /\ v.players[s].game # NoGame =>
              /\ Ready(EditConfiguration(v, s)) /\ SameWires(v, EditConfiguration(v, s))
              /\ Ready(SetGameDescription(v, s)) /\ SameWires(v, SetGameDescription(v, s))
<1>1. s \in Slots /\ v.players[s].game \in Tables \union {NoGame} /\ SameWires(v, v)
  BY Records DEF Ready, Alive, PlayerRecord, SameWires
<1>2. Ready(SetPlayerImage(v, s)) /\ SameWires(v, SetPlayerImage(v, s))
  BY <1>1, ItemsAreKinds, ChangeReady DEF SetPlayerImage
<1>3. ASSUME v.players[s].game # NoGame
      PROVE  /\ Ready(EditConfiguration(v, s)) /\ SameWires(v, EditConfiguration(v, s))
             /\ Ready(SetGameDescription(v, s)) /\ SameWires(v, SetGameDescription(v, s))
  <2> DEFINE g == v.players[s].game
  <2>1. {Options(g)} \in SUBSET Kinds /\ {Game(g)} \in SUBSET Kinds
    BY <1>1, <1>3, ItemsAreKinds
  <2>2. EditConfiguration(v, s) \in {v, Change(v, {Options(g)})}
    BY DEF EditConfiguration
  <2>3. SetGameDescription(v, s) \in {v, Change(v, {Game(g)})}
    BY DEF SetGameDescription
  <2> QED
    BY <1>1, <2>1, <2>2, <2>3, ChangeReady
<1> QED
  BY <1>2, <1>3

\* giving a name leaves the objects as they should be
LEMMA SetPlayerNameReady ==
  ASSUME NEW v, Ready(v), NEW s \in Alive(v)
  PROVE  Ready(SetPlayerName(v, s)) /\ SameWires(v, SetPlayerName(v, s))
<1> DEFINE p == [v.players[s] EXCEPT !.identified = TRUE]
           u == [v EXCEPT !.players[s] = p]
           h == SetPlayerName(v, s)
<1> SUFFICES Ready(h) /\ SameWires(v, h)
  OBVIOUS
<1>1. h = Change(u, {Person(s)})
  BY DEF SetPlayerName
<1> HIDE DEF h
<1>2. /\ v \in World /\ s \in Slots /\ v.players[s] \in PlayerRecord
      /\ \A k \in Tables : Table(v, k)
      /\ \A t \in Alive(v) : Awaited(v, t)
  BY Records DEF Ready, Alive
<1>3. /\ p \in PlayerRecord /\ p.alive = v.players[s].alive /\ p.game = v.players[s].game
      /\ p.socket = v.players[s].socket /\ p.bankrupt = v.players[s].bankrupt
      /\ p.spectator = v.players[s].spectator
  BY <1>2 DEF PlayerRecord
<1> HIDE DEF p
<1>4. /\ u \in World /\ u.games = v.games /\ u.timers = v.timers
      /\ u.sockets = v.sockets /\ u.players[s] = p
      /\ \A x \in Slots : x # s => u.players[x] = v.players[x]
  BY <1>2, <1>3 DEF World
<1> HIDE DEF u
<1>5. SameObjects(u, h)
  BY <1>1, <1>2, <1>4, ItemsAreKinds, ChangeSame
<1>6. /\ h \in World /\ h.games = v.games /\ h.timers = v.timers
      /\ h.sockets = v.sockets /\ h.players[s] = p
      /\ \A x \in Slots : x # s => h.players[x] = v.players[x]
  BY <1>4, <1>5 DEF SameObjects
<1>7. \A k \in Tables : Sits(h, s, k) <=> Sits(v, s, k)
  BY <1>2, <1>3, <1>6 DEF Sits, Alive
<1>8. ReadyBut(h, s)
  BY <1>2, <1>3, <1>6, <1>7, ReadyKept
<1>9. Awaited(h, s)
  BY <1>2, <1>3, <1>6 DEF Awaited
<1>10. SameWires(v, h)
  BY <1>3, <1>6 DEF SameWires
<1> QED
  BY <1>8, <1>9, <1>10 DEF Ready, ReadyBut

-----------------------------------------------------------------------------
(* Connections and timeouts *)

\* only the connection of s is another one
Rewired(v, h, s, f) ==
  /\ ReadyBut(h, s)
  /\ h.sockets = v.sockets /\ h.timers = v.timers /\ h.games = v.games
  /\ \A t \in Slots : t # s => h.players[t] = v.players[t]
  /\ h.players[s].socket = f
  /\ h.players[s].alive = v.players[s].alive
  /\ h.players[s].game = v.players[s].game

\* setSocket has these effects
LEMMA SetSocketRewires ==
  ASSUME NEW v, NEW s \in Alive(v), ReadyBut(v, s), NEW f \in Fds \union {NoFd}
  PROVE  Rewired(v, SetSocket(v, s, f), s, f)
<1> DEFINE p == [v.players[s] EXCEPT !.socket = f]
           u == [v EXCEPT !.players[s] = p]
           h == SetSocket(v, s, f)
<1> SUFFICES Rewired(v, h, s, f)
  OBVIOUS
<1>1. h \in {u, Change(u, {Person(s)})}
  BY DEF SetSocket
<1> HIDE DEF h
<1>2. /\ v \in World /\ s \in Slots /\ v.players[s] \in PlayerRecord
      /\ \A k \in Tables : Table(v, k)
      /\ \A t \in Alive(v) \ {s} : Awaited(v, t)
  BY Records DEF ReadyBut, Alive
<1>3. /\ p \in PlayerRecord /\ p.alive = v.players[s].alive /\ p.game = v.players[s].game
      /\ p.socket = f /\ p.bankrupt = v.players[s].bankrupt
      /\ p.spectator = v.players[s].spectator
  BY <1>2 DEF PlayerRecord
<1> HIDE DEF p
<1>4. /\ u \in World /\ u.games = v.games /\ u.timers = v.timers
      /\ u.sockets = v.sockets /\ u.players[s] = p
      /\ \A x \in Slots : x # s => u.players[x] = v.players[x]
  BY <1>2, <1>3 DEF World
<1> HIDE DEF u
<1>5. SameObjects(u, h)
  BY <1>1, <1>2, <1>4, ItemsAreKinds, ChangeSame DEF SameObjects
<1>6. /\ h \in World /\ h.games = v.games /\ h.timers = v.timers
      /\ h.sockets = v.sockets /\ h.players[s] = p
      /\ \A x \in Slots : x # s => h.players[x] = v.players[x]
  BY <1>4, <1>5 DEF SameObjects
<1>7. \A k \in Tables : Sits(h, s, k) <=> Sits(v, s, k)
  BY <1>2, <1>3, <1>6 DEF Sits, Alive
<1>8. ReadyBut(h, s)
  BY <1>2, <1>3, <1>6, <1>7, ReadyKept
<1> QED
  BY <1>3, <1>6, <1>8 DEF Rewired

\* s is deleted or has no connection any more
Unplugged(v, h, s) ==
  /\ Ready(h)
  /\ h.sockets = v.sockets
  /\ \A t \in Slots : t # s => h.players[t] = v.players[t]
  /\ ~h.players[s].alive \/ h.players[s].socket = NoFd

\* a deleted player has lost his connection
LEMMA GoneIsUnplugged ==
  ASSUME NEW v, NEW h, NEW s, Gone(v, h, s)
  PROVE  Unplugged(v, h, s)
BY DEF Gone, Unplugged, Deleted

\* whose connection is closed is deleted, or timed
LEMMA ClosedSocketUnplugs ==
  ASSUME NEW v, Ready(v), NEW s \in Alive(v),
         v.players[s].game # NoGame => v.timers[s][v.players[s].game] < MaxTimers
  PROVE  Unplugged(v, ClosedSocket(v, s), s)
<1> DEFINE g == v.players[s].game
           out == \/ g = NoGame
                  \/ v.games[g].status # "run"
                  \/ v.players[s].spectator \/ v.players[s].bankrupt
           u == SetSocket(v, s, NoFd)
           h == ClosedSocket(v, s)
<1>1. CASE out
  <2>1. h = DelPlayer(v, s)
    BY <1>1 DEF ClosedSocket
  <2> QED
    BY <2>1, ReadyIsReadyBut, DelPlayerIsGone, GoneIsUnplugged
<1>2. CASE ~out
  <2>1. h = [u EXCEPT !.timers[s][g] = @ + 1]
    BY <1>2 DEF ClosedSocket
  <2> HIDE DEF h
  <2>2. Rewired(v, u, s, NoFd)
    BY ReadyIsReadyBut, SetSocketRewires
  <2> HIDE DEF u
  <2>3. /\ s \in Slots /\ g \in Tables /\ v \in World /\ v.games[g].status = "run"
        /\ u \in World /\ u.timers = v.timers
    BY <1>2, <2>2, Records DEF Ready, ReadyBut, Rewired, Alive, PlayerRecord
  <2> DEFINE row == [u.timers[s] EXCEPT ![g] = @ + 1]
  <2>4. /\ row \in [Tables -> 0..MaxTimers] /\ row[g] > 0
    <3>1. u.timers[s] \in [Tables -> 0..MaxTimers] /\ u.timers[s][g] \in 0..MaxTimers
      BY <2>3 DEF World
    <3>2. u.timers[s][g] + 1 \in 0..MaxTimers /\ u.timers[s][g] + 1 > 0
      BY <1>2, <2>3, <3>1, LobbyAssumption
    <3> QED
      BY <2>3, <3>1, <3>2
  <2>5. h = [u EXCEPT !.timers = [@ EXCEPT ![s] = row]]
    BY <2>1
  <2> HIDE DEF row
  <2>6. /\ h \in World /\ h.players = u.players /\ h.games = u.games
        /\ h.sockets = u.sockets /\ h.timers[s] = row
        /\ \A t \in Slots : t # s => h.timers[t] = u.timers[t]
    BY <2>3, <2>4, <2>5 DEF World
  <2>7. Alive(h) = Alive(u) /\ \A t, k : Sits(h, t, k) <=> Sits(u, t, k)
    BY <2>6 DEF Alive, Sits
  <2>8. ASSUME NEW k \in Tables PROVE Table(h, k)
    BY <2>2, <2>3, <2>6, <2>7, TableKept DEF Rewired, ReadyBut
  <2>9. ASSUME NEW t \in Alive(h) PROVE Awaited(h, t)
    <3>1. CASE t = s
      <4>1. h.players[s].game = g /\ h.games[g].status = "run" /\ h.timers[s][g] > 0
        BY <2>2, <2>3, <2>4, <2>6 DEF Rewired
      <4> QED
        BY <1>2, <3>1, <4>1 DEF Awaited
    <3>2. CASE t # s
      <4>1. t \in Slots /\ Awaited(u, t)
        BY <2>2, <2>7, <3>2 DEF Rewired, ReadyBut, Alive
      <4> QED
        BY <2>6, <3>2, <4>1 DEF Awaited
    <3> QED
      BY <3>1, <3>2
  <2>10. Ready(h)
    BY <2>6, <2>8, <2>9 DEF Ready
  <2> QED
    BY <2>2, <2>6, <2>10 DEF Unplugged, Rewired, h
<1> QED
  BY <1>1, <1>2

\* a timeout that is due deletes a player who is still absent
LEMMA PlayerTimeoutUnplugs ==
  ASSUME NEW v, Ready(v), NEW s \in Slots, NEW g \in Tables, v.timers[s][g] > 0
  PROVE  IF s \in Alive(v) /\ v.players[s].socket = NoFd
         THEN Unplugged(v, PlayerTimeout(v, s, g), s)
         ELSE Ready(PlayerTimeout(v, s, g)) /\ SameWires(v, PlayerTimeout(v, s, g))
<1> DEFINE absent == s \in Alive(v) /\ v.players[s].socket = NoFd
           row == [v.timers[s] EXCEPT ![g] = @ - 1]
           u == [v EXCEPT !.timers = [@ EXCEPT ![s] = row]]
           h == PlayerTimeout(v, s, g)
<1>1. h = IF absent THEN DelPlayer(u, s) ELSE u
  <2>1. Alive(u) = Alive(v) /\ u.players = v.players
    BY DEF Alive, Ready, World
  <2> QED
    BY <2>1 DEF PlayerTimeout, Alive
<1> HIDE DEF h
<1>2. v \in World
  BY DEF Ready
<1>3. row \in [Tables -> 0..MaxTimers]
  <2>1. v.timers[s] \in [Tables -> 0..MaxTimers] /\ v.timers[s][g] \in 0..MaxTimers
    BY <1>2 DEF World
  <2>2. v.timers[s][g] - 1 \in 0..MaxTimers
    BY <2>1, LobbyAssumption
  <2> QED
    BY <2>1, <2>2
<1> HIDE DEF row
<1>4. /\ u \in World /\ u.players = v.players /\ u.games = v.games
      /\ u.sockets = v.sockets
      /\ \A t \in Slots : t # s => u.timers[t] = v.timers[t]
  BY <1>2, <1>3 DEF World
<1> HIDE DEF u
<1>5. Alive(u) = Alive(v) /\ \A t, k : Sits(u, t, k) <=> Sits(v, t, k)
  BY <1>4 DEF Alive, Sits
<1>6. ASSUME NEW k \in Tables PROVE Table(u, k)
  BY <1>2, <1>4, <1>5, TableKept DEF Ready
<1>7. ASSUME NEW t \in Alive(u) \ {s} PROVE Awaited(u, t)
  <2>1. t \in Slots /\ Awaited(v, t)
    BY <1>5 DEF Ready, Alive
  <2> QED
    BY <1>4, <2>1 DEF Awaited
<1>8. ReadyBut(u, s)
  BY <1>4, <1>6, <1>7 DEF ReadyBut
<1>9. CASE absent
  <2>1. Gone(u, h, s)
    BY <1>1, <1>5, <1>8, <1>9, DelPlayerIsGone
  <2>2. Unplugged(v, h, s)
    BY <1>4, <2>1, GoneIsUnplugged DEF Unplugged
  <2> QED
    BY <1>9, <2>2 DEF h
<1>10. CASE ~absent
  <2>1. h = u
    BY <1>1, <1>10
  <2>2. ASSUME NEW t \in Alive(u) PROVE Awaited(u, t)
    BY <1>4, <1>5, <1>7, <1>10 DEF Awaited
  <2>3. Ready(h) /\ SameWires(v, h)
    BY <1>4, <1>6, <2>1, <2>2 DEF Ready, SameWires
  <2> QED
    BY <1>10, <2>3 DEF h
<1> QED
  BY <1>9, <1>10

\* t has the connection of s, and s is deleted
Swapped(v, h, s, t) ==
  /\ Ready(h)
  /\ h.sockets = v.sockets
  /\ s # t /\ ~h.players[s].alive
  /\ h.players[t].alive /\ h.players[t].socket = v.players[s].socket
  /\ \A x \in Slots : x # s /\ x # t => h.players[x] = v.players[x]

\* a reconnect gives the connection of s to t and deletes s, or changes nothing
LEMMA ReconnectSwaps ==
  ASSUME NEW v, Ready(v), NEW s \in Alive(v), NEW t \in Slots,
         v.players[s].game = NoGame, v.players[s].socket # NoFd
  PROVE  IF MayReconnect(v, t) THEN Swapped(v, Reconnect(v, s, t), s, t)
         ELSE Reconnect(v, s, t) = v
<1> DEFINE f == v.players[s].socket
           a == SetSocket(v, t, f)
           b == SendFullUpdate(a, t)
           c == SetSocket(b, s, NoFd)
           h == Reconnect(v, s, t)
<1>1. CASE ~MayReconnect(v, t)
  BY <1>1 DEF Reconnect
<1>2. CASE MayReconnect(v, t)
  <2>1. h = DelPlayer(c, s)
    BY <1>2 DEF Reconnect
  <2>2. /\ t \in Alive(v) /\ v.players[t].game # NoGame /\ v.players[t].socket = NoFd
        /\ s # t /\ s \in Slots /\ f \in Fds
    BY <1>2, Records DEF MayReconnect, Ready, Alive, PlayerRecord
  <2>3. Rewired(v, a, t, f)
    BY <2>2, ReadyIsReadyBut, SetSocketRewires
  <2> HIDE DEF a
  <2>4. Awaited(a, t)
    BY <2>2, <2>3, LobbyAssumption DEF Rewired, Awaited, NoFd
  <2>5. Ready(a) /\ a.players[t].game # NoGame
    BY <2>2, <2>3, <2>4 DEF Rewired, Ready, ReadyBut
  <2>6. SameObjects(a, b)
    BY <2>5, SendFullUpdateSame DEF Ready
  <2>7. Ready(b)
    BY <2>5, <2>6, SameReady
  <2> HIDE DEF b
  <2>8. s \in Alive(b) /\ b.players[s] = v.players[s]
    BY <2>2, <2>3, <2>6 DEF Rewired, SameObjects, Alive
  <2>9. Rewired(b, c, s, NoFd)
    BY <2>7, <2>8, ReadyIsReadyBut, SetSocketRewires
  <2> HIDE DEF c
  <2>10. s \in Alive(c) /\ ReadyBut(c, s)
    BY <2>2, <2>8, <2>9 DEF Rewired, Alive
  <2>11. Gone(c, h, s)
    BY <2>1, <2>10, DelPlayerIsGone
  <2> HIDE DEF h
  <2>12. ~h.players[s].alive /\ Ready(h)
    BY <2>11 DEF Gone, Deleted
  <2>13. h.sockets = v.sockets
    BY <2>3, <2>6, <2>9, <2>11 DEF Gone, Rewired, SameObjects
  <2>14. h.players[t].alive /\ h.players[t].socket = f
    BY <2>2, <2>3, <2>6, <2>9, <2>11 DEF Gone, Rewired, SameObjects, Alive
  <2>15. \A x \in Slots : x # s /\ x # t => h.players[x] = v.players[x]
    BY <2>3, <2>6, <2>9, <2>11 DEF Gone, Rewired, SameObjects
  <2>16. Swapped(v, h, s, t)
    BY <2>2, <2>12, <2>13, <2>14, <2>15 DEF Swapped
  <2> QED
    BY <1>2, <2>16 DEF h
<1> QED
  BY <1>1, <1>2

\* s is new, and has the connection f
Welcomed(v, h, f, s) ==
  /\ Ready(h)
  /\ h.sockets = [v.sockets EXCEPT ![f] = "ok"]
  /\ h.players[s].alive /\ h.players[s].socket = f
  /\ \A t \in Slots : t # s => h.players[t] = v.players[t]

\* welcomeNew makes a new player with the connection, and changes no other
LEMMA WelcomeNewWelcomes ==
  ASSUME NEW v, Ready(v), NEW f \in Fds, NEW s \in FreeSlots(v)
  PROVE  Welcomed(v, WelcomeNew(v, f, s), f, s)
<1> DEFINE p == [Deleted EXCEPT !.alive = TRUE, !.socket = f]
           u == [v EXCEPT !.sockets[f] = "ok", !.players[s] = p]
           h == WelcomeNew(v, f, s)
<1> SUFFICES Welcomed(v, h, f, s)
  OBVIOUS
<1>1. h = Tell(u, s, Public(v)) \/ h = Tell(u, s, Public(u))
  BY DEF WelcomeNew
<1> HIDE DEF h
<1>2. /\ v \in World /\ s \in Slots /\ s \notin Alive(v)
      /\ \A k \in Tables : Table(v, k)
      /\ \A t \in Alive(v) : Awaited(v, t)
  BY DEF Ready, FreeSlots
<1>3. /\ p \in PlayerRecord /\ p.alive = TRUE /\ p.socket = f /\ p.game = NoGame
  BY DEF PlayerRecord, Deleted
<1> HIDE DEF p
<1>4. /\ u \in World /\ u.games = v.games /\ u.timers = v.timers
      /\ u.sockets = [v.sockets EXCEPT ![f] = "ok"] /\ u.players[s] = p
      /\ \A x \in Slots : x # s => u.players[x] = v.players[x]
  BY <1>2, <1>3 DEF World, SocketStates
<1> HIDE DEF u
<1>5. Public(v) \in SUBSET Kinds /\ Public(u) \in SUBSET Kinds
  BY ItemsAreKinds DEF Public, Alive
<1>6. SameObjects(u, h)
  BY <1>1, <1>2, <1>4, <1>5, TellSame
<1>7. /\ h \in World /\ h.games = v.games /\ h.timers = v.timers
      /\ h.sockets = [v.sockets EXCEPT ![f] = "ok"] /\ h.players[s] = p
      /\ \A x \in Slots : x # s => h.players[x] = v.players[x]
  BY <1>4, <1>6 DEF SameObjects
<1>8. \A k \in Tables : ~Sits(h, s, k) /\ ~Sits(v, s, k)
  BY <1>2, <1>3, <1>7, LobbyAssumption DEF Sits
<1>9. ReadyBut(h, s)
  BY <1>2, <1>7, <1>8, ReadyKept
<1>10. Awaited(h, s)
  BY <1>3, <1>7, LobbyAssumption DEF Awaited, NoFd
<1>11. Ready(h)
  BY <1>9, <1>10 DEF Ready, ReadyBut
<1> QED
  BY <1>3, <1>7, <1>11 DEF Welcomed
=============================================================================
