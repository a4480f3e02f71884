----------------------------- MODULE TurnOrder -----------------------------
(***************************************************************************)
(* What a game promises about its turns: they go round among those who     *)
(* play, in the order of their seats.  The turn passes to the next of them *)
(* and skips nobody, whoever drops out or joins in between, and ends with  *)
(* the game, when one of them is left.                                     *)
(***************************************************************************)
EXTENDS Naturals, FiniteSetsExt

CONSTANTS Everyone,         \* seats that may ever be taken, numbered from 1
          First             \* seats taken at the start

VARIABLES playing,          \* seats of those who play
          turn              \* the seat that has the turn

NoTurn == 0

vars == <<playing, turn>>

Init == playing = First /\ turn = Min(First)

\* the seat after one, going round
Successor(seat, seats) ==
  LET later == {q \in seats : q > seat}
  IN  IF later # {} THEN Min(later) ELSE Min(seats)

Pass == /\ turn # NoTurn
        /\ turn' = Successor(turn, playing)
        /\ UNCHANGED playing

\* somebody drops out: bankrupt, gone, or both
DropOut ==
  \E p \in playing :
    /\ turn # NoTurn
    /\ playing' = playing \ {p}
    /\ IF \E q \in playing : playing' = {q} THEN turn' = NoTurn
       ELSE turn' \in {turn, Successor(turn, playing')}

\* a new player gets the last seat
TakeSeat ==
  \E p \in Everyone :
    /\ turn # NoTurn
    /\ \A q \in playing : q < p
    /\ playing' = playing \union {p}
    /\ UNCHANGED turn

\* after the end players only leave
LeaveTable ==
  \E p \in playing :
    /\ turn = NoTurn
    /\ playing' = playing \ {p}
    /\ UNCHANGED turn

Next == Pass \/ DropOut \/ TakeSeat \/ LeaveTable

Spec == Init /\ [][Next]_vars
=============================================================================
