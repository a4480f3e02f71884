----------------------------- MODULE MCGameFlow -----------------------------
(***************************************************************************)
(* GameFlow for TLC: the bounds of every run are values of its CONSTANTS,  *)
(* given in the MCGameFlow_*.cfg files.                                    *)
(***************************************************************************)
EXTENDS GameFlow

-----------------------------------------------------------------------------
(* What comments and release notes say, and the code does not do *)

\* "bugfix: turns ends after bankrupty, even when player had doubles": a
\* bankrupt player keeps the turn at most until all debts are settled
\* (bankruptPlayer, solveDebts).
BankruptTurnEnds == Running /\ game.turn \in game.bankrupt => game.debts # {}

\* A move is completed "when all clients have landed the player on the
\* destination estate": when no token moves, nobody is still on his way.
MovesAreCompleted == Running /\ game.moving = {} => game.dest = {}

\* "player left game during its turn, cancel any token movement": tokens move
\* only for a turn holder who has a destination to reach.
TokensFollowTurn == Running /\ game.moving # {} => game.turn \in game.dest

\* "The rest is done by token confirmation or timeout": every movement ends,
\* the one that leaves jail included.
TokensRest == game.moving # {} ~> game.moving = {}
=============================================================================
