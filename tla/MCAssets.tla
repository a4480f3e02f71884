------------------------------ MODULE MCAssets ------------------------------
(***************************************************************************)
(* Assets for TLC: the constants are given in the MCAssets_*.cfg files.    *)
(***************************************************************************)
EXTENDS Assets, TLC

\* players, trade numbers and the estates of one group are interchangeable
Symmetry == Permutations(Players) \union Permutations(TradeIds)
              \union UNION {Permutations(g) : g \in Groups}

-----------------------------------------------------------------------------
(* What release notes and documents say, and the code does not do *)

\* The accept flag "is reset upon any change, the player must re-accept if anything
\* is changed": terms change only with all flags down, or while the trade completes.
AnyChangeResetsAccepts ==
  [][\A t \in TradeIds \ {completing} :
       trades'[t].comps # trades[t].comps => trades'[t].accepted = {}]_vars

\* "fixed crash when accepting a trade resulted in a debt": a trade outlives its
\* completion.
CompletesLiveTrade == ~dangling
=============================================================================
