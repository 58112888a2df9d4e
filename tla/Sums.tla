-------------------------------- MODULE Sums --------------------------------
(***************************************************************************)
(* The sum of a function over a finite set, for the histories that add up  *)
(* what several users of a component hold.                                 *)
(***************************************************************************)
EXTENDS Integers, FiniteSetsExt

SumOver(g, S) == MapThenSumSet(LAMBDA x : g[x], S)
=============================================================================
