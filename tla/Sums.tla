-------------------------------- MODULE Sums --------------------------------
(***************************************************************************)
(* Sums over tables of amounts: what a loop over a table, or the history   *)
(* of a counter, adds up to.                                               *)
(***************************************************************************)
EXTENDS Integers, FiniteSets, FiniteSetsExt

\* The sum of f[x] for the x of S.
SumOver(f, S) == MapThenSumSet(LAMBDA x : f[x], S)

\* The sum of a whole table.
Total(f) == SumOver(f, DOMAIN f)
=============================================================================
