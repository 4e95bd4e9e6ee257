-------------------------------- MODULE Sums --------------------------------
(***************************************************************************)
(* The sums that the code takes over lists and dictionaries with           *)
(* sum(... for x in ...), as sums of a function's values over a finite     *)
(* set.  SumProofs proves what one may expect of them.                     *)
(***************************************************************************)
EXTENDS Integers, FiniteSetsExt

SumOver(f, S) == MapThenSumSet(LAMBDA x : f[x], S)
=============================================================================
