-------------------------------- MODULE Sums --------------------------------
(***************************************************************************)
(* The total of a loop over rows.  A recursive function and not a fold of  *)
(* the community modules: those take operators, and nothing can be proved  *)
(* here by induction over what an operator computes.                       *)
(***************************************************************************)
EXTENDS Integers, Sequences

SumSeq(s) ==
  LET upto[n \in 0 .. Len(s)] == IF n = 0 THEN 0 ELSE upto[n - 1] + s[n]
  IN  upto[Len(s)]
=============================================================================
