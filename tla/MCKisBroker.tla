---------------------------- MODULE MCKisBroker -----------------------------
(***************************************************************************)
(* Three names, two on the first US exchange and one on the second.        *)
(***************************************************************************)
EXTENDS KisBroker

TwoExchanges == [n \in Name |-> IF n < 3 THEN 1 ELSE 2]

\* What the steps and the properties tell states apart by.  A call for positions
\* weighs names, one for the balance money; the ghosts of other calls, and of
\* calls that are over, are started anew by the next one.  Of the caches only
\* matters whether one has the token: the one on disk has it whenever any has.
\* Of what went wrong only matters whether a listing without a hole did it.
WhatCounts ==
  <<venue, order, tokens = {}, open, row, faults, FALSE \in wrong, FALSE \in claimed,
    CASE call.op = "positions" -> <<[call EXCEPT !.worth = 0, !.cash = 0], sawGone, hole>>
      [] call.op \in {"balance", "fallback"} -> <<[call EXCEPT !.out = {}], moved, hole>>
      [] OTHER -> <<call>> >>

\* A bound: the order under watch and the trades in the app are looked at apart.
\* To a listing both only say that something moved.
OrderOrTrades == order.count = 0 \/ trades = 0
=============================================================================
