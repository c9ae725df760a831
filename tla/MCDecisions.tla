---------------------------- MODULE MCDecisions -----------------------------
(***************************************************************************)
(* Inputs around the edges: the ends of tick bands, charts whose stop is   *)
(* bounded by each of its rules, accounts with most of the money in the    *)
(* other currency, every kind of day next to every other, two sells, three *)
(* ledger rows.                                                            *)
(***************************************************************************)
EXTENDS Decisions

MCPrices == {3, 9999, 10000, 10049} \cup
  {10 * p + d : p \in {3, 1998, 2000, 4998, 20000, 50000, 500000}, d \in {-5, 0, 5}}

\* In units of 20: closes of 2 dollars or 2000 won and above.
MCCharts ==
  {[close |-> 20 * c, atr |-> 20 * a, sma |-> 20 * s, low20 |-> 20 * l,
    high60 |-> 20 * h, low60 |-> 20 * 800] :
     c \in {1000, 1234}, a \in {5, 40}, s \in {900, 1100}, l \in {850, 990}, h \in {1250, 1500}}

Sleeve == {[cash |-> c, securities |-> s] : c \in {0, 61234, 500000}, s \in {0, 400000}}

MCAccounts == [krw : Sleeve, usd : Sleeve, rate : {0, 3}, known : BOOLEAN]

MCPercent == {1, 20}

MCCalendars ==
  {d \in [0 .. 3 -> DayKind] : d[0] \in {"normal", "weekend"} /\ d[3] \in {"normal", "holiday"}}

MCSell ==
  [status : {"filled", "partially_filled", "partially_filled_cancelled"}, filled : {0, 2},
   price : {0, 8, 11}, linked : BOOLEAN, cost : {0, 10}, external : BOOLEAN]

MCDaySells == UNION {[1 .. n -> MCSell] : n \in 0 .. 2}

MCRow(i) ==
  [id : {i}, side : {"buy", "sell"}, qty : {1, 2}, price : {12, 24},
   injected : BOOLEAN, cancelled : BOOLEAN]

MCLedgerRows ==
  {<<>>} \cup {<<a>> : a \in MCRow(1)} \cup {<<a, b>> : a \in MCRow(1), b \in MCRow(2)}

\* Analyses: every report with a few charts, every chart with a few reports,
\* and every gate with good scores.
Quarter == [eps : {Missing, -5, 16, 30}, revenue : {Missing, 12, 25}, surprise : BOOLEAN]
Older   == [eps : {Missing, 20}, revenue : {12}, surprise : {FALSE}]
Strong  == [eps |-> 30, revenue |-> 25, surprise |-> TRUE]
Silent  == [eps |-> Missing, revenue |-> Missing, surprise |-> FALSE]

Reports ==
  {<<>>} \cup {<<a>> : a \in Quarter} \cup {<<a, b>> : a \in Quarter, b \in Older}
    \cup {<<a, b, b>> : a \in Quarter, b \in Older}
FewReports == {<<>>, <<Silent>>, <<Strong>>, <<Strong, [Strong EXCEPT !.eps = 20], Silent>>}

Chart(day, fast, slow, high, rsi, width, up, relative) ==
  [days |-> day, close |-> 100, sma50 |-> fast, sma200 |-> slow, high |-> high, rsi |-> rsi,
   width |-> width, narrowing |-> TRUE, fading |-> TRUE, rising |-> TRUE, up |-> up, down |-> 10,
   relative |-> relative, pivot |-> 98, burst |-> 15, usual |-> 10]

Shapes ==
  {Chart(day, fast, slow, high, rsi, width, up, relative) :
     day \in {40, 100, 250}, fast \in {96, 101}, slow \in {90, 97, 105}, high \in {108, 115},
     rsi \in {60, 80}, width \in {6, 20}, up \in {8, 13}, relative \in {Missing, 9}}
FewShapes == {Chart(250, 96, 90, 108, 60, width, up, 9) : width \in {6, 20}, up \in {8, 13}}
GateShapes ==
  {[Chart(day, 96, slow, 108, 60, 6, 13, 9) EXCEPT !.pivot = pivot, !.burst = burst] :
     day \in {40, 100, 250}, slow \in {90, 105}, pivot \in {94, 98, 101}, burst \in {10, 15}}

Item(sentiment, severity, adjustment) ==
  [answered |-> TRUE, sentiment |-> sentiment, severity |-> severity, adjustment |-> adjustment]
News == {[answered |-> FALSE], Item("positive", "high", 5), Item("positive", "medium", 2),
         Item("other", "low", Missing), Item("negative", "other", -1),
         Item("negative", "high", -5)}

Tape == [fetched |-> TRUE, above |-> TRUE, distribution |-> 5]
Tapes == [fetched : BOOLEAN, above : BOOLEAN, distribution : {Missing, 5, 6}]
Fit == [supported |-> TRUE, status |-> "ACTIVE", liquidation |-> FALSE, suspended |-> FALSE,
        warnings |-> "none"]
Venues == [supported : BOOLEAN, status : {"ACTIVE", "empty", "DELISTED"}, liquidation : BOOLEAN,
           suspended : BOOLEAN, warnings : {"none", "blocking", "failed"}]

MCFacts ==
  [quarters : Reports, catalysts : BOOLEAN, chart : FewShapes, news : News, regime : {Tape},
   live : {TRUE}, confirm : {FALSE}, rr : {9, 11, 13, 25}, venue : {Fit}] \cup
  [quarters : FewReports, catalysts : {TRUE}, chart : Shapes, news : News, regime : {Tape},
   live : {TRUE}, confirm : {FALSE}, rr : {9, 11, 13, 25}, venue : {Fit}] \cup
  [quarters : {<<Strong>>}, catalysts : {TRUE}, chart : GateShapes, news : {[answered |-> FALSE]},
   regime : Tapes, live : BOOLEAN, confirm : BOOLEAN, rr : {13}, venue : {Fit}] \cup
  [quarters : {<<Strong>>}, catalysts : {TRUE}, chart : FewShapes, news : News,
   regime : {Tape}, live : {TRUE}, confirm : {FALSE}, rr : {25}, venue : Venues]

\* A market is held where some position is open.
MCBanners ==
  {b \in [read : {p \in SUBSET Probe : Cardinality(p) >= 3}, kill : BOOLEAN, legacy : {0, 1},
          unresolved : {0, 1}, tripped : SUBSET {"KR", "US"}, held : {{}, {"US"}},
          enabled : BOOLEAN, armed : {0, 1}, pending : {0, 1}, bare : {0, 1},
          auto : {"ok", "absent", "stopped", "stale"}, monitor : {"ok", "failed"},
          channel : BOOLEAN] : (b.held = {}) = (b.armed + b.pending + b.bare = 0)}

\* A held name takes one of the open positions counted.
MCRows ==
  {g \in [protected : BOOLEAN, open : 0 .. 2, elsewhere : {0, 1}, max : {2},
          session : {"pass", "block", "failed"}, regime : {"pass", "block", "failed"},
          breaker : {"pass", "block", "failed"}, held : {"no", "here", "elsewhere"},
          kill : BOOLEAN, halt : BOOLEAN, rejected : BOOLEAN, cooling : BOOLEAN] :
     (g.held = "here" => g.open > 0) /\ (g.held = "elsewhere" => g.elsewhere > 0)}
=============================================================================
