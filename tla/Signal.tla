------------------------------- MODULE Signal -------------------------------
(***************************************************************************)
(* Whether a name is worth buying: the scoreboard and the gates of         *)
(* StrategyAnalyzer (strategy/analyzer.py), the breakout check of          *)
(* strategy/indicators.py, the market regime (market_regime.py), the news  *)
(* assessment (news/assessor.py) and the venue's tradability check.        *)
(*                                                                         *)
(* The facts of an analysis are a record: the quarters reported, newest    *)
(* first, with growth in per cent; a chart reduced to the numbers the      *)
(* scores read; what the language model and the venue answered.  Ratios    *)
(* are in tenths, and Missing stands for None.                             *)
(***************************************************************************)
EXTENDS Integers, Sequences

Missing == -1000
Known(v) == v # Missing

Bounded(v, low, high) == IF v < low THEN low ELSE IF v > high THEN high ELSE v
If(condition, points) == IF condition THEN points ELSE 0

\* AppConfig and StrategyParams
MinScore == 24
MinRatio == 12

\* A price history, a news item the model may have answered with, what the venue
\* says of a name, and all that an analysis reads.
ChartFacts ==
  [days : Nat, close : Int, sma50 : Int, sma200 : Int, high : Int, rsi : Int, width : Int,
   narrowing : BOOLEAN, fading : BOOLEAN, rising : BOOLEAN, up : Int, down : Int,
   relative : Int, pivot : Int, burst : Int, usual : Int]

NewsFacts ==
  {[answered |-> FALSE]} \cup
  [answered : {TRUE}, sentiment : {"positive", "neutral", "negative", "other"},
   severity : {"low", "medium", "high", "other"}, adjustment : Int]

VenueFacts ==
  [supported : BOOLEAN, status : STRING, liquidation : BOOLEAN, suspended : BOOLEAN,
   warnings : {"none", "blocking", "failed"}]

Analysis ==
  [quarters : Seq([eps : Int, revenue : Int, surprise : BOOLEAN]), catalysts : BOOLEAN,
   chart : ChartFacts, news : NewsFacts,
   regime : [fetched : BOOLEAN, above : BOOLEAN, distribution : Int],
   live : BOOLEAN, confirm : BOOLEAN, rr : Int, venue : VenueFacts]

(***************************************************************************)
(* The three scores, each 0 to 10                                          *)
(***************************************************************************)
EpsPoints(eps) ==
  IF ~ Known(eps) THEN 0
  ELSE IF eps >= 25 THEN 4 ELSE IF eps >= 15 THEN 3 ELSE If(eps > 0, 1)

RevenuePoints(revenue) ==
  IF ~ Known(revenue) THEN 0
  ELSE IF revenue >= 20 THEN 3 ELSE IF revenue >= 10 THEN 2 ELSE If(revenue > 0, 1)

\* Growth no slower than a quarter, or two quarters running, ago.
NoSlower(quarters, i) ==
  /\ Len(quarters) > i
  /\ Known(quarters[i].eps) /\ Known(quarters[i + 1].eps)
  /\ quarters[i].eps >= quarters[i + 1].eps

Acceleration(quarters) ==
  If(NoSlower(quarters, 1), 1 + If(NoSlower(quarters, 2), 1))

\* _score_fundamentals
Fundamentals(quarters, catalysts) ==
  IF quarters = <<>> THEN 0
  ELSE LET q == quarters[1]
       IN  Bounded(EpsPoints(q.eps) + RevenuePoints(q.revenue) + Acceleration(quarters)
                     + If(q.surprise, 1) + If(catalysts /\ Known(q.eps) /\ Known(q.revenue), 1),
                   0, 10)

\* _score_trend: half the points where the history is too short.
Long(c) == c.days >= 200

Trend(c) ==
  Bounded(If(c.close > c.sma200, IF Long(c) THEN 4 ELSE 2)
            + If(Long(c) /\ c.sma50 > c.sma200, 2)
            + If(c.close > c.sma50, IF c.days >= 50 THEN 2 ELSE 1)
            + If(10 * c.close >= 9 * c.high, 2), 0, 10)

\* detect_vcp: three shrinking ranges on fading volume, near the high.
Vcp(c) ==
  IF c.days < 60 THEN 0
  ELSE If(c.narrowing, 4) + If(c.fading, 3) + If(100 * c.close >= 85 * c.high, 2) + If(c.rising, 1)

\* volume_accumulation_summary, from the average volume of rising and of
\* other days; 0 is no such day.
Accumulation(c) ==
  IF c.days < 21 THEN 0
  ELSE IF 0 \in {c.up, c.down} THEN 1
  ELSE IF 10 * c.up >= 12 * c.down THEN 3 ELSE If(100 * c.up >= 95 * c.down, 2)

\* _score_momentum; relative strength is Missing without a benchmark.
Momentum(c) ==
  Bounded((IF c.rsi > 75 THEN 1 ELSE If(c.rsi >= 50, 2))
            + (IF c.width < 8 THEN 2 ELSE If(c.width < 14, 1))
            + Bounded((Vcp(c) + 1) \div 3, 0, 3)
            + Accumulation(c)
            + If(Known(c.relative) /\ c.relative > 5, 1), 0, 10)

(***************************************************************************)
(* News                                                                    *)
(***************************************************************************)
Neutral == [sentiment |-> "neutral", severity |-> "low", adjustment |-> 0]

\* _coerce_assessment of what the model answered; any failure is neutral.
Coerced(n) ==
  IF ~ n.answered THEN Neutral
  ELSE [sentiment  |-> IF n.sentiment = "other" THEN "neutral" ELSE n.sentiment,
        severity   |-> IF n.severity = "other" THEN "low" ELSE n.severity,
        adjustment |-> IF Known(n.adjustment) THEN Bounded(n.adjustment, -3, 3) ELSE 0]

Severe(n) == Coerced(n).severity = "high" /\ Coerced(n).sentiment = "negative"

\* The adjustment moves the fundamentals score only.
Total(f) ==
  Bounded(Fundamentals(f.quarters, f.catalysts) + Coerced(f.news).adjustment, 0, 10)
    + Trend(f.chart) + Momentum(f.chart)

(***************************************************************************)
(* Gates                                                                   *)
(***************************************************************************)
\* _fetch_regime: without an index the market is bullish; above its average
\* six distribution days are too many.
Bullish(r) == r.fetched => r.above /\ (Known(r.distribution) => r.distribution < 6)

\* breakout_status.  The last close is one of the recent ones, so a close
\* above the pivot is always found.
Breakout(c) ==
  IF c.days < 65 THEN "insufficient"
  ELSE IF c.close <= c.pivot THEN "no_breakout"
  ELSE IF 100 * (c.close - c.pivot) > 5 * c.pivot THEN "extended"
  ELSE IF 10 * c.burst < 14 * c.usual THEN "low_volume"
  ELSE "confirmed"

RatioFloor(total) ==
  IF total >= 29 THEN 8 ELSE IF total >= 27 THEN 10 ELSE MinRatio

MutScoreFloor(f) == IF f.rr >= 24 THEN 22 ELSE MinScore

\* A wide reward lowers the score asked for, but not in a broken trend.
ScoreFloor(f) == IF f.rr >= 24 /\ Trend(f.chart) >= 6 THEN 22 ELSE MinScore

\* _final_signal; live is use_live_market_data, confirm require_breakout.
Decided(f) ==
  LET c == f.chart IN
  IF Severe(f.news) \/ (f.live /\ ~ Bullish(f.regime)) THEN "Hold Off"
  ELSE IF c.close < c.sma200 THEN IF Long(c) THEN "Hold Off" ELSE "Wait"
  ELSE IF f.confirm /\ Breakout(c) \notin {"confirmed", "insufficient"} THEN "Wait"
  ELSE IF f.rr < RatioFloor(Total(f)) \/ Total(f) < ScoreFloor(f) THEN "Wait"
  ELSE IF Total(f) >= 27 /\ f.rr >= 24 THEN "Strong Buy" ELSE "Buy"

(***************************************************************************)
(* The venue                                                               *)
(***************************************************************************)
\* _tradability_block: a check that fails blocks, a broker that has none
\* does not.  The status is empty when the venue leaves it out.
Blocked(v) ==
  /\ v.supported
  /\ \/ v.status \notin {"ACTIVE", "empty"}
     \/ v.liquidation \/ v.suspended
     \/ v.warnings \in {"blocking", "failed"}

\* A watchlist row goes on to sizing.
Bought(f) == Decided(f) \in {"Buy", "Strong Buy"} /\ ~ Blocked(f.venue)
=============================================================================
