------------------------------- MODULE Pricing ------------------------------
(***************************************************************************)
(* Prices and sizes of an order: exchange ticks (pricing.py), the trade    *)
(* plan (risk.py) and the number of shares (auto/sizing.py).               *)
(*                                                                         *)
(* A price is a count of units: a tenth of a won, or 1/10000 dollar, the   *)
(* smallest tick there is.  The code computes the plan and the size with   *)
(* floats: where a quotient is not exact here, the operators round down.   *)
(***************************************************************************)
EXTENDS Integers

Unit(market) == IF market = "US" THEN 10000 ELSE 10

Security == {"STOCK", "ETF", "ELW"}   \* one of each class of tick table

(***************************************************************************)
(* Ticks                                                                   *)
(***************************************************************************)
\* tick_size
KrTick(p, security) ==
  CASE security = "ELW" -> 5
    [] security = "ETF" -> IF p < 2000 * Unit("KR") THEN 1 ELSE 5
    [] security = "STOCK" ->
         IF p < 2000 * Unit("KR") THEN 1
         ELSE IF p < 5000 * Unit("KR") THEN 5
         ELSE IF p < 20000 * Unit("KR") THEN 10
         ELSE IF p < 50000 * Unit("KR") THEN 50
         ELSE IF p < 200000 * Unit("KR") THEN 100
         ELSE IF p < 500000 * Unit("KR") THEN 500 ELSE 1000

TickSize(p, market, security) ==
  IF market = "US" THEN IF p < Unit(market) THEN 1 ELSE 100
  ELSE Unit(market) * KrTick(p, security)

FloorTo(p, tick) == (p \div tick) * tick
CeilTo(p, tick)  == ((p + tick - 1) \div tick) * tick

\* round_order_price: buys down, sells up.
MutRoundPassive(p, market, side, security) ==
  LET tick == TickSize(p, market, security)
  IN  FloorTo(p + tick \div 2, tick)

RoundPassive(p, market, side, security) ==
  LET tick == TickSize(p, market, security)
  IN  IF side = "buy" THEN FloorTo(p, tick) ELSE CeilTo(p, tick)

\* round_aggressive_order_price: toward execution.
RoundAggressive(p, market, side, security) ==
  LET tick == TickSize(p, market, security)
  IN  IF side = "buy" THEN CeilTo(p, tick) ELSE FloorTo(p, tick)

\* floor_to_tick: a stop never above the level asked for.
FloorToTick(p, market, security) == FloorTo(p, TickSize(p, market, security))

\* A price the exchange takes: a multiple of the tick at that price.
ValidPrice(p, market, security) == p % TickSize(p, market, security) = 0

(***************************************************************************)
(* The trade plan                                                          *)
(***************************************************************************)
Lower(a, b)  == IF a < b THEN a ELSE b
Higher(a, b) == IF a > b THEN a ELSE b

\* build_trade_plan, from the close, the ATR, the 50-day average, the 20-day
\* low and the range of 60 days.
StopOf(c) ==
  LET structural == (Lower(c.sma, c.low20) * 985) \div 1000
      widest     == Lower(c.close - 2 * c.atr, structural)
  IN  Lower(Higher(widest, (c.close * 93) \div 100), (c.close * 975) \div 1000)

Target1Of(c) ==
  IF 100 * c.high60 > 103 * c.close THEN c.high60
  ELSE c.close + (c.high60 - c.low60) \div 2

Target2Of(c) == Higher((Target1Of(c) * 110) \div 100, c.close + c.high60 - c.low60)

\* The buy limit; the ratio of reward to risk is taken at this price.
EntryHigh(c) == (c.close * 101) \div 100

\* The orchestrator's limit: entry_high in cents; units of a won are coarser.
EntryPrice(c, market) ==
  IF market = "US" THEN FloorTo(EntryHigh(c) + 50, 100) ELSE EntryHigh(c)

\* calculate_rr as a pair: reward over risk, zero without a risk.
Ratio(entry, stop, target) ==
  IF entry - stop <= 0 THEN [reward |-> 0, risk |-> 1]
  ELSE [reward |-> target - entry, risk |-> entry - stop]

AtLeast(r, q) == r.reward * q.risk >= q.reward * r.risk

\* When the ratio is below min_rr (reward over risk, as a pair) a lower entry
\* is offered instead.
AlternateEntry(c, minimum) ==
  IF ~ AtLeast(Ratio(EntryHigh(c), StopOf(c), Target1Of(c)), minimum) /\ c.sma < c.close
  THEN Higher(c.sma, (StopOf(c) * 103) \div 100) ELSE 0

Plan(c, minimum) ==
  [entry |-> EntryHigh(c), stop |-> StopOf(c), target1 |-> Target1Of(c),
   target2 |-> Target2Of(c), rr |-> Ratio(EntryHigh(c), StopOf(c), Target1Of(c)),
   alternate |-> AlternateEntry(c, minimum)]

(***************************************************************************)
(* The size                                                                *)
(***************************************************************************)
\* usable_cash: a paper account without cash is valued by the difference.
UsableCash(b) ==
  IF b.cash <= 0 /\ b.total > b.securities THEN b.total - b.securities ELSE b.cash

\* sizing_base_value: the whole portfolio if the broker can value it, else
\* what is held in this market's currency.
SizingBase(b) == IF b.portfolio > 0 THEN b.portfolio ELSE b.total

AtLeastZero(n) == IF n < 0 THEN 0 ELSE n

\* compute_position_size; a cap of 0 is no cap, a failed balance no size.
PositionSize(b, entry, stop, risk, cap) ==
  IF ~ b.known \/ risk <= 0 \/ entry <= 0 \/ stop <= 0 \/ entry <= stop THEN 0
  ELSE LET byRisk == ((SizingBase(b) * risk) \div 100) \div (entry - stop)
           byCash == UsableCash(b) \div entry
           byCap  == ((SizingBase(b) * cap) \div 100) \div entry
           size   == AtLeastZero(Lower(byRisk, byCash))
       IN  IF cap > 0 THEN AtLeastZero(Lower(size, byCap)) ELSE size

\* The pre-flight of run_auto_iteration: half a per cent on top of the cost
\* must fit the cash and the position cap; an unknown balance passes.
Preflight(b, entry, quantity, cap) ==
  b.known =>
    /\ 201 * entry * quantity <= 200 * UsableCash(b)
    /\ cap > 0 /\ SizingBase(b) > 0 => 201 * entry * quantity <= 2 * SizingBase(b) * cap
=============================================================================
