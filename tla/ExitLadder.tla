----------------------------- MODULE ExitLadder -----------------------------
(***************************************************************************)
(* The exit ladder of one bought position (auto/position_manager.py) beside *)
(* its simulation on daily bars (ladder_step of backtest.py).               *)
(*                                                                         *)
(* Live, every pass compares the current price with the stop and the target *)
(* of the position's phase: hard stop and target 1 for the whole position,  *)
(* trailing stop and target 2 for the runner that is left when a larger     *)
(* half was sold at target 1.  The simulation sees one bar a day.           *)
(***************************************************************************)
EXTENDS Integers, FiniteSets

CONSTANTS
  MaxPrice, Atr,                      \* prices are 1 .. MaxPrice, Atr = ATR(14)
  Entry, StopLoss, Target1, Target2,  \* avg_fill_price and the trade plan
  Shares,                             \* the shares ordered
  Others,                             \* shares of the same name the bot did not buy
  MaxDay                              \* max_hold_days

ASSUME LadderAssumption ==
  /\ {MaxPrice, Atr, Shares, MaxDay} \subseteq Nat \ {0}
  /\ Others \in Nat
  /\ {StopLoss, Entry, Target1, Target2} \subseteq 1 .. MaxPrice
  /\ StopLoss < Entry /\ Entry < Target1 /\ Target1 < Target2

VARIABLES
  day, bar, price,   \* the day, its bar so far and the price now
  bought,            \* the buy's filled_quantity
  parts,             \* fills of the sells in partial_exit_ids
  last,              \* fills of the sell exit_order_id names
  trail,             \* trail_stop, 0 for none
  sell,              \* the sell in flight
  account,           \* shares of the name in the account
  sim,               \* the simulated position at the last close
  seen,              \* a pass has run at this price
  prompt,            \* ghost: every price was seen, every sell filled at once
  sold, worst,       \* ghost: shares the bot sold, and the lowest price it got
  forgot             \* ghost: fills the row no longer counts

market == <<day, bar, price>>
row    == <<bought, parts, last, trail>>
ghost  == <<prompt, sold, worst, forgot>>
vars   == <<market, row, sell, account, sim, seen, ghost>>

Price == 1 .. MaxPrice

\* Where a sell's fills are counted; "lost" when linking it to the buy failed.
SellRecord ==
  [left : 0 .. Shares, limit : 0 .. MaxPrice, link : {"parts", "last", "lost"}]

SimRecord ==
  [phase : {"full", "runner", "out"}, trail : 0 .. MaxPrice, fills : SUBSET Price]

Bar == {b \in [open : Price, low : Price, high : Price] :
          b.low <= b.open /\ b.open <= b.high}

TypeOK ==
  /\ day \in 1 .. MaxDay + 1
  /\ bar \in Bar
  /\ price \in bar.low .. bar.high
  /\ bought \in 1 .. Shares
  /\ parts \in Nat /\ last \in Nat
  /\ trail \in 0 .. MaxPrice
  /\ sell \in SellRecord
  /\ account \in 0 .. Shares + Others
  /\ sim \in SimRecord
  /\ {seen, prompt, forgot} \subseteq BOOLEAN
  /\ sold \in 0 .. Shares + Others
  /\ worst \in 1 .. MaxPrice + 1

NoSell == [left |-> 0, limit |-> 0, link |-> "lost"]

OpenAt(p) == [open |-> p, low |-> p, high |-> p]

Init ==
  /\ day = 1 /\ price = Entry /\ bar = OpenAt(Entry)
  /\ bought \in 1 .. Shares
  /\ parts = 0 /\ last = 0 /\ trail = 0 /\ sell = NoSell
  /\ account = bought + Others
  /\ sim = [phase |-> "full", trail |-> 0, fills |-> {}]
  /\ seen = FALSE /\ prompt = TRUE /\ forgot = FALSE
  /\ sold = 0 /\ worst = MaxPrice + 1

Higher(a, b) == IF a >= b THEN a ELSE b
Lower(a, b)  == IF a <= b THEN a ELSE b

-----------------------------------------------------------------------------
(* The simulation: one bar, the worst order of events assumed inside it     *)

Gone(fills) == [phase |-> "out", trail |-> 0, fills |-> fills]

ArmedAt(fill) == Higher(Entry, fill - 2 * Atr)

\* A runner under trail t, inside bar b that closes at c.
InBar(b, c, t) ==
  IF b.low <= t THEN Gone({t})
  ELSE IF b.high >= Target2 THEN Gone({Target2})
  ELSE [phase |-> "runner", trail |-> Higher(t, c - 2 * Atr), fills |-> {}]

RunnerBar(b, c, t) ==
  IF b.open <= t \/ b.open >= Target2 THEN Gone({b.open}) ELSE InBar(b, c, t)

ScaleOutBar(b, c, fill) ==
  LET s == InBar(b, c, ArmedAt(fill)) IN [s EXCEPT !.fills = @ \union {fill}]

MutFullBarHope(b, c) ==
  IF b.open <= StopLoss THEN Gone({b.open})
  ELSE IF b.high >= Target1 THEN ScaleOutBar(b, c, Higher(b.open, Target1))
  ELSE IF b.low <= StopLoss THEN Gone({StopLoss})
  ELSE [phase |-> "full", trail |-> 0, fills |-> {}]

FullBar(b, c) ==
  IF b.open <= StopLoss THEN Gone({b.open})
  ELSE IF b.open >= Target1 THEN ScaleOutBar(b, c, b.open)
  ELSE IF b.low <= StopLoss THEN Gone({StopLoss})
  ELSE IF b.high >= Target1 THEN ScaleOutBar(b, c, Target1)
  ELSE [phase |-> "full", trail |-> 0, fills |-> {}]

LadderStep(s, b, c) ==
  CASE s.phase = "full"   -> FullBar(b, c)
    [] s.phase = "runner" -> RunnerBar(b, c, s.trail)
    [] s.phase = "out"    -> Gone({})

\* _walk_exits: what is left at the last bar goes at its close.
Walk(s, b, c) ==
  LET n == LadderStep(s, b, c)
  IN  IF day = MaxDay /\ n.phase # "out" THEN Gone(n.fills \union {c}) ELSE n

-----------------------------------------------------------------------------
(* The market and the venue *)

InFlight == sell.left > 0

\* The simulation is followed while the two sides compare.
Follow(b, s) ==
  /\ prompt' = (prompt /\ seen /\ ~InFlight)
  /\ seen' = FALSE
  /\ IF prompt' THEN bar' = b /\ sim' = s /\ UNCHANGED worst
     ELSE bar' = OpenAt(price') /\ sim' = Gone({}) /\ worst' = MaxPrice + 1
  /\ UNCHANGED <<row, sell, account, sold, forgot>>

Tick ==
  /\ day <= MaxDay
  /\ price' \in {price - 1, price + 1} \intersect Price
  /\ Follow([bar EXCEPT !.low = Lower(@, price'), !.high = Higher(@, price')], sim)
  /\ UNCHANGED day

\* The day closes and the next one opens, anywhere.
NextDay ==
  /\ day <= MaxDay
  /\ price' \in IF day < MaxDay THEN Price ELSE {price}
  /\ Follow(OpenAt(price'), Walk(sim, bar, price))
  /\ day' = IF prompt' THEN day + 1 ELSE 1

BuyFills ==
  /\ bought < Shares
  /\ bought' = bought + 1 /\ account' = account + 1
  /\ prompt' = (prompt /\ sold = 0 /\ ~InFlight)
  /\ UNCHANGED <<market, parts, last, trail, sell, sim, seen, sold, worst, forgot>>

SellFills(n) ==
  /\ n <= Lower(sell.left, account) /\ price >= sell.limit
  /\ sell' = [sell EXCEPT !.left = @ - n]
  /\ parts' = IF sell.link = "parts" THEN parts + n ELSE parts
  /\ last' = IF sell.link = "last" THEN last + n ELSE last
  /\ forgot' = (forgot \/ sell.link = "lost")
  /\ account' = account - n
  /\ sold' = sold + n
  /\ worst' = IF prompt THEN Lower(worst, price) ELSE worst
  /\ seen' = FALSE
  /\ UNCHANGED <<market, bought, trail, sim, prompt>>

\* The day order expires, or somebody cancels it.
SellDies ==
  /\ InFlight
  /\ sell' = NoSell
  /\ prompt' = FALSE
  /\ UNCHANGED <<market, row, account, sim, seen, sold, worst, forgot>>

\* The owner sells shares of the name by hand.
OperatorSells(n) ==
  /\ ~InFlight /\ n <= account
  /\ account' = account - n
  /\ prompt' = FALSE
  /\ UNCHANGED <<market, row, sell, sim, seen, sold, worst, forgot>>

-----------------------------------------------------------------------------
(* One pass of manage_open_positions *)

MutRemaining == Higher(bought - last, 0)

Remaining == Higher(bought - parts - last, 0)

ScaledOut == parts > 0

\* A sell whose link was lost is not seen here: it is enqueue that refuses.
Managed == Remaining > 0 /\ ~(InFlight /\ sell.link # "lost")

EffectiveStop == IF ScaledOut /\ trail # 0 THEN trail ELSE StopLoss

StopHit   == price <= EffectiveStop
TargetHit == ~StopHit /\ price >= (IF ScaledOut THEN Target2 ELSE Target1)
SellsHalf == TargetHit /\ ~ScaledOut /\ Remaining > 1

\* A single share is sold whole, of more the larger half.
Quantity == IF SellsHalf THEN (Remaining + 1) \div 2 ELSE Remaining

MutRatcheted == price - 2 * Atr

MutNoRatchet == trail

\* Only upwards, and by a tenth of the ATR at least.
Ratcheted ==
  IF trail # 0 /\ 10 * (ArmedAt(price) - trail) < Atr THEN trail ELSE ArmedAt(price)

Hold ==
  /\ Managed /\ ~StopHit /\ ~TargetHit
  /\ trail' = IF ScaledOut THEN Ratcheted ELSE trail
  /\ seen' = TRUE
  /\ UNCHANGED <<market, bought, parts, last, sell, account, sim, ghost>>

\* Nothing to decide: no shares, or a sell in flight.
Defer ==
  /\ ~Managed
  /\ seen' = TRUE
  /\ UNCHANGED <<market, row, sell, account, sim, ghost>>

\* The account is empty: the row is closed by a synthetic sell.
ExternalClose ==
  /\ Managed /\ (StopHit \/ TargetHit)
  /\ account = 0
  /\ last' = Remaining
  /\ forgot' = (forgot \/ last > 0)
  /\ seen' = TRUE
  /\ UNCHANGED <<market, bought, parts, trail, sell, account, sim, prompt, sold, worst>>

\* The snapshot of the account may fail; then the row alone decides.
Available == {account, Remaining}

\* _submit_exit with the link written first, whatever becomes of the sell.
Submit(n, linked, accepted) ==
  LET link == IF SellsHalf THEN "parts" ELSE "last"
  IN  /\ Managed /\ (StopHit \/ TargetHit) /\ ~InFlight
      /\ \E a \in Available : a > 0 /\ n = Lower(Quantity, a)
      /\ last' = IF linked /\ link = "last" THEN 0 ELSE last
      /\ forgot' = (forgot \/ (linked /\ link = "last" /\ last > 0))
      /\ trail' = IF linked /\ link = "parts" THEN ArmedAt(price) ELSE trail
      /\ sell' = IF ~accepted THEN NoSell
                 ELSE [left |-> n,
                       limit |-> IF TargetHit THEN price ELSE 0,
                       link |-> IF linked THEN link ELSE "lost"]
      /\ seen' = TRUE
      /\ prompt' = (prompt /\ linked /\ accepted)
      /\ UNCHANGED <<market, bought, parts, account, sim, sold, worst>>

\* The queue refuses the sell, or cannot be written.
EnqueueFails ==
  /\ Managed /\ (StopHit \/ TargetHit)
  /\ seen' = TRUE /\ prompt' = FALSE
  /\ UNCHANGED <<market, row, sell, account, sim, sold, worst, forgot>>

-----------------------------------------------------------------------------
Next ==
  \/ Tick \/ NextDay \/ BuyFills \/ SellDies
  \/ \E n \in 1 .. Shares + Others : SellFills(n) \/ OperatorSells(n)
  \/ Hold \/ Defer \/ ExternalClose \/ EnqueueFails
  \/ \E n \in 1 .. Shares + Others, linked, accepted \in BOOLEAN : Submit(n, linked, accepted)

Spec == Init /\ [][Next]_vars

-----------------------------------------------------------------------------
(* Properties *)

\* The bot never sells, nor has in flight, more shares than it bought, whatever
\* partial fills, rejections and expiries come in between ("prevents double-
\* selling the same shares"), unless the row lost count of an earlier exit.
NotOversold == forgot \/ sold + sell.left <= bought

\* Once shares were scaled out the trail never falls, and never below the entry
\* ("never lowers, floored at breakeven").
RunnerFloor == [][parts > 0 => trail' >= trail /\ trail' >= Entry]_vars

\* The simulation is never the optimist.  It never sells above what the day
\* traded at: gaps fill at the open, not at the level they jumped over.  When it
\* stops a position out that the bar found whole, no share went for less live and
\* none is worth less at the close; and on a bar where it does nothing, nothing
\* was sold live - for a live position whose passes saw every price and whose
\* sells filled at once.
SimWorstCase ==
  [][/\ day' > day => \A p \in sim'.fills : p <= bar.high
     /\ day' > day /\ prompt /\ prompt' /\ sim.phase = "full" =>
          /\ sim'.phase = "out" /\ day < MaxDay /\ (\A p \in sim'.fills : p < Target2) =>
               \E p \in sim'.fills : worst >= p /\ (Remaining > 0 => price >= p)
          /\ sim'.phase = "full" => sold = 0]_vars

\* A live runner is never trailed more loosely than the simulated one, but for
\* the tenth of an ATR of the ratchet's smallest step.
TrailAhead ==
  prompt /\ sim.phase = "runner" /\ ScaledOut /\ Remaining > 0 /\ ~InFlight
    => 10 * (sim.trail - trail) < Atr

=============================================================================
