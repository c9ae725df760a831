---------------------------- MODULE DecisionsProofs -------------------------
(***************************************************************************)
(* What TLC checks of ticks, plans and sizes at the edges MCDecisions      *)
(* names, proved here for every price, plan, account and setting: first    *)
(* the arithmetic, then the prices and sizes that leave the bot, then the  *)
(* sessions, the dashboard's panel and the signal, and last what loops     *)
(* over rows: the day's loss and the simulated account.                    *)
(***************************************************************************)
EXTENDS Decisions, WellFoundedInduction, TLAPS

Amount == Nat \ {0}

-----------------------------------------------------------------------------
(* Ticks *)

LEMMA FloorIsFloor ==
  ASSUME NEW p \in Nat, NEW tick \in Amount
  PROVE  /\ FloorTo(p, tick) \in Nat
         /\ FloorTo(p, tick) <= p /\ p < FloorTo(p, tick) + tick
         /\ FloorTo(p, tick) % tick = 0
  BY DEF FloorTo, Amount

LEMMA CeilIsCeil ==
  ASSUME NEW p \in Nat, NEW tick \in Amount
  PROVE  /\ CeilTo(p, tick) \in Nat
         /\ p <= CeilTo(p, tick) /\ CeilTo(p, tick) < p + tick
         /\ CeilTo(p, tick) % tick = 0
  BY DEF CeilTo, Amount

LEMMA TickIsAmount ==
  ASSUME NEW p \in Nat, NEW market \in {"KR", "US"}, NEW security \in Security
  PROVE  TickSize(p, market, security) \in Amount
  BY DEF TickSize, KrTick, Unit, Security, Amount


LEMMA DownStaysOnGrid ==
  ASSUME NEW p \in Nat, NEW market \in {"KR", "US"}, NEW security \in Security
  PROVE  ValidPrice(FloorToTick(p, market, security), market, security)
<1>1. CASE market = "US"
  BY <1>1 DEF ValidPrice, FloorToTick, FloorTo, TickSize, Unit
<1>2. CASE market = "KR" /\ security = "ELW"
  BY <1>2 DEF ValidPrice, FloorToTick, FloorTo, TickSize, KrTick, Unit, Security
<1>3. CASE market = "KR" /\ security = "ETF"
  BY <1>3 DEF ValidPrice, FloorToTick, FloorTo, TickSize, KrTick, Unit, Security
<1>4. CASE market = "KR" /\ security = "STOCK"
  BY <1>4 DEF ValidPrice, FloorToTick, FloorTo, TickSize, KrTick, Unit, Security
<1> QED BY <1>1, <1>2, <1>3, <1>4 DEF Security

LEMMA UpStaysOnGrid ==
  ASSUME NEW p \in Nat, NEW market \in {"KR", "US"}, NEW security \in Security
  PROVE  ValidPrice(CeilTo(p, TickSize(p, market, security)), market, security)
<1>1. CASE market = "US"
  BY <1>1 DEF ValidPrice, CeilTo, TickSize, Unit
<1>2. CASE market = "KR" /\ security = "ELW"
  BY <1>2 DEF ValidPrice, CeilTo, TickSize, KrTick, Unit, Security
<1>3. CASE market = "KR" /\ security = "ETF"
  BY <1>3 DEF ValidPrice, CeilTo, TickSize, KrTick, Unit, Security
<1>4. CASE market = "KR" /\ security = "STOCK"
  BY <1>4 DEF ValidPrice, CeilTo, TickSize, KrTick, Unit, Security
<1> QED BY <1>1, <1>2, <1>3, <1>4 DEF Security

\* pricing.py, round_order_price - at every price, in every market and for every
\* kind of security, the rounded price is one the exchange takes at its own
\* level, less than a tick away, and never on the costly side.
THEOREM PassiveOnSafeSide ==
  ASSUME NEW p \in Nat, NEW market \in {"KR", "US"}, NEW security \in Security,
         NEW side \in {"buy", "sell"}
  PROVE  LET q == RoundPassive(p, market, side, security) IN
         /\ q \in Nat
         /\ ValidPrice(q, market, security)
         /\ IF side = "buy" THEN q <= p /\ p - q < TickSize(p, market, security)
                            ELSE q >= p /\ q - p < TickSize(p, market, security)
<1> DEFINE tick == TickSize(p, market, security)
<1>1. tick \in Amount
  BY TickIsAmount
<1>2. CASE side = "buy"
  <2>1. RoundPassive(p, market, side, security) = FloorTo(p, tick)
    BY <1>2 DEF RoundPassive
  <2>2. ValidPrice(FloorTo(p, tick), market, security)
    BY DownStaysOnGrid DEF FloorToTick
  <2> HIDE DEF tick
  <2>3. FloorTo(p, tick) \in Nat /\ FloorTo(p, tick) <= p /\ p - FloorTo(p, tick) < tick
    BY <1>1, FloorIsFloor DEF Amount
  <2> QED BY <1>2, <2>1, <2>2, <2>3 DEF tick
<1>3. CASE side = "sell"
  <2>1. RoundPassive(p, market, side, security) = CeilTo(p, tick)
    BY <1>3 DEF RoundPassive
  <2>2. ValidPrice(CeilTo(p, tick), market, security)
    BY UpStaysOnGrid
  <2> HIDE DEF tick
  <2>3. CeilTo(p, tick) \in Nat /\ CeilTo(p, tick) >= p /\ CeilTo(p, tick) - p < tick
    BY <1>1, CeilIsCeil DEF Amount
  <2> QED BY <1>3, <2>1, <2>2, <2>3 DEF tick
<1> QED BY <1>2, <1>3

\* pricing.py, floor_to_tick - a stop is never above the level asked for, never
\* a whole tick below it, and on the grid.
THEOREM StopOnSafeSide ==
  ASSUME NEW p \in Nat, NEW market \in {"KR", "US"}, NEW security \in Security
  PROVE  LET q == FloorToTick(p, market, security) IN
         /\ q \in Nat /\ ValidPrice(q, market, security)
         /\ q <= p /\ p - q < TickSize(p, market, security)
  BY PassiveOnSafeSide DEF RoundPassive, FloorToTick

\* risk.py, calculate_rr - the promised ratio is taken at the worst price of the
\* buy zone: a better fill is worth at least as much for its risk.
THEOREM BetterFillBetterRatio ==
  ASSUME NEW entry \in Nat, NEW fill \in Nat, NEW stop \in Nat, NEW target \in Nat,
         stop < fill, fill <= entry, stop <= target
  PROVE  AtLeast(Ratio(fill, stop, target), Ratio(entry, stop, target))
  BY DEF AtLeast, Ratio

-----------------------------------------------------------------------------
(* The size *)

LEMMA QuotientFits ==
  ASSUME NEW a \in Nat, NEW d \in Amount
  PROVE  a \div d \in Nat /\ (a \div d) * d <= a
  BY DEF Amount

\* A budget of so many hundredths of a base, cut into pieces.
LEMMA ShareFits ==
  ASSUME NEW base \in Nat, NEW percent \in Nat, NEW piece \in Amount, NEW n \in Nat,
         n <= ((base * percent) \div 100) \div piece
  PROVE  n * piece * 100 <= base * percent
<1> DEFINE whole == base * percent
           budget == whole \div 100
           most == budget \div piece
<1>1. whole \in Nat
  OBVIOUS
<1> HIDE DEF whole
<1>2. budget \in Nat /\ budget * 100 <= whole
  BY <1>1
<1> HIDE DEF budget
<1>3. most \in Nat /\ most * piece <= budget
  BY <1>2, QuotientFits
<1>4. n <= most
  BY DEF most, budget, whole
<1> HIDE DEF most
<1>5. n * piece <= most * piece
  BY <1>3, <1>4 DEF Amount
<1>6. n * piece \in Nat /\ most * piece \in Nat
  BY <1>3 DEF Amount
<1>7. n * piece <= budget
  BY <1>2, <1>3, <1>5, <1>6
<1>8. n * piece * 100 <= whole
  BY <1>2, <1>1, <1>6, <1>7
<1> QED BY <1>8 DEF whole

\* A balance the broker answered with.
Account == [known : BOOLEAN, cash : Nat, total : Nat, securities : Nat, portfolio : Nat]

\* auto/sizing.py, compute_position_size - whatever the balance, the plan and the
\* settings, the shares fit the usable cash, lose at most the risk budget between
\* entry and stop, and stay within the cap when there is one.
THEOREM SizeFitsBudget ==
  ASSUME NEW b \in Account, NEW entry \in Nat, NEW stop \in Nat,
         NEW risk \in Nat, NEW cap \in Nat
  PROVE  LET n == PositionSize(b, entry, stop, risk, cap) IN
         /\ n \in Nat
         /\ n * entry <= UsableCash(b)
         /\ n > 0 => n * (entry - stop) * 100 <= SizingBase(b) * risk
         /\ n > 0 /\ cap > 0 => n * entry * 100 <= SizingBase(b) * cap
<1> DEFINE n == PositionSize(b, entry, stop, risk, cap)
<1>1. UsableCash(b) \in Nat /\ SizingBase(b) \in Nat
  BY DEF UsableCash, SizingBase, Account
<1>2. CASE ~ b.known \/ risk <= 0 \/ entry <= 0 \/ stop <= 0 \/ entry <= stop
  <2>1. n = 0
    BY <1>2 DEF PositionSize
  <2> QED BY <2>1, <1>1
<1>3. CASE ~ (~ b.known \/ risk <= 0 \/ entry <= 0 \/ stop <= 0 \/ entry <= stop)
  <2> DEFINE cash   == UsableCash(b)
             base   == SizingBase(b)
             byRisk == ((base * risk) \div 100) \div (entry - stop)
             byCash == cash \div entry
             byCap  == ((base * cap) \div 100) \div entry
  <2>1. entry \in Amount /\ entry - stop \in Amount
    BY <1>3 DEF Amount
  <2>2. n = LET size == AtLeastZero(Lower(byRisk, byCash))
            IN  IF cap > 0 THEN AtLeastZero(Lower(size, byCap)) ELSE size
    BY <1>3 DEF PositionSize
  <2> HIDE DEF n
  <2>3. cash \in Nat /\ base \in Nat
    BY <1>1
  <2> HIDE DEF cash, base
  <2>4. base * risk \in Nat /\ base * cap \in Nat
    BY <2>3
  <2>5. byRisk \in Nat
    <3>1. (base * risk) \div 100 \in Nat
      BY <2>4
    <3> QED BY <3>1, <2>1, QuotientFits
  <2>6. byCap \in Nat
    <3>1. (base * cap) \div 100 \in Nat
      BY <2>4
    <3> QED BY <3>1, <2>1, QuotientFits
  <2>7. byCash \in Nat /\ byCash * entry <= cash
    BY <2>1, <2>3, QuotientFits
  <2>8. n \in Nat /\ n <= byRisk /\ n <= byCash /\ (cap > 0 => n <= byCap)
    <3> HIDE DEF byRisk, byCash, byCap
    <3> QED BY <2>2, <2>5, <2>6, <2>7 DEF AtLeastZero, Lower
  <2>9. n * (entry - stop) * 100 <= base * risk
    BY <2>1, <2>3, <2>8, ShareFits
  <2>10. cap > 0 => n * entry * 100 <= base * cap
    BY <2>1, <2>3, <2>8, ShareFits
  <2>11. n * entry <= cash
    <3> HIDE DEF byCash
    <3>1. n * entry <= byCash * entry
      BY <2>1, <2>7, <2>8 DEF Amount
    <3>2. n * entry \in Nat /\ byCash * entry \in Nat
      BY <2>1, <2>7, <2>8 DEF Amount
    <3> QED BY <3>1, <3>2, <2>3, <2>7
  <2> QED BY <2>8, <2>9, <2>10, <2>11 DEF n, cash, base
<1> QED BY <1>2, <1>3

\* auto/orchestrator.py, the pre-flight - what passes it leaves half a per cent
\* of the cost in the account, also for a quantity fixed by the operator.
THEOREM PreflightLeavesRoom ==
  ASSUME NEW b \in Account, NEW entry \in Nat, NEW quantity \in Nat, NEW cap \in Nat,
         b.known, Preflight(b, entry, quantity, cap)
  PROVE  /\ 201 * entry * quantity <= 200 * UsableCash(b)
         /\ quantity * entry <= UsableCash(b)
<1>1. UsableCash(b) \in Nat
  BY DEF UsableCash, Account
<1>2. 201 * entry * quantity <= 200 * UsableCash(b)
  BY DEF Preflight
<1>3. entry * quantity \in Nat /\ quantity * entry = entry * quantity
      /\ 201 * entry * quantity = 201 * (entry * quantity)
  OBVIOUS
<1> QED BY <1>1, <1>2, <1>3
-----------------------------------------------------------------------------
(* The prices that leave the bot *)

\* A question once asked stays, and its answer is the code's.
Answered(kind, value) == question.kind = kind /\ answer = [kind |-> kind, value |-> value]

Priced ==
  \/ answer.kind \notin {"order", "stop", "pair"}
  \/ AskOrder /\ Answered("order", Submitted(question, question.settings))
  \/ AskStop /\ Answered("stop",
       Created(ProtectiveStopRequest(question.market, question.security, 1, question.price),
               AllSettings))
  \/ AskPair /\ Answered("pair", Created(question, AllSettings))

PriceInv ==
  /\ question.kind = "order" => AskOrder
  /\ question.kind = "stop" => AskStop
  /\ question.kind = "pair" => AskPair
  /\ Priced

LEMMA InitPriced == Init => PriceInv
<1> SUFFICES ASSUME Init PROVE PriceInv
  OBVIOUS
<1>1. Priced
  BY DEF Init, NoAnswer, Priced
<1>2. CASE AskOrder
  <2>1. question.kind = "order"
    BY <1>2 DEF AskOrder
  <2> QED BY <1>1, <1>2, <2>1 DEF PriceInv
<1>3. CASE AskStop
  <2>1. question.kind = "stop"
    BY <1>3 DEF AskStop
  <2> QED BY <1>1, <1>3, <2>1 DEF PriceInv
<1>4. CASE AskPair
  <2>1. question.kind = "pair"
    BY <1>4 DEF AskPair
  <2> QED BY <1>1, <1>4, <2>1 DEF PriceInv
<1>5. CASE \/ AskSize \/ AskHours \/ AskLoss \/ AskBook \/ AskSignal \/ AskBanner \/ AskGates
  <2>1. question.kind \notin {"order", "stop", "pair"}
    <3>1. CASE AskSize
      BY <3>1 DEF AskSize
    <3>2. CASE AskHours
      BY <3>2 DEF AskHours
    <3>3. CASE AskLoss
      BY <3>3 DEF AskLoss
    <3>4. CASE AskBook
      BY <3>4 DEF AskBook
    <3>5. CASE AskSignal
      BY <3>5 DEF AskSignal
    <3>6. CASE AskBanner
      BY <3>6 DEF AskBanner
    <3>7. CASE AskGates
      BY <3>7 DEF AskGates
    <3> QED BY <1>5, <3>1, <3>2, <3>3, <3>4, <3>5, <3>6, <3>7
  <2> QED BY <1>1, <2>1 DEF PriceInv
<1> QED BY <1>2, <1>3, <1>4, <1>5 DEF Init

\* What a question asks does not change, and only the three answers that carry
\* a price matter.
LEMMA NextPriced == PriceInv /\ [Next]_vars => PriceInv'
<1> SUFFICES ASSUME PriceInv, [Next]_vars PROVE PriceInv'
  OBVIOUS
<1>1. question' = question
  BY DEF Next, vars, Reply, PlaceOrder, PlaceStop, PlacePair, SizePosition, TellHours,
         TellLoss, ReadBook, Analyse, ShowBanner, ShowGates
<1>2. (AskOrder => AskOrder') /\ (AskStop => AskStop') /\ (AskPair => AskPair')
  BY <1>1 DEF AskOrder, AskStop, AskPair
<1>3. Priced'
  <2>1. CASE UNCHANGED vars
    BY <2>1, <1>2 DEF PriceInv, Priced, Answered, vars
  <2>2. CASE PlaceOrder
    BY <2>2, <1>1, <1>2 DEF PlaceOrder, Reply, PriceInv, Priced, Answered
  <2>3. CASE PlaceStop
    BY <2>3, <1>1, <1>2 DEF PlaceStop, Reply, PriceInv, Priced, Answered
  <2>4. CASE PlacePair
    BY <2>4, <1>1, <1>2 DEF PlacePair, Reply, PriceInv, Priced, Answered
  <2>5. CASE \/ SizePosition \/ TellHours \/ TellLoss \/ ReadBook \/ Analyse \/ ShowBanner
             \/ ShowGates
    <3>1. answer'.kind \in {"size", "hours", "loss", "book", "signal", "banner", "gates"}
      BY <2>5 DEF SizePosition, TellHours, TellLoss, ReadBook, Analyse, ShowBanner, ShowGates,
                  Reply
    <3> QED BY <3>1 DEF Priced
  <2> QED BY <2>1, <2>2, <2>3, <2>4, <2>5 DEF Next
<1> QED BY <1>1, <1>2, <1>3 DEF PriceInv

\* A leg's price, rounded either way, is on the grid and on its side.
LEMMA LegOnGrid ==
  ASSUME NEW p \in Nat, NEW market \in {"KR", "US"}, NEW security \in Security,
         NEW side \in {"buy", "sell"}
  PROVE  LET q == RoundAggressive(p, market, side, security) IN
         /\ q \in Nat /\ ValidPrice(q, market, security)
         /\ side = "sell" => q <= p
  BY TickIsAmount, FloorIsFloor, CeilIsCeil, DownStaysOnGrid, UpStaysOnGrid
     DEF RoundAggressive, FloorToTick

\* broker/toss.py, normalize_order and _submit_order.
LEMMA OrderPriced ==
  ASSUME AskOrder, answer = [kind |-> "order", value |-> Submitted(question, question.settings)]
  PROVE  PriceOnSafeSide
<1> USE DecisionsAssumption
<1>1. PICK m \in Market, s \in Side, k \in Security, p \in Prices, set \in Settings, n \in {1, 100} :
         question = [kind |-> "order", market |-> m, side |-> s, security |-> k, price |-> p,
                     quantity |-> n, type |-> "LIMIT", settings |-> set]
  BY DEF AskOrder
<1> DEFINE q == RoundPassive(p, m, s, k)
<1>2. Normalized(question).price = q /\ Normalized(question).type = "LIMIT"
  BY <1>1 DEF Normalized
<1>3. answer.value.sent => answer.value.price = q /\ q > 0
  BY <1>1, <1>2 DEF Submitted, Refused, Sendable
<1>4. /\ q \in Nat /\ ValidPrice(q, m, k)
      /\ IF s = "buy" THEN q <= p ELSE q >= p
  BY PassiveOnSafeSide DEF Market, Side
<1> QED BY <1>1, <1>3, <1>4 DEF PriceOnSafeSide, Sent

\* auto/protective_stops.py through broker/toss.py, _protective_stop_request.
LEMMA StopPriced ==
  ASSUME AskStop,
         answer = [kind |-> "stop", value |->
           Created(ProtectiveStopRequest(question.market, question.security, 1, question.price),
                   AllSettings)]
  PROVE  PriceOnSafeSide
<1> USE DecisionsAssumption
<1>1. PICK m \in Market, k \in Security, p \in Prices :
         question = [kind |-> "stop", market |-> m, security |-> k, price |-> p]
  BY DEF AskStop
<1> DEFINE r == ProtectiveStopRequest(m, k, 1, p)
           q == FloorToTick(p, m, k)
<1>2. Leg(r, r.first, "first").trigger = q
  BY DEF ProtectiveStopRequest, Leg, Aggressive, RoundAggressive, FloorToTick
<1>3. answer.value = Conditional(r)
  BY <1>1 DEF Created, AllSettings
<1>4. answer.value.sent => answer.value.first.trigger = q /\ q > 0
  BY <1>2, <1>3 DEF Conditional, LegFits, Refused, Sendable
<1>5. /\ q \in Nat /\ ValidPrice(q, m, k)
      /\ q <= p /\ p - q < TickSize(p, m, k)
  BY StopOnSafeSide DEF Market
<1> QED BY <1>1, <1>4, <1>5 DEF PriceOnSafeSide, Sent

\* broker/toss.py, _conditional_payload with two legs.
LEMMA PairPriced ==
  ASSUME AskPair, answer = [kind |-> "pair", value |-> Created(question, AllSettings)]
  PROVE  PriceOnSafeSide
<1> USE DecisionsAssumption
<1>1. PICK m \in Market, st \in {"OCO", "OTO"}, s1 \in Side, s2 \in Side,
           p \in Prices, q \in Prices, r \in Prices :
         question = [kind |-> "pair", strategy |-> st, market |-> m, security |-> "STOCK",
                     quantity |-> 1, type |-> "LIMIT", expired |-> FALSE, key |-> "good",
                     first  |-> [side |-> s1, trigger |-> p, price |-> p, aggressive |-> FALSE],
                     second |-> [side |-> s2, trigger |-> q, price |-> r, aggressive |-> FALSE]]
  BY DEF AskPair
<1> DEFINE up == Leg(question, question.first, "first")
           down == Leg(question, question.second, "second")
<1>2. question.second # NoLeg
  BY <1>1 DEF NoLeg, Side
<1>3. answer.value = Conditional(question)
  BY DEF Created, AllSettings
<1>4. SUFFICES ASSUME answer.value.sent PROVE PriceOnSafeSide
  BY DEF PriceOnSafeSide, Sent
<1>5. /\ answer.value.first = up /\ answer.value.second = down
      /\ WellFormed(question)
      /\ LegFits(question, question.first, "first")
      /\ LegFits(question, question.second, "second")
      /\ st = "OCO" => ~ (up.trigger <= down.trigger) /\ ~ (down.price > down.trigger)
  BY <1>1, <1>2, <1>3, <1>4 DEF Conditional, Refused
<1>6. /\ p > 0 /\ q > 0 /\ r > 0
      /\ up.trigger > 0 /\ up.price > 0 /\ down.trigger > 0 /\ down.price > 0
  BY <1>1, <1>5 DEF LegFits, Sendable
<1>7. st = "OCO" => s1 = "sell" /\ s2 = "sell"
  BY <1>1, <1>5 DEF WellFormed
<1>8. /\ up.trigger = RoundPassive(p, m, s1, "STOCK")
      /\ up.price = RoundPassive(p, m, s1, "STOCK")
  BY <1>1, <1>6 DEF Leg, Aggressive
<1>9. /\ m \in {"KR", "US"} /\ "STOCK" \in Security /\ s1 \in {"buy", "sell"}
       /\ s2 \in {"buy", "sell"} /\ p \in Nat /\ q \in Nat /\ r \in Nat
  BY <1>1 DEF Market, Side, Security
<1>10. LET x == RoundPassive(p, m, s1, "STOCK") IN
       /\ x \in Nat /\ ValidPrice(x, m, "STOCK")
       /\ IF s1 = "buy" THEN x <= p ELSE x >= p
  BY <1>9, PassiveOnSafeSide
<1>11. CASE st = "OCO"
  <2>1. /\ down.trigger = RoundAggressive(q, m, s2, "STOCK")
        /\ down.price = RoundAggressive(r, m, s2, "STOCK")
    BY <1>1, <1>6, <1>11 DEF Leg, Aggressive
  <2>2. /\ up.trigger \in Nat /\ ValidPrice(up.trigger, m, "STOCK")
        /\ up.price \in Nat /\ ValidPrice(up.price, m, "STOCK") /\ up.price >= p
    <3> HIDE DEF up
    <3> QED BY <1>7, <1>8, <1>11, <1>10
  <2>3. /\ down.trigger \in Nat /\ ValidPrice(down.trigger, m, "STOCK")
        /\ down.price \in Nat /\ ValidPrice(down.price, m, "STOCK") /\ down.trigger <= q
    <3>1. LET x == RoundAggressive(q, m, s2, "STOCK") IN
          x \in Nat /\ ValidPrice(x, m, "STOCK") /\ (s2 = "sell" => x <= q)
      BY <1>9, LegOnGrid
    <3>2. LET x == RoundAggressive(r, m, s2, "STOCK") IN
          x \in Nat /\ ValidPrice(x, m, "STOCK")
      BY <1>9, LegOnGrid
    <3> HIDE DEF down
    <3> QED BY <1>7, <1>11, <2>1, <3>1, <3>2
  <2>4. down.price <= down.trigger /\ down.trigger < up.trigger
    BY <1>5, <1>11, <2>2, <2>3
  <2> HIDE DEF up, down
  <2> QED BY <1>1, <1>5, <1>6, <2>2, <2>3, <2>4 DEF PriceOnSafeSide, Sent
<1>12. CASE st = "OTO"
  <2>1. /\ down.trigger = RoundPassive(q, m, s2, "STOCK")
        /\ down.price = RoundPassive(r, m, s2, "STOCK")
    BY <1>1, <1>6, <1>12 DEF Leg, Aggressive
  <2>2. /\ ValidPrice(up.trigger, m, "STOCK") /\ ValidPrice(up.price, m, "STOCK")
        /\ ValidPrice(down.trigger, m, "STOCK") /\ ValidPrice(down.price, m, "STOCK")
    <3>1. /\ ValidPrice(RoundPassive(q, m, s2, "STOCK"), m, "STOCK")
          /\ ValidPrice(RoundPassive(r, m, s2, "STOCK"), m, "STOCK")
      BY <1>9, PassiveOnSafeSide
    <3> HIDE DEF up, down
    <3> QED BY <1>8, <1>10, <2>1, <3>1
  <2> HIDE DEF up, down
  <2> QED BY <1>1, <1>5, <1>6, <1>12, <2>2 DEF PriceOnSafeSide, Sent
<1> QED BY <1>11, <1>12

LEMMA PricedSafe == PriceInv => PriceOnSafeSide
<1> SUFFICES ASSUME PriceInv PROVE PriceOnSafeSide
  OBVIOUS
<1>1. CASE answer.kind \notin {"order", "stop", "pair"}
  BY <1>1 DEF PriceOnSafeSide, Sent
<1> QED BY <1>1, OrderPriced, StopPriced, PairPriced DEF PriceInv, Priced, Answered

\* Every order, protective stop and pair of legs that is sent has prices the
\* exchange takes, on the safe side of the ones asked for: for every set of prices.
THEOREM PricesOnSafeSide == Spec => []PriceOnSafeSide
<1>1. Init => PriceInv
  BY InitPriced
<1>2. PriceInv /\ [Next]_vars => PriceInv'
  BY NextPriced
<1>3. PriceInv => PriceOnSafeSide
  BY PricedSafe
<1> QED BY <1>1, <1>2, <1>3, PTL DEF Spec

-----------------------------------------------------------------------------
(* Sessions *)

\* The windows the venue really trades in.
RealWindows(days) == {Window(days, d) : d \in {e \in DOMAIN days : Trades(days, e)}}

LEMMA LeastIsFound ==
  ASSUME NEW S \in SUBSET Nat, S # {}
  PROVE  Min(S) \in S
<1>1. \E m \in S : \A n \in S : ~ (n < m)
  <2>1. PICK m \in S : \A n \in S : <<n, m>> \notin OpToRel(<, Nat)
    BY NatLessThanWellFounded, WFMin
  <2> QED BY <2>1 DEF OpToRel
<1>2. \E m \in S : \A n \in S : m <= n
  BY <1>1
<1> QED BY <1>2 DEF Min

LEMMA GreatestIsFound ==
  ASSUME NEW S \in SUBSET Nat, S # {}, NEW top \in Nat, \A n \in S : n < top
  PROVE  Max(S) \in S
<1> DEFINE below == {k \in Nat : top - k \in S}
<1>1. below \in SUBSET Nat /\ below # {}
  <2>1. PICK n0 \in S : TRUE
    OBVIOUS
  <2>2. top - n0 \in Nat /\ top - (top - n0) = n0
    OBVIOUS
  <2> QED BY <2>1, <2>2
<1>2. PICK k \in below : \A j \in below : ~ (j < k)
  <2>1. \E m \in below : \A j \in below : <<j, m>> \notin OpToRel(<, Nat)
    BY <1>1, NatLessThanWellFounded, WFMin
  <2> QED BY <1>1, <2>1 DEF OpToRel
<1>3. top - k \in S /\ k \in Nat
  BY <1>2
<1>4. ASSUME NEW n \in S PROVE top - k >= n
  <2>1. top - n \in Nat /\ top - (top - n) = n
    OBVIOUS
  <2>2. top - n \in below
    BY <2>1
  <2>3. ~ (top - n < k)
    BY <1>2, <2>2
  <2> QED BY <1>3, <2>1, <2>3
<1> QED BY <1>3, <1>4 DEF Max

\* What a fetch brings is real, whatever the payload leaves out.
LEMMA FetchIsReal ==
  ASSUME NEW days, DOMAIN days \subseteq Nat, NEW t \in Nat, NEW payload
  PROVE  Fetch(days, t, payload) \subseteq RealWindows(days)
<1>1. DayOf(t) \in Nat
  BY DEF DayOf, Slots
<1>2. PICK today \in Nat : today = DayOf(t)
  BY <1>1
<1>3. Listed(days, today) \subseteq {e \in DOMAIN days : Trades(days, e)}
  <2> DEFINE past == {d \in DOMAIN days : d < today /\ Trades(days, d)}
             next == {d \in DOMAIN days : d > today /\ Trades(days, d)}
  <2>1. past # {} => Max(past) \in past
    BY GreatestIsFound
  <2>2. next # {} => Min(next) \in next
    BY LeastIsFound
  <2>3. Trades(days, today) => today \in DOMAIN days
    BY DEF Trades
  <2> QED BY <2>1, <2>2, <2>3 DEF Listed
<1> QED BY <1>2, <1>3 DEF Fetch, RealWindows

\* An instant of a real window is in session.
LEMMA CoveredIsSession ==
  ASSUME NEW days, DOMAIN days \subseteq Nat, NEW t \in Nat
  PROVE  /\ (\E w \in RealWindows(days) : Covers(w, t)) => InSession(days, t)
         /\ Trades(days, DayOf(t)) /\ SlotOf(t) >= OpenSlot
              /\ SlotOf(t) < CloseSlot(days[DayOf(t)]) <=> InSession(days, t)
<1>1. ASSUME NEW d \in Nat, NEW n \in {4, 5}, d * Slots + OpenSlot <= t, t < d * Slots + n
      PROVE  DayOf(t) = d
  BY <1>1 DEF DayOf, Slots, OpenSlot
<1>2. ASSUME NEW d PROVE CloseSlot(days[d]) \in {4, 5}
  BY DEF CloseSlot
<1>3. ASSUME NEW w \in RealWindows(days), Covers(w, t) PROVE InSession(days, t)
  <2>1. PICK d \in DOMAIN days : Trades(days, d) /\ w = Window(days, d)
    BY DEF RealWindows
  <2>2. d * Slots + OpenSlot <= t /\ t < d * Slots + CloseSlot(days[d])
    BY <1>3, <2>1 DEF Window, Covers
  <2>3. DayOf(t) = d
    BY <1>1, <1>2, <2>2
  <2> QED BY <1>3, <2>1, <2>3 DEF InSession
<1>4. PICK d \in Nat, n \in {4, 5} : d = DayOf(t) /\ n = CloseSlot(days[DayOf(t)])
  BY <1>2 DEF DayOf, Slots
<1>5. t = d * Slots + SlotOf(t) /\ SlotOf(t) \in Nat
  BY <1>4 DEF DayOf, SlotOf, Slots
<1>6. SlotOf(t) >= OpenSlot /\ SlotOf(t) < n
        <=> d * Slots + OpenSlot <= t /\ t < d * Slots + n
  BY <1>5 DEF Slots, OpenSlot
<1>7. Covers(Window(days, d), t) <=> d * Slots + OpenSlot <= t /\ t < d * Slots + n
  BY <1>4 DEF Covers, Window
<1> QED BY <1>3, <1>4, <1>6, <1>7 DEF InSession

\* market_hours.py, market_status - for every year, calendar and instant: with
\* windows the venue really trades in, open means in session, except for a closure
\* only the venue knows of when it gave none; a session known to the table, and to
\* the calendar if there is one, is not missed; and the next opening lies ahead.
THEOREM StatusInSession ==
  ASSUME NEW days, DOMAIN days \subseteq Nat, NEW windows \in SUBSET RealWindows(days),
         NEW verified \in BOOLEAN, NEW extra, NEW t \in Nat
  PROVE  LET s == Status(windows, days, verified, extra, t)
             d == DayOf(t) IN
         /\ s.open =>
              /\ \/ InSession(days, t)
                 \/ days[d] = "special" /\ \A w \in windows : w.start <= t
              /\ d \notin extra
              /\ ~ verified => windows # {}
         /\ InSession(days, t) /\ verified /\ d \notin extra
              /\ (windows = {} \/ \E w \in windows : Covers(w, t)) => s.open
         /\ ~ s.open => s.next = -1 \/ s.next > t
<1>1. PICK d \in Nat : d = DayOf(t)
  BY DEF DayOf, Slots
<1>2. PICK table : table = TableStatus(days, verified, extra, t)
  OBVIOUS
<1>3. ASSUME NEW e \in Nat, e > d PROVE e * Slots + OpenSlot > t
  BY <1>1, <1>3 DEF DayOf, Slots, OpenSlot
<1>4. NextTableOpen(days, extra, d) = -1 \/ NextTableOpen(days, extra, d) > t
  <2> DEFINE later == {e \in DOMAIN days : e > d /\ e <= d + 14 /\ TableTrades(days, e) /\ e \notin extra}
  <2>1. CASE later = {}
    BY <2>1 DEF NextTableOpen
  <2>2. CASE later # {}
    <3>1. Min(later) \in later
      BY <2>2, LeastIsFound
    <3>2. Min(later) * Slots + OpenSlot > t
      BY <1>3, <3>1
    <3> QED BY <2>2, <3>2 DEF NextTableOpen
  <2> QED BY <2>1, <2>2
<1>5. /\ table.open => /\ verified /\ d \notin extra /\ TableTrades(days, d)
                       /\ SlotOf(t) >= OpenSlot /\ SlotOf(t) < CloseSlot(days[d])
      /\ verified /\ d \notin extra /\ TableTrades(days, d)
           /\ SlotOf(t) >= OpenSlot /\ SlotOf(t) < CloseSlot(days[d]) => table.open
  <2>1. SlotOf(t) \in Int /\ CloseSlot(days[d]) \in Int /\ OpenSlot \in Int
    BY DEF SlotOf, Slots, CloseSlot, OpenSlot
  <2> QED BY <1>1, <1>2, <2>1 DEF TableStatus, Closed, Open
<1>6. ~ table.open => table.next = -1 \/ table.next > t
  <2>1. SlotOf(t) < OpenSlot => d * Slots + OpenSlot > t
    BY <1>1 DEF SlotOf, DayOf, Slots, OpenSlot
  <2> QED BY <1>1, <1>2, <1>4, <2>1 DEF TableStatus, Closed, Open
<1>7. TableTrades(days, d) => Trades(days, d) \/ days[d] = "special"
  BY DEF TableTrades, Trades
<1>8. Trades(days, d) => TableTrades(days, d) /\ days[d] # "holiday"
  BY DEF TableTrades, Trades
<1> DEFINE upcoming == Upcoming(windows, t)
<1>9. /\ upcoming # {} => Min(upcoming) > t
      /\ upcoming = {} => \A w \in windows : w.start <= t
  <2>1. ASSUME NEW w \in windows PROVE w.start \in Nat
    BY DEF RealWindows, Window, Slots, OpenSlot
  <2>2. upcoming \in SUBSET Nat
    BY <2>1 DEF Upcoming
  <2>3. \A n \in upcoming : n > t
    BY DEF Upcoming
  <2>4. upcoming = {} => \A w \in windows : ~ (w.start > t)
    BY DEF Upcoming
  <2> QED BY <2>1, <2>2, <2>3, <2>4, LeastIsFound
<1>10. (\E w \in windows : Covers(w, t)) => InSession(days, t)
  BY CoveredIsSession
<1>11. Trades(days, d) /\ SlotOf(t) >= OpenSlot /\ SlotOf(t) < CloseSlot(days[d])
         <=> InSession(days, t)
  BY <1>1, CoveredIsSession
<1> DEFINE s == Status(windows, days, verified, extra, t)
<1>12. CASE windows = {}
  <2>1. s = table
    BY <1>2, <1>12 DEF Status
  <2> HIDE DEF s
  <2>2. s.open => (InSession(days, t) \/ days[d] = "special") /\ d \notin extra /\ verified
    BY <1>5, <1>7, <1>11, <2>1
  <2>3. InSession(days, t) /\ verified /\ d \notin extra => s.open
    BY <1>5, <1>8, <1>11, <2>1
  <2> QED BY <1>1, <1>6, <1>12, <2>1, <2>2, <2>3 DEF s
<1>13. CASE windows # {} /\ (d \in extra \/ (d \in DOMAIN days /\ days[d] = "holiday" /\ verified))
  <2>1. s = Closed(IF upcoming = {} THEN -1 ELSE Min(upcoming))
    BY <1>1, <1>13 DEF Status
  <2>2. ~ s.open /\ (s.next = -1 \/ s.next > t)
    BY <1>9, <2>1 DEF Closed
  <2>3. ~ (InSession(days, t) /\ verified /\ d \notin extra)
    BY <1>8, <1>11, <1>13
  <2> QED BY <1>1, <2>2, <2>3
<1>14. CASE /\ windows # {} /\ d \notin extra
            /\ ~ (d \in DOMAIN days /\ days[d] = "holiday" /\ verified)
  <2>1. CASE \E w \in windows : Covers(w, t)
    <3>1. s = Open
      BY <1>1, <1>14, <2>1 DEF Status
    <3> QED BY <1>1, <1>10, <1>14, <2>1, <3>1 DEF Open
  <2>2. CASE ~ (\E w \in windows : Covers(w, t)) /\ upcoming = {}
    <3>1. s = table
      BY <1>1, <1>2, <1>14, <2>2 DEF Status
    <3> HIDE DEF s
    <3>2. s.open => (InSession(days, t) \/ days[d] = "special")
      BY <1>5, <1>7, <1>11, <3>1
    <3> QED BY <1>1, <1>6, <1>9, <1>14, <2>2, <3>1, <3>2 DEF s
  <2>3. CASE ~ (\E w \in windows : Covers(w, t)) /\ upcoming # {}
    <3>1. s = Closed(Min(upcoming))
      BY <1>1, <1>14, <2>3 DEF Status
    <3>2. ~ s.open /\ s.next > t
      BY <1>9, <2>3, <3>1 DEF Closed
    <3> QED BY <1>14, <2>3, <3>2
  <2> QED BY <2>1, <2>2, <2>3
<1> QED BY <1>12, <1>13, <1>14

\* A question about the hours is about a calendar the venue has, and what the cache
\* holds was really fetched.
HoursAsked ==
  /\ question.kind = "hours"
  /\ question.days \in Calendars /\ question.t \in Nat
  /\ question.verified \in BOOLEAN
  /\ question.cache.windows \in SUBSET RealWindows(question.days)

LEMMA AskedHours == AskHours => HoursAsked
<1> SUFFICES ASSUME AskHours PROVE HoursAsked
  OBVIOUS
<1>1. PICK days \in Calendars, t \in Slots .. 3 * Slots - 1, age \in {1, 2} :
        \E payload, now \in {DOMAIN days, {DayOf(t)}, {DayOf(t) + 1}, {}},
           verified \in BOOLEAN, extra \in {{}, {DayOf(t)}} :
          question = [kind |-> "hours", days |-> days, t |-> t, verified |-> verified,
                      extra |-> extra, now |-> now,
                      cache |-> [at |-> t - age, windows |-> Fetch(days, t - age, payload)]]
  BY DEF AskHours
<1>2. PICK payload \in {DOMAIN days, {DayOf(t)}, {DayOf(t) + 1}, {}},
           now \in {DOMAIN days, {DayOf(t)}, {DayOf(t) + 1}, {}},
           verified \in BOOLEAN, extra \in {{}, {DayOf(t)}} :
        question = [kind |-> "hours", days |-> days, t |-> t, verified |-> verified,
                    extra |-> extra, now |-> now,
                    cache |-> [at |-> t - age, windows |-> Fetch(days, t - age, payload)]]
  BY <1>1
<1>3. DOMAIN days \subseteq Nat /\ t \in Nat /\ t - age \in Nat
  BY HoursAssumption DEF Slots
<1>4. Fetch(days, t - age, payload) \subseteq RealWindows(days)
  BY <1>3, FetchIsReal
<1> QED BY <1>2, <1>3, <1>4 DEF HoursAsked

-----------------------------------------------------------------------------
(* Answers that carry no price *)

Kinds == {"size", "hours", "loss", "book", "signal", "banner", "gates"}

HoursTold ==
  Status(Sessions(question.cache, question.days, question.t, question.now),
         question.days, question.verified, question.extra, question.t)

BookTold ==
  LET rows == question.rows
  IN  [held  |-> Reported(rows), cash |-> CashLeft(rows),
       fills |-> [i \in DOMAIN rows |-> Fill(rows, rows[i].id)]]

Told ==
  \/ answer.kind \notin Kinds
  \/ AskSize /\ Answered("size", Sized(question))
  \/ HoursAsked /\ Answered("hours", HoursTold)
  \/ AskLoss /\ Answered("loss", LossExceeded(question.sells, question.base, question.limit))
  \/ AskBook /\ Answered("book", BookTold)
  \/ AskSignal /\ Answered("signal", [total |-> Total(question.facts),
                                      bought |-> Bought(question.facts)])
  \/ AskBanner /\ Answered("banner", Level(question.state))
  \/ AskGates /\ Answered("gates", [panel |-> PanelGate(question.row),
                                    sweep |-> SweepGate(question.row)])

ToldInv ==
  /\ question.kind = "size" => AskSize
  /\ question.kind = "hours" => HoursAsked
  /\ question.kind = "loss" => AskLoss
  /\ question.kind = "book" => AskBook
  /\ question.kind = "signal" => AskSignal
  /\ question.kind = "banner" => AskBanner
  /\ question.kind = "gates" => AskGates
  /\ Told

\* Each way of asking has its kind.
LEMMA KindsApart ==
  /\ AskOrder \/ AskStop \/ AskPair => question.kind \notin Kinds
  /\ AskSize => question.kind = "size"
  /\ AskHours => question.kind = "hours"
  /\ AskLoss => question.kind = "loss"
  /\ AskBook => question.kind = "book"
  /\ AskSignal => question.kind = "signal"
  /\ AskBanner => question.kind = "banner"
  /\ AskGates => question.kind = "gates"
<1>1. AskOrder => question.kind \notin Kinds
  BY DEF AskOrder, Kinds
<1>2. AskStop => question.kind \notin Kinds
  BY DEF AskStop, Kinds
<1>3. AskPair => question.kind \notin Kinds
  BY DEF AskPair, Kinds
<1>4. (AskLoss => question.kind = "loss") /\ (AskBook => question.kind = "book")
  BY DEF AskLoss, AskBook
<1>5. AskSize => question.kind = "size"
  BY DEF AskSize
<1>6. AskHours => question.kind = "hours"
  BY DEF AskHours
<1>7. /\ AskSignal => question.kind = "signal"
      /\ AskBanner => question.kind = "banner"
      /\ AskGates => question.kind = "gates"
  BY DEF AskSignal, AskBanner, AskGates
<1> QED
  BY <1>1, <1>2, <1>3, <1>4, <1>5, <1>6, <1>7

LEMMA InitTold == Init => ToldInv
<1> SUFFICES ASSUME Init PROVE ToldInv
  OBVIOUS
<1>1. Told
  BY DEF Init, NoAnswer, Told, Kinds
<1> QED
  BY <1>1, KindsApart, AskedHours DEF Init, ToldInv, Kinds

LEMMA NextTold == ToldInv /\ [Next]_vars => ToldInv'
<1> SUFFICES ASSUME ToldInv, [Next]_vars PROVE ToldInv'
  OBVIOUS
<1>1. question' = question
  BY DEF Next, vars, Reply, PlaceOrder, PlaceStop, PlacePair, SizePosition, TellHours,
         TellLoss, ReadBook, Analyse, ShowBanner, ShowGates
<1>2. /\ (AskSize => AskSize') /\ (HoursAsked => HoursAsked') /\ (AskSignal => AskSignal')
      /\ (AskBanner => AskBanner') /\ (AskGates => AskGates')
      /\ (AskLoss => AskLoss') /\ (AskBook => AskBook')
  <2>1. AskSize => AskSize'
    BY <1>1 DEF AskSize
  <2>2. HoursAsked => HoursAsked'
    BY <1>1 DEF HoursAsked
  <2>3. (AskSignal => AskSignal') /\ (AskBanner => AskBanner') /\ (AskGates => AskGates')
    BY <1>1 DEF AskSignal, AskBanner, AskGates
  <2>4. (AskLoss => AskLoss') /\ (AskBook => AskBook')
    BY <1>1 DEF AskLoss, AskBook
  <2> QED BY <2>1, <2>2, <2>3, <2>4
<1>3. Told'
  <2>1. CASE UNCHANGED vars
    BY <2>1, <1>2 DEF ToldInv, Told, Answered, HoursTold, BookTold, vars
  <2>2. CASE SizePosition
    BY <2>2, <1>1, <1>2 DEF SizePosition, Reply, ToldInv, Told, Answered
  <2>3. CASE TellHours
    BY <2>3, <1>1, <1>2 DEF TellHours, Reply, ToldInv, Told, Answered, HoursTold
  <2>4. CASE Analyse
    BY <2>4, <1>1, <1>2 DEF Analyse, Reply, ToldInv, Told, Answered
  <2>5. CASE ShowBanner
    BY <2>5, <1>1, <1>2 DEF ShowBanner, Reply, ToldInv, Told, Answered
  <2>6. CASE ShowGates
    BY <2>6, <1>1, <1>2 DEF ShowGates, Reply, ToldInv, Told, Answered
  <2>7. CASE TellLoss
    BY <2>7, <1>1, <1>2 DEF TellLoss, Reply, ToldInv, Told, Answered
  <2>8. CASE ReadBook
    BY <2>8, <1>1, <1>2 DEF ReadBook, Reply, ToldInv, Told, Answered, BookTold
  <2>9. CASE PlaceOrder \/ PlaceStop \/ PlacePair
    <3>1. answer'.kind \in {"order", "stop", "pair"}
      BY <2>9 DEF PlaceOrder, PlaceStop, PlacePair, Reply
    <3> QED BY <3>1 DEF Told, Kinds
  <2> QED BY <2>1, <2>2, <2>3, <2>4, <2>5, <2>6, <2>7, <2>8, <2>9 DEF Next
<1> QED BY <1>1, <1>2, <1>3 DEF ToldInv

\* A question is one the behaviour can ask and does not change; an answer that carries
\* no price is what the code computes from it.
THEOREM AnswersAreTheCodes == Spec => []ToldInv
<1>1. Init => ToldInv
  BY InitTold
<1>2. ToldInv /\ [Next]_vars => ToldInv'
  BY NextTold
<1> QED BY <1>1, <1>2, PTL DEF Spec

-----------------------------------------------------------------------------
(* Hours *)

LEMMA HoursSound == HoursAsked /\ Answered("hours", HoursTold) => OpenOnlyInSession
<1> SUFFICES ASSUME HoursAsked, Answered("hours", HoursTold) PROVE OpenOnlyInSession
  OBVIOUS
<1> DEFINE extra == question.extra
<1>1. PICK days \in Calendars, t \in Nat, verified \in BOOLEAN :
        question.days = days /\ question.t = t /\ question.verified = verified
  BY DEF HoursAsked
<1> DEFINE windows == Sessions(question.cache, days, t, question.now)
<1>2. DOMAIN days \subseteq Nat
  BY HoursAssumption
<1>3. windows \in SUBSET RealWindows(days)
  <2>1. CASE Fresh(question.cache, t)
    BY <1>1, <2>1 DEF Sessions, HoursAsked
  <2>2. CASE ~ Fresh(question.cache, t)
    BY <1>1, <1>2, <2>2, FetchIsReal DEF Sessions
  <2> QED BY <2>1, <2>2
<1>4. answer.value = Status(windows, days, verified, extra, t)
  BY <1>1 DEF Answered, HoursTold
<1> HIDE DEF windows
<1> DEFINE s == Status(windows, days, verified, extra, t)
           d == DayOf(t)
<1>5. /\ s.open => /\ \/ InSession(days, t)
                      \/ days[d] = "special" /\ \A w \in windows : w.start <= t
                   /\ d \notin extra
                   /\ ~ verified => windows # {}
      /\ InSession(days, t) /\ verified /\ d \notin extra
           /\ (windows = {} \/ \E w \in windows : Covers(w, t)) => s.open
      /\ ~ s.open => s.next = -1 \/ s.next > t
  BY <1>2, <1>3, StatusInSession
<1> HIDE DEF s, d
<1> QED BY <1>1, <1>4, <1>5 DEF OpenOnlyInSession, s, d, windows

\* market_calendar.py, get_sessions and market_hours.py, market_status - for every
\* calendar, cached answer, instant and partial payload, the bot calls a market
\* open only in a session - but for a closure only the venue knows of, when its
\* calendar gave no window or none that opens later - and sleeps through no
\* session the table and the calendar both list.
THEOREM OpenInSession == Spec => []OpenOnlyInSession
<1>1. ToldInv => OpenOnlyInSession
  <2> SUFFICES ASSUME ToldInv PROVE OpenOnlyInSession
    OBVIOUS
  <2>1. CASE answer.kind # "hours"
    BY <2>1 DEF OpenOnlyInSession
  <2> QED BY <2>1, HoursSound DEF ToldInv, Told, Answered, Kinds
<1> QED BY <1>1, AnswersAreTheCodes, PTL

-----------------------------------------------------------------------------
(* A position *)

\* risk.py, build_trade_plan - the stop is at most 97.5 per cent of the close and the
\* first target not below it; the limit is within a unit of 101 per cent.
LEMMA PlanLevels ==
  ASSUME NEW c \in Chart60, c.low60 <= c.high60
  PROVE  /\ StopOf(c) \in Nat /\ 40 * StopOf(c) <= 39 * c.close
         /\ Target1Of(c) \in Nat /\ StopOf(c) <= Target1Of(c)
         /\ EntryHigh(c) \in Nat
         /\ 100 * EntryHigh(c) <= 101 * c.close /\ 101 * c.close < 100 * EntryHigh(c) + 100
<1>1. /\ c.close \in Nat /\ c.atr \in Nat /\ c.sma \in Nat /\ c.low20 \in Nat
      /\ c.high60 \in Nat /\ c.low60 \in Nat
  BY DEF Chart60
<1>2. StopOf(c) \in Nat /\ 40 * StopOf(c) <= 39 * c.close
  <2> DEFINE structural == (Lower(c.sma, c.low20) * 985) \div 1000
             widest == Lower(c.close - 2 * c.atr, structural)
             tight == (c.close * 975) \div 1000
             floor == (c.close * 93) \div 100
  <2>1. widest \in Int
    <3>1. Lower(c.sma, c.low20) \in Nat
      BY <1>1 DEF Lower
    <3>2. structural \in Int
      BY <3>1
    <3> HIDE DEF structural
    <3> QED BY <1>1, <3>2 DEF Lower
  <2>2. tight \in Nat /\ 1000 * tight <= 975 * c.close /\ floor \in Nat
    BY <1>1
  <2>3. StopOf(c) = Lower(Higher(widest, floor), tight)
    BY DEF StopOf
  <2> HIDE DEF widest, tight, floor
  <2>4. StopOf(c) \in Nat /\ StopOf(c) <= tight
    BY <2>1, <2>2, <2>3 DEF Lower, Higher
  <2> QED BY <1>1, <2>2, <2>4
<1>3. Target1Of(c) \in Nat /\ Target1Of(c) >= c.close
  BY <1>1 DEF Target1Of
<1>4. /\ EntryHigh(c) \in Nat
      /\ 100 * EntryHigh(c) <= 101 * c.close /\ 101 * c.close < 100 * EntryHigh(c) + 100
  BY <1>1 DEF EntryHigh
<1> QED BY <1>1, <1>2, <1>3, <1>4

\* A tick at a price of at least 150 won is not wide against the price.
LEMMA TickIsNarrow ==
  ASSUME NEW p \in Nat, p >= 1500
  PROVE  100 * TickSize(p, "KR", "STOCK") <= p
<1>1. TickSize(p, "KR", "STOCK") = 10 * KrTick(p, "STOCK")
  BY DEF TickSize, Unit
<1> QED BY <1>1 DEF KrTick, Unit

\* The orchestrator's limit is rounded down, at whatever price.
LEMMA LimitBelowEntry ==
  ASSUME NEW c \in Chart60, c.low60 <= c.high60, NEW m \in {"KR", "US"}
  PROVE  LET entry == EntryPrice(c, m)  limit == RoundPassive(entry, m, "buy", "STOCK") IN
         entry \in Nat /\ limit \in Nat /\ limit <= entry
<1> DEFINE high == EntryHigh(c)
           entry == EntryPrice(c, m)
           limit == RoundPassive(entry, m, "buy", "STOCK")
<1>1. high \in Nat
  BY PlanLevels
<1> HIDE DEF high
<1>2. entry \in Nat
  BY <1>1 DEF EntryPrice, FloorTo, high
<1> HIDE DEF entry
<1>3. limit \in Nat /\ limit <= entry
  <2>1. "STOCK" \in Security
    BY DEF Security
  <2> QED BY <1>2, <2>1, PassiveOnSafeSide
<1> QED BY <1>2, <1>3 DEF entry, limit

\* The orchestrator's limit, rounded for the exchange, from 15 cents or 150 won up.
LEMMA LimitAboveStop ==
  ASSUME NEW c \in Chart60, c.low60 <= c.high60, c.close >= 1500, NEW m \in {"KR", "US"}
  PROVE  LET entry == EntryPrice(c, m)  limit == RoundPassive(entry, m, "buy", "STOCK") IN
         /\ entry \in Nat /\ limit \in Nat /\ limit <= entry
         /\ 40 * limit > 39 * c.close
<1> DEFINE high == EntryHigh(c)
           entry == EntryPrice(c, m)
           limit == RoundPassive(entry, m, "buy", "STOCK")
<1>1. /\ high \in Nat /\ 100 * high <= 101 * c.close /\ 101 * c.close < 100 * high + 100
      /\ c.close \in Nat
  BY PlanLevels DEF Chart60
<1> HIDE DEF high
<1>2. CASE m = "KR"
  <2>1. entry = high
    BY <1>2 DEF EntryPrice, high
  <2> DEFINE tick == TickSize(high, "KR", "STOCK")
  <2>2. limit \in Nat /\ limit <= high /\ high - limit < tick
    <3>1. limit = RoundPassive(high, "KR", "buy", "STOCK")
      BY <1>2, <2>1
    <3> HIDE DEF limit, tick
    <3> QED BY <1>1, <3>1, PassiveOnSafeSide DEF Security, tick
  <2> HIDE DEF limit
  <2>3. tick \in Nat /\ 100 * tick <= high
    <3>1. high >= 1500
      BY <1>1
    <3>2. tick \in Nat
      <4>1. high \in Nat /\ "KR" \in Market /\ "STOCK" \in Security
        BY <1>1 DEF Market, Security
      <4> QED BY <4>1, TickIsAmount DEF Amount
    <3> QED BY <1>1, <3>1, <3>2, TickIsNarrow
  <2> HIDE DEF tick, entry
  <2>4. 40 * limit > 39 * c.close
    BY <1>1, <2>2, <2>3
  <2> QED BY <1>1, <2>1, <2>2, <2>4 DEF entry, limit
<1>3. CASE m = "US"
  <2>1. entry = FloorTo(high + 50, 100)
    BY <1>3 DEF EntryPrice, high
  <2>2. entry \in Nat /\ entry + 49 >= high /\ entry % 100 = 0
    BY <1>1, <2>1 DEF FloorTo
  <2> HIDE DEF entry
  <2>3. limit = entry
    BY <1>3, <2>2 DEF RoundPassive, TickSize, Unit, FloorTo
  <2>4. 40 * entry > 39 * c.close
    BY <1>1, <2>2
  <2> HIDE DEF limit
  <2> QED BY <2>2, <2>3, <2>4 DEF entry, limit
<1> QED BY <1>2, <1>3

\* The whole of a purse at a rate, and what others add to it.
LEMMA ValueCoversCash ==
  ASSUME NEW rest \in Nat, NEW own \in Nat, NEW rate \in Amount
  PROVE  (rest + own * rate) \div rate \in Nat /\ (rest + own * rate) \div rate >= own
<1> DEFINE whole == rest + own * rate
           q == whole \div rate
<1>1. whole \in Nat /\ own * rate \in Nat /\ own * rate <= whole
  BY DEF Amount
<1> HIDE DEF whole
<1>2. q \in Nat /\ whole < q * rate + rate
  BY <1>1 DEF Amount
<1> HIDE DEF q
<1>3. ASSUME own >= q + 1 PROVE FALSE
  <2>1. own * rate >= (q + 1) * rate
    BY <1>2, <1>3 DEF Amount
  <2>2. (q + 1) * rate = q * rate + rate /\ q * rate \in Nat
    BY <1>2 DEF Amount
  <2> QED BY <1>1, <1>2, <2>1, <2>2 DEF Amount
<1> QED BY <1>2, <1>3 DEF q, whole

Own(a, m) == IF m = "KR" THEN a.krw ELSE a.usd
BaseOf(a, m) == IF a.rate > 0 THEN PortfolioValue(a, m) ELSE Own(a, m).cash + Own(a, m).securities

\* broker/toss.py, get_balance - what the size is taken of, when there is cash at all.
LEMMA BalanceOfAccount ==
  ASSUME NEW a \in [krw : Purse, usd : Purse, rate : Nat, known : BOOLEAN],
         NEW m \in {"KR", "US"}
  PROVE  /\ Balance(a, m) \in Account /\ BaseOf(a, m) \in Nat /\ Own(a, m).cash \in Nat
         /\ UsableCash(Balance(a, m)) = Own(a, m).cash
         /\ Own(a, m).cash > 0 => SizingBase(Balance(a, m)) = BaseOf(a, m)
<1>1. /\ a.krw.cash \in Nat /\ a.krw.securities \in Nat /\ a.usd.cash \in Nat
      /\ a.usd.securities \in Nat /\ a.rate \in Nat /\ a.known \in BOOLEAN
  BY DEF Purse
<1>2. Own(a, m).cash \in Nat /\ Own(a, m).securities \in Nat
  BY <1>1 DEF Own
<1>3. Balance(a, m) = [known |-> a.known, cash |-> Own(a, m).cash,
                       securities |-> Own(a, m).securities,
                       total |-> Own(a, m).cash + Own(a, m).securities,
                       portfolio |-> PortfolioValue(a, m)]
  BY DEF Balance, BuyingPower, Holdings, Own
<1>4. PortfolioValue(a, m) \in Nat /\ (a.rate > 0 => PortfolioValue(a, m) >= Own(a, m).cash)
  <2>1. CASE a.rate = 0
    BY <2>1 DEF PortfolioValue
  <2>2. CASE a.rate > 0 /\ m = "KR"
    <3>1. PortfolioValue(a, m)
            = a.krw.cash + a.krw.securities + (a.usd.cash + a.usd.securities) * a.rate
      BY <1>1, <2>2 DEF PortfolioValue
    <3>2. (a.usd.cash + a.usd.securities) * a.rate \in Nat
      BY <1>1
    <3> QED BY <1>1, <2>2, <3>1, <3>2 DEF Own
  <2>3. CASE a.rate > 0 /\ m = "US"
    <3>1. PICK rest \in Nat : rest = a.krw.cash + a.krw.securities + a.usd.securities * a.rate
      BY <1>1
    <3>2. PortfolioValue(a, m) = (rest + a.usd.cash * a.rate) \div a.rate
      <4>1. a.krw.cash + a.krw.securities + (a.usd.cash + a.usd.securities) * a.rate
              = rest + a.usd.cash * a.rate
        BY <1>1, <3>1
      <4> QED BY <1>1, <2>3, <4>1 DEF PortfolioValue
    <3>3. PortfolioValue(a, m) \in Nat /\ PortfolioValue(a, m) >= a.usd.cash
      <4>1. a.rate \in Amount
        BY <1>1, <2>3 DEF Amount
      <4> QED BY <1>1, <3>2, <4>1, ValueCoversCash
    <3>4. Own(a, m).cash = a.usd.cash
      BY <2>3 DEF Own
    <3> QED BY <3>3, <3>4
  <2> QED BY <1>1, <2>1, <2>2, <2>3
<1> HIDE DEF Own
<1>5. BaseOf(a, m) \in Nat
  BY <1>1, <1>2, <1>4 DEF BaseOf
<1>6. Balance(a, m) \in Account
  BY <1>1, <1>2, <1>3, <1>4 DEF Account
<1>7. UsableCash(Balance(a, m)) = Own(a, m).cash
  BY <1>2, <1>3 DEF UsableCash
<1>8. Own(a, m).cash > 0 => SizingBase(Balance(a, m)) = BaseOf(a, m)
  <2>1. a.rate = 0 => PortfolioValue(a, m) = 0
    BY DEF PortfolioValue
  <2> QED BY <1>1, <1>2, <1>3, <1>4, <2>1 DEF SizingBase, BaseOf
<1> QED BY <1>2, <1>5, <1>6, <1>7, <1>8

\* Less a share costs less altogether.
LEMMA CheaperCosts ==
  ASSUME NEW n \in Nat, NEW a \in Int, NEW b \in Int, a <= b
  PROVE  n * a \in Int /\ n * b \in Int /\ n * a <= n * b
  OBVIOUS

\* What SizeWithinBudget says of the account, and what it says of the promised reward.
SizeFitsAccount ==
  answer.kind = "size" /\ answer.value.quantity > 0 =>
    LET v    == answer.value
        m    == question.market
        own  == IF m = "KR" THEN question.account.krw ELSE question.account.usd
        base == IF question.account.rate > 0 THEN PortfolioValue(question.account, m)
                ELSE own.cash + own.securities
        stop == FloorToTick(v.plan.stop, m, "STOCK")
        cost == v.quantity * EntryPrice(question.chart, m)
    IN  /\ v.quantity * v.limit <= own.cash
        /\ ~ v.passed =>
             \/ 201 * cost > 200 * own.cash
             \/ question.cap > 0 /\ 201 * cost > 2 * base * question.cap
        /\ question.cap > 0 => v.quantity * v.limit * 100 <= base * question.cap
        /\ 100 * v.quantity * (v.limit - stop)
             <= base * question.risk + 100 * v.quantity * TickSize(v.plan.stop, m, "STOCK")

RatioKept ==
  answer.kind = "size" /\ answer.value.quantity > 0 =>
    LET v == answer.value IN
    \A fill \in {Lower(v.limit, v.plan.entry), (question.chart.close * 99) \div 100} :
      AtLeast(Ratio(fill, v.plan.stop, v.plan.target1), v.plan.rr)

LEMMA SizeFits == AskSize /\ Answered("size", Sized(question)) => SizeFitsAccount
<1> SUFFICES ASSUME AskSize, Answered("size", Sized(question)) PROVE SizeFitsAccount
  OBVIOUS
<1>1. PICK m \in Market, c \in Charts, a \in Accounts, risk \in Percent, cap \in Percent \cup {0} :
        question = [kind |-> "size", market |-> m, chart |-> c, account |-> a,
                    risk |-> risk, cap |-> cap]
  BY DEF AskSize
<1>2. /\ m \in {"KR", "US"} /\ c \in Chart60 /\ c.low60 <= c.high60
      /\ a \in [krw : Purse, usd : Purse, rate : Nat, known : BOOLEAN]
      /\ risk \in Nat /\ cap \in Nat
  BY SizeAssumption DEF Market
<1> DEFINE b == Balance(a, m)
           entry == EntryPrice(c, m)
           at == StopOf(c)
           limit == RoundPassive(entry, m, "buy", "STOCK")
           n == PositionSize(b, entry, at, risk, cap)
           cash == Own(a, m).cash
           base == BaseOf(a, m)
           passed == n > 0 /\ Preflight(b, entry, n, cap)
           stop == FloorToTick(at, m, "STOCK")
           tick == TickSize(at, m, "STOCK")
<1>3. /\ answer.value.quantity = n /\ answer.value.limit = limit
      /\ answer.value.passed = passed /\ answer.kind = "size"
      /\ answer.value.plan = Plan(c, [reward |-> 3, risk |-> 2])
      /\ Plan(c, [reward |-> 3, risk |-> 2]).stop = at
  BY <1>1 DEF Answered, Sized, Plan
<1>4. /\ b \in Account /\ base \in Nat /\ cash \in Nat /\ UsableCash(b) = cash
      /\ cash > 0 => SizingBase(b) = base
  BY <1>2, BalanceOfAccount
<1>5. entry \in Nat /\ limit \in Nat /\ limit <= entry
  BY <1>2, LimitBelowEntry
<1>6. /\ at \in Nat /\ 40 * at <= 39 * c.close /\ Target1Of(c) \in Nat /\ at <= Target1Of(c)
      /\ EntryHigh(c) \in Nat /\ 100 * EntryHigh(c) <= 101 * c.close
      /\ 101 * c.close < 100 * EntryHigh(c) + 100 /\ c.close \in Nat
  BY <1>2, PlanLevels DEF Chart60
<1>7. /\ n \in Nat /\ n * entry <= cash
      /\ n > 0 => n * (entry - at) * 100 <= SizingBase(b) * risk
      /\ n > 0 /\ cap > 0 => n * entry * 100 <= SizingBase(b) * cap
  <2> HIDE DEF b, entry, at, limit, cash
  <2>1. b \in Account /\ entry \in Nat /\ at \in Nat /\ risk \in Nat /\ cap \in Nat
    BY <1>2, <1>4, <1>5, <1>6
  <2>2. /\ n \in Nat /\ n * entry <= UsableCash(b)
        /\ n > 0 => n * (entry - at) * 100 <= SizingBase(b) * risk
        /\ n > 0 /\ cap > 0 => n * entry * 100 <= SizingBase(b) * cap
    BY <2>1, SizeFitsBudget, ZenonT(30)
  <2>3. UsableCash(b) = cash
    BY <1>4
  <2> HIDE DEF n
  <2> QED BY <2>2, <2>3
<1>8. n > 0 => entry > 0 /\ b.known
  BY <1>5, <1>6 DEF PositionSize
<1>9. stop \in Nat /\ stop <= at /\ at - stop < tick /\ tick \in Nat
  <2>1. "STOCK" \in Security
    BY DEF Security
  <2>2. stop \in Nat /\ stop <= at /\ at - stop < tick
    BY <1>2, <1>6, <2>1, StopOnSafeSide
  <2>3. tick \in Nat
    BY <1>2, <1>6, <2>1, TickIsAmount DEF Amount
  <2> QED BY <2>2, <2>3
<1>10. n > 0 /\ ~ Preflight(b, entry, n, cap) =>
         \/ 201 * entry * n > 200 * cash
         \/ cap > 0 /\ SizingBase(b) > 0 /\ 201 * entry * n > 2 * SizingBase(b) * cap
  <2>1. PICK sized \in Nat : sized = SizingBase(b)
    BY <1>4 DEF SizingBase, Account
  <2>2. 201 * entry * n \in Int /\ 200 * cash \in Int /\ 2 * sized * cap \in Int
    BY <1>2, <1>4, <1>5, <1>7, <2>1
  <2> HIDE DEF n, entry, b, cash
  <2> QED BY <1>4, <2>1, <2>2 DEF Preflight
<1> HIDE DEF b, entry, at, limit, n, cash, base, stop, tick
<1>11. SUFFICES ASSUME n > 0 PROVE SizeFitsAccount
  BY <1>3 DEF SizeFitsAccount
<1>12. cash > 0 /\ SizingBase(b) = base
  <2>1. n * entry > 0
    BY <1>5, <1>7, <1>8, <1>11
  <2>2. n * entry \in Nat
    BY <1>5, <1>7
  <2> QED BY <1>4, <1>7, <2>1, <2>2
<1>13. n * limit \in Nat /\ n * entry \in Nat /\ n * limit <= n * entry
  BY <1>5, <1>7, CheaperCosts
<1>14. n * limit <= cash
  BY <1>4, <1>7, <1>13
<1>15. cap > 0 => n * limit * 100 <= base * cap
  <2>1. base * cap \in Nat
    BY <1>2, <1>4
  <2> QED BY <1>7, <1>11, <1>12, <1>13, <2>1
<1>16. 100 * n * (limit - stop) <= base * risk + 100 * n * tick
  <2>1. limit - stop \in Int /\ (entry - at) + tick \in Int /\ limit - stop <= (entry - at) + tick
    BY <1>5, <1>6, <1>9
  <2>2. n * (limit - stop) \in Int /\ n * ((entry - at) + tick) \in Int
        /\ n * (limit - stop) <= n * ((entry - at) + tick)
    BY <1>7, <2>1, CheaperCosts
  <2>3. n * ((entry - at) + tick) = n * (entry - at) + n * tick
        /\ n * (entry - at) \in Int /\ n * tick \in Int
    BY <1>5, <1>6, <1>7, <1>9
  <2>4. n * (entry - at) * 100 <= base * risk /\ base * risk \in Int
    BY <1>2, <1>4, <1>7, <1>11, <1>12
  <2>5. 100 * n * (limit - stop) = 100 * (n * (limit - stop)) /\ 100 * n * tick = 100 * (n * tick)
    BY <1>7, <1>9, <2>1
  <2> QED BY <2>2, <2>3, <2>4, <2>5
<1>17. ~ passed => \/ 201 * (n * entry) > 200 * cash
                   \/ cap > 0 /\ 201 * (n * entry) > 2 * base * cap
  <2>1. 201 * entry * n = 201 * (n * entry)
    BY <1>5, <1>7
  <2> QED BY <1>10, <1>11, <1>12, <2>1
<1>18. answer.value.plan.stop = at
  BY <1>3
<1>19. /\ question.market = m /\ question.chart = c /\ question.account = a
       /\ question.risk = risk /\ question.cap = cap
  BY <1>1
<1>20. /\ cash = (IF m = "KR" THEN question.account.krw ELSE question.account.usd).cash
       /\ base = IF question.account.rate > 0 THEN PortfolioValue(question.account, m)
                 ELSE (IF m = "KR" THEN question.account.krw ELSE question.account.usd).cash
                        + (IF m = "KR" THEN question.account.krw ELSE question.account.usd).securities
       /\ entry = EntryPrice(question.chart, m)
       /\ stop = FloorToTick(answer.value.plan.stop, m, "STOCK")
       /\ tick = TickSize(answer.value.plan.stop, m, "STOCK")
  BY <1>18, <1>19 DEF cash, base, Own, BaseOf, entry, stop, tick
<1> HIDE DEF passed
<1> QED
  BY <1>3, <1>14, <1>15, <1>16, <1>17, <1>18, <1>19, <1>20 DEF SizeFitsAccount

\* auto/orchestrator.py, from a buy signal to the order - for every chart, at whatever
\* price, account, risk and cap: the buy fits its own currency's cash and the cap,
\* loses at most the budget and a tick at the venue's stop, and what the pre-flight
\* refuses is within its half per cent.
THEOREM SizesFitAccount == Spec => []SizeFitsAccount
<1>1. ToldInv => SizeFitsAccount
  <2> SUFFICES ASSUME ToldInv PROVE SizeFitsAccount
    OBVIOUS
  <2>1. CASE answer.kind # "size"
    BY <2>1 DEF SizeFitsAccount
  <2> QED BY <2>1, SizeFits DEF ToldInv, Told, Answered, Kinds
<1> QED BY <1>1, AnswersAreTheCodes, PTL

\* From 15 cents or 150 won up no rounding eats the distance to the stop, which is
\* two and a half per cent of the close or more.
Priceable == \A c \in Charts : c.close >= 1500

LEMMA RatioHolds ==
  ASSUME Priceable, AskSize, Answered("size", Sized(question))
  PROVE  RatioKept
<1>1. PICK m \in Market, c \in Charts, a \in Accounts, risk \in Percent, cap \in Percent \cup {0} :
        question = [kind |-> "size", market |-> m, chart |-> c, account |-> a,
                    risk |-> risk, cap |-> cap]
  BY DEF AskSize
<1>2. m \in {"KR", "US"} /\ c \in Chart60 /\ c.low60 <= c.high60 /\ c.close >= 1500
  BY SizeAssumption DEF Market, Priceable
<1> DEFINE at == StopOf(c)
           limit == RoundPassive(EntryPrice(c, m), m, "buy", "STOCK")
<1>3. limit \in Nat /\ 40 * limit > 39 * c.close
  BY <1>2, LimitAboveStop
<1>4. /\ at \in Nat /\ 40 * at <= 39 * c.close /\ Target1Of(c) \in Nat /\ at <= Target1Of(c)
      /\ EntryHigh(c) \in Nat /\ 100 * EntryHigh(c) <= 101 * c.close
      /\ 101 * c.close < 100 * EntryHigh(c) + 100 /\ c.close \in Nat
  BY <1>2, PlanLevels DEF Chart60
<1>5. /\ answer.value.limit = limit /\ question.chart = c
      /\ answer.value.plan.stop = at /\ answer.value.plan.entry = EntryHigh(c)
      /\ answer.value.plan.target1 = Target1Of(c)
      /\ answer.value.plan.rr = Ratio(EntryHigh(c), at, Target1Of(c))
  BY <1>1 DEF Answered, Sized, Plan
<1> HIDE DEF at, limit
<1>6. ASSUME NEW fill \in {Lower(limit, EntryHigh(c)), (c.close * 99) \div 100}
      PROVE  AtLeast(Ratio(fill, at, Target1Of(c)), Ratio(EntryHigh(c), at, Target1Of(c)))
  <2>1. fill \in Nat /\ at < fill /\ fill <= EntryHigh(c)
    <3>1. CASE fill = Lower(limit, EntryHigh(c))
      BY <1>2, <1>3, <1>4, <3>1 DEF Lower
    <3>2. CASE fill = (c.close * 99) \div 100
      BY <1>2, <1>4, <3>2
    <3> QED BY <3>1, <3>2
  <2> QED BY <1>4, <2>1, BetterFillBetterRatio
<1> QED BY <1>5, <1>6 DEF RatioKept

\* auto/orchestrator.py - from 15 cents or 150 won up, moreover any fill keeps the
\* promised ratio.
THEOREM SizesWithinBudget == ASSUME Priceable PROVE Spec => []SizeWithinBudget
<1>1. ToldInv => SizeWithinBudget
  <2> SUFFICES ASSUME ToldInv PROVE SizeWithinBudget
    OBVIOUS
  <2>1. CASE answer.kind # "size"
    BY <2>1 DEF SizeWithinBudget
  <2>2. CASE AskSize /\ Answered("size", Sized(question))
    BY <2>2, SizeFits, RatioHolds DEF SizeFitsAccount, RatioKept, SizeWithinBudget
  <2> QED BY <2>1, <2>2 DEF ToldInv, Told, Answered, Kinds
<1> QED BY <1>1, AnswersAreTheCodes, PTL

-----------------------------------------------------------------------------
(* The dashboard *)

LEMMA BannerTruthful ==
  ASSUME AskBanner, answer = [kind |-> "banner", value |-> Level(question.state)]
  PROVE  PanelTruthful
<1>1. PICK s \in Banners : question = [kind |-> "banner", state |-> s]
  BY DEF AskBanner
<1>2. /\ s.legacy \in Nat /\ s.unresolved \in Nat /\ s.pending \in Nat /\ s.bare \in Nat
      /\ question.state = s
  BY <1>1, PanelAssumption DEF Probed
<1>3. Level(s) = "halted" <=> HaltReasons(s) # {}
  BY DEF Level
<1>4. Level(s) \in {"ok", "info"} => WarnReasons(s) = {}
  BY DEF Level
<1>5. HaltReasons(s) # {} =>
        s.kill \/ s.legacy > 0 \/ s.unresolved > 0 \/ s.tripped # {}
  BY DEF HaltReasons, When, Breakers
<1>6. HaltReasons(s) = {} =>
        /\ ~ s.kill \/ "kill_switch" \notin s.read
        /\ s.legacy + s.unresolved = 0 \/ "broker_state" \notin s.read
        /\ s.tripped \cap s.held = {} \/ ~ ({"broker_state", "positions"} \subseteq s.read)
  <2> SUFFICES ASSUME HaltReasons(s) = {}
               PROVE  /\ ~ s.kill \/ "kill_switch" \notin s.read
                      /\ s.legacy + s.unresolved = 0 \/ "broker_state" \notin s.read
                      /\ s.tripped \cap s.held = {}
                         \/ ~ ({"broker_state", "positions"} \subseteq s.read)
    OBVIOUS
  <2>1. ~ s.kill \/ "kill_switch" \notin s.read
    BY DEF HaltReasons, When
  <2>2. ASSUME "broker_state" \in s.read
        PROVE  ~ (s.legacy > 0) /\ ~ (s.unresolved > 0) /\ Breakers(s) = {}
    BY <2>2 DEF HaltReasons, When
  <2>3. ASSUME "broker_state" \in s.read, "positions" \in s.read
        PROVE  s.tripped \cap s.held = {}
    BY <2>2, <2>3 DEF Breakers
  <2> QED BY <1>2, <2>1, <2>2, <2>3
<1>7. WarnReasons(s) = {} =>
        /\ {"kill_switch", "broker_state"} \subseteq s.read
        /\ ("positions" \in s.read /\ s.enabled) => s.bare + s.pending = 0
  <2> SUFFICES ASSUME WarnReasons(s) = {}
               PROVE  /\ {"kill_switch", "broker_state"} \subseteq s.read
                      /\ ("positions" \in s.read /\ s.enabled) => s.bare + s.pending = 0
    OBVIOUS
  <2>1. "kill_switch" \in s.read /\ "broker_state" \in s.read
    BY DEF WarnReasons, When
  <2>2. ASSUME "positions" \in s.read, s.enabled PROVE ~ (s.pending + s.bare > 0)
    BY <2>2 DEF WarnReasons, When
  <2> QED BY <1>2, <2>1, <2>2
<1> QED
  BY <1>2, <1>3, <1>4, <1>5, <1>6, <1>7 DEF PanelTruthful

LEMMA GatesTruthful ==
  ASSUME AskGates,
         answer = [kind |-> "gates", value |-> [panel |-> PanelGate(question.row),
                                                sweep |-> SweepGate(question.row)]]
  PROVE  PanelTruthful
<1>1. PICK g \in Rows : question = [kind |-> "gates", row |-> g]
  BY DEF AskGates
<1>2. g \in Gates /\ question.row = g
  BY <1>1, PanelAssumption
<1>3. SweepGate(g) \in {"session", "regime", "breaker", "held"} =>
        PanelGate(g) = SweepGate(g) \/ (PanelGate(g) = "full" /\ g.elsewhere > 0)
  BY <1>2 DEF PanelGate, SweepGate, Gates, Gate
<1>4. SweepGate(g) = "free" =>
        \/ PanelGate(g) = "none"
        \/ PanelGate(g) = "full" /\ g.elsewhere > 0
        \/ PanelGate(g) = "held" /\ g.held = "elsewhere"
  BY <1>2 DEF PanelGate, SweepGate, Gates, Gate
<1>5. /\ SweepGate(g) = "protected" => PanelGate(g) = "protected"
      /\ SweepGate(g) = "full" => PanelGate(g) = IF g.protected THEN "protected" ELSE "full"
  BY <1>2 DEF PanelGate, SweepGate, Gates, Gate
<1> QED
  BY <1>2, <1>3, <1>4, <1>5 DEF PanelTruthful

\* handlers_safety.py - whatever the probes find and however many positions there
\* are: the banner is red for what it could read, and calm only with the kill
\* switch and the orders read; the panel blames the gate the sweep ends at when
\* that is protection, room, the session, the regime, the breaker or a held name,
\* up to the positions of other accounts.
THEOREM PanelsTruthful == Spec => []PanelTruthful
<1>1. ToldInv => PanelTruthful
  <2> SUFFICES ASSUME ToldInv PROVE PanelTruthful
    OBVIOUS
  <2>1. CASE answer.kind \notin {"banner", "gates"}
    BY <2>1 DEF PanelTruthful
  <2> QED BY <2>1, BannerTruthful, GatesTruthful DEF ToldInv, Told, Answered, Kinds
<1> QED BY <1>1, AnswersAreTheCodes, PTL

-----------------------------------------------------------------------------
(* The signal *)

LEMMA ScoreTypes ==
  ASSUME NEW f \in Analysis
  PROVE  /\ Fundamentals(f.quarters, f.catalysts) \in 0 .. 10
         /\ Trend(f.chart) \in 0 .. 10
         /\ Momentum(f.chart) \in 0 .. 10
         /\ Coerced(f.news).adjustment \in -3 .. 3
         /\ Total(f) \in Int
<1>1. ASSUME NEW v \in Int PROVE Bounded(v, 0, 10) \in 0 .. 10 /\ Bounded(v, -3, 3) \in -3 .. 3
  BY DEF Bounded
<1>2. ASSUME NEW c, NEW n \in Int PROVE If(c, n) \in Int
  BY DEF If
<1>3. Fundamentals(f.quarters, f.catalysts) \in 0 .. 10
  <2>1. ASSUME NEW v PROVE EpsPoints(v) \in Int /\ RevenuePoints(v) \in Int
    BY DEF EpsPoints, RevenuePoints, If
  <2>2. Acceleration(f.quarters) \in Int
    BY DEF Acceleration, If
  <2> DEFINE q == f.quarters[1]
             points == EpsPoints(q.eps) + RevenuePoints(q.revenue) + Acceleration(f.quarters)
                         + If(q.surprise, 1)
                         + If(f.catalysts /\ Known(q.eps) /\ Known(q.revenue), 1)
  <2>3. points \in Int
    <3>1. /\ EpsPoints(q.eps) \in Int /\ RevenuePoints(q.revenue) \in Int
          /\ If(q.surprise, 1) \in Int
          /\ If(f.catalysts /\ Known(q.eps) /\ Known(q.revenue), 1) \in Int
      BY <1>2, <2>1
    <3> QED BY <2>2, <3>1
  <2>4. Fundamentals(f.quarters, f.catalysts)
          = IF f.quarters = <<>> THEN 0 ELSE Bounded(points, 0, 10)
    BY DEF Fundamentals
  <2> HIDE DEF points
  <2>5. Bounded(points, 0, 10) \in 0 .. 10
    BY <1>1, <2>3
  <2> QED BY <2>4, <2>5
<1>4. Trend(f.chart) \in 0 .. 10
  BY <1>1, <1>2 DEF Trend
<1>5. Momentum(f.chart) \in 0 .. 10
  <2>1. Vcp(f.chart) \in Int
    BY <1>2 DEF Vcp
  <2>2. Accumulation(f.chart) \in Int
    BY <1>2 DEF Accumulation
  <2>3. Bounded((Vcp(f.chart) + 1) \div 3, 0, 3) \in Int
    BY <2>1 DEF Bounded
  <2> QED
    BY <1>1, <1>2, <2>2, <2>3 DEF Momentum
<1>6. Coerced(f.news).adjustment \in -3 .. 3
  <2>1. f.news \in NewsFacts
    BY DEF Analysis
  <2>2. CASE ~ f.news.answered
    BY <2>2 DEF Coerced, Neutral
  <2>3. CASE f.news.answered
    <3>1. f.news # [answered |-> FALSE]
      BY <2>3
    <3>2. f.news.adjustment \in Int
      BY <2>1, <3>1 DEF NewsFacts
    <3> QED BY <1>1, <2>3, <3>2 DEF Coerced
  <2> QED BY <2>2, <2>3
<1> QED
  BY <1>1, <1>3, <1>4, <1>5, <1>6 DEF Total

LEMMA FloorTypes ==
  ASSUME NEW f \in Analysis
  PROVE  f.rr \in Int /\ RatioFloor(Total(f)) \in Int /\ ScoreFloor(f) \in Int
<1>1. f.rr \in Int
  BY DEF Analysis
<1>2. ASSUME NEW n \in Int PROVE RatioFloor(n) \in Int
  BY DEF RatioFloor, MinRatio
<1>3. RatioFloor(Total(f)) \in Int
  BY <1>2, ScoreTypes
<1>4. ScoreFloor(f) \in Int
  <2>1. ASSUME NEW b \in BOOLEAN PROVE (IF b THEN 22 ELSE 24) \in Int
    OBVIOUS
  <2> QED BY <2>1 DEF ScoreFloor, MinScore
<1> QED BY <1>1, <1>3, <1>4

\* What a buy decision has passed.
LEMMA DecisionPassed ==
  ASSUME NEW f \in Analysis
  PROVE  Decided(f) \in {"Buy", "Strong Buy"} =>
           /\ f.rr >= RatioFloor(Total(f)) /\ Total(f) >= ScoreFloor(f)
           /\ ~ Severe(f.news)
<1>1. /\ f.rr \in Int /\ Total(f) \in Int /\ RatioFloor(Total(f)) \in Int
      /\ ScoreFloor(f) \in Int
  BY FloorTypes, ScoreTypes
<1>2. Decided(f) \in {"Buy", "Strong Buy"} => ~ Severe(f.news)
  BY DEF Decided
<1>3. ASSUME Decided(f) \in {"Buy", "Strong Buy"}
      PROVE  ~ (f.rr < RatioFloor(Total(f)) \/ Total(f) < ScoreFloor(f))
  <2> DEFINE low == f.rr < RatioFloor(Total(f)) \/ Total(f) < ScoreFloor(f)
             torn == Severe(f.news) \/ (f.live /\ ~ Bullish(f.regime))
             below == f.chart.close < f.chart.sma200
             unconfirmed == f.confirm /\ Breakout(f.chart) \notin {"confirmed", "insufficient"}
             wide == Total(f) >= 27 /\ f.rr >= 24
  <2>1. Decided(f) = IF torn THEN "Hold Off"
                     ELSE IF below THEN IF Long(f.chart) THEN "Hold Off" ELSE "Wait"
                     ELSE IF unconfirmed THEN "Wait"
                     ELSE IF low THEN "Wait"
                     ELSE IF wide THEN "Strong Buy" ELSE "Buy"
    BY DEF Decided
  <2> HIDE DEF low, torn, below, unconfirmed, wide
  <2>2. ~ low
    BY <1>3, <2>1
  <2> QED BY <2>2, Zenon DEF low
<1>4. ASSUME NEW a \in Int, NEW b \in Int, NEW c \in Int, NEW d \in Int, ~ (a < b \/ c < d)
      PROVE  a >= b /\ c >= d
  BY <1>4
<1>5. ~ (f.rr < RatioFloor(Total(f)) \/ Total(f) < ScoreFloor(f))
        => f.rr >= RatioFloor(Total(f)) /\ Total(f) >= ScoreFloor(f)
  BY <1>1, <1>4
<1> QED BY <1>2, <1>3, <1>5, Zenon

\* Nothing reported is worth nothing.
LEMMA SilentScoresNothing ==
  ASSUME NEW f \in Analysis,
         \A i \in DOMAIN f.quarters : ~ Known(f.quarters[i].eps) /\ ~ Known(f.quarters[i].revenue)
                                        /\ ~ f.quarters[i].surprise
  PROVE  Fundamentals(f.quarters, f.catalysts) = 0
<1>1. CASE f.quarters = <<>>
  BY <1>1 DEF Fundamentals
<1>2. CASE f.quarters # <<>>
  <2>1. 1 \in DOMAIN f.quarters
    BY <1>2 DEF Analysis
  <2>2. /\ ~ Known(f.quarters[1].eps) /\ ~ Known(f.quarters[1].revenue)
        /\ ~ f.quarters[1].surprise
    BY <2>1
  <2>3. Acceleration(f.quarters) = 0
    BY <2>2 DEF Acceleration, NoSlower, If
  <2> QED
    BY <1>2, <2>2, <2>3 DEF Fundamentals, EpsPoints, RevenuePoints, If, Bounded
<1> QED BY <1>1, <1>2

\* Without the news the score is no lower when the news did not raise it.
LEMMA NewsNeverHelps ==
  ASSUME NEW f \in Analysis, Coerced(f.news).adjustment <= 0
  PROVE  Grade(f) <= Grade([f EXCEPT !.news = NoNews])
<1> DEFINE g == [f EXCEPT !.news = NoNews]
<1>1. /\ g \in Analysis /\ g.news = NoNews /\ g.quarters = f.quarters
      /\ g.catalysts = f.catalysts /\ g.chart = f.chart /\ g.regime = f.regime
      /\ g.live = f.live /\ g.confirm = f.confirm /\ g.rr = f.rr
  BY DEF Analysis, NewsFacts, NoNews
<1> HIDE DEF g
<1>2. Coerced(g.news).adjustment = 0 /\ ~ Severe(g.news)
  BY <1>1 DEF Coerced, Neutral, NoNews, Severe
<1>3. Total(f) \in Int /\ Total(g) \in Int /\ Total(f) <= Total(g) /\ f.rr \in Int
  <2>1. PICK a \in 0 .. 10, b \in -3 .. 0, t \in Int :
          /\ a = Fundamentals(f.quarters, f.catalysts) /\ b = Coerced(f.news).adjustment
          /\ Total(f) = Bounded(a + b, 0, 10) + t /\ Total(g) = Bounded(a + 0, 0, 10) + t
    <3>1. Trend(f.chart) + Momentum(f.chart) \in Int
      BY ScoreTypes
    <3>2. /\ Total(f) = Bounded(Fundamentals(f.quarters, f.catalysts)
                                  + Coerced(f.news).adjustment, 0, 10)
                          + (Trend(f.chart) + Momentum(f.chart))
          /\ Total(g) = Bounded(Fundamentals(f.quarters, f.catalysts) + 0, 0, 10)
                          + (Trend(f.chart) + Momentum(f.chart))
      BY <1>1, <1>2, ScoreTypes DEF Total, Bounded
    <3>3. Fundamentals(f.quarters, f.catalysts) \in 0 .. 10 /\ Coerced(f.news).adjustment \in -3 .. 0
      BY ScoreTypes
    <3> QED BY <3>1, <3>2, <3>3
  <2>2. f.rr \in Int
    BY DEF Analysis
  <2> QED
    BY <2>1, <2>2 DEF Bounded
<1>4. ScoreFloor(g) = ScoreFloor(f)
  BY <1>1 DEF ScoreFloor
<1>5. Decided(f) \in {"Buy", "Strong Buy"} => Decided(g) \in {"Buy", "Strong Buy"}
  BY <1>1, <1>2, <1>3, <1>4 DEF Decided, RatioFloor, ScoreFloor, MinScore, MinRatio
<1>6. Decided(f) = "Strong Buy" => Decided(g) = "Strong Buy"
  BY <1>1, <1>2, <1>3, <1>4 DEF Decided, RatioFloor, ScoreFloor, MinScore, MinRatio
<1>7. Grade(f) <= Grade(g)
  <2>1. CASE Decided(f) = "Strong Buy"
    <3>1. Grade(f) = 2
      BY <2>1 DEF Grade
    <3>2. Grade(g) = 2
      BY <1>6, <2>1 DEF Grade
    <3> QED BY <3>1, <3>2
  <2>2. CASE Decided(f) = "Buy"
    <3>1. Grade(f) = 1
      BY <2>2 DEF Grade
    <3>2. Grade(g) \in {1, 2}
      BY <1>5, <2>2 DEF Grade
    <3> QED BY <3>1, <3>2
  <2>3. CASE Decided(f) \notin {"Buy", "Strong Buy"}
    <3>1. Grade(f) = 0
      BY <2>3 DEF Grade
    <3>2. Grade(g) \in {0, 1, 2}
      BY DEF Grade
    <3> QED BY <3>1, <3>2
  <2> QED BY <2>1, <2>2, <2>3
<1> QED BY <1>7 DEF g

LEMMA SignalAnswer ==
  ASSUME AskSignal,
         answer = [kind |-> "signal", value |-> [total |-> Total(question.facts),
                                                 bought |-> Bought(question.facts)]]
  PROVE  SignalSound
<1>1. PICK f \in Analysis : question.facts = f
  BY SignalAssumption DEF AskSignal
<1>2. /\ Total(f) \in Int /\ f.rr \in Int /\ Trend(f.chart) \in 0 .. 10
      /\ Momentum(f.chart) \in 0 .. 10 /\ Coerced(f.news).adjustment \in -3 .. 3
  BY ScoreTypes DEF Analysis
<1>3. ASSUME Bought(f)
      PROVE  \/ Total(f) >= 24 /\ f.rr >= 12
             \/ Total(f) >= 27 /\ f.rr >= 10
             \/ Total(f) >= 29 /\ f.rr >= 8
             \/ Total(f) >= 22 /\ f.rr >= 24 /\ Trend(f.chart) >= 6
  BY <1>2, <1>3, DecisionPassed DEF Bought, RatioFloor, ScoreFloor, MinScore, MinRatio
<1>4. ASSUME Bought(f), Fundamentals(f.quarters, f.catalysts) = 0
      PROVE  /\ Coerced(f.news).adjustment >= 2 /\ f.rr >= 24
             /\ Trend(f.chart) + Momentum(f.chart) >= 22 - Coerced(f.news).adjustment
  <2>1. Total(f) = Bounded(0 + Coerced(f.news).adjustment, 0, 10) + Trend(f.chart)
                     + Momentum(f.chart)
    BY <1>4 DEF Total
  <2> QED
    BY <1>2, <1>3, <1>4, <2>1 DEF Bounded
<1>5. ASSUME Bought(f), f.venue.supported
      PROVE  f.venue.warnings = "none" /\ ~ f.venue.suspended
  <2>1. f.venue \in VenueFacts
    BY DEF Analysis
  <2> QED
    BY <1>5, <2>1 DEF Bought, Blocked, VenueFacts
<1> QED
  BY <1>1, <1>3, <1>4, <1>5, SilentScoresNothing, NewsNeverHelps DEF SignalSound

\* strategy/analyzer.py - for every report, chart, news item and ratio: what is
\* bought met a floor, silence needs the best of the rest, and news that does not
\* raise the score never makes the decision better.
THEOREM SignalsSound == Spec => []SignalSound
<1>1. ToldInv => SignalSound
  <2> SUFFICES ASSUME ToldInv PROVE SignalSound
    OBVIOUS
  <2>1. CASE answer.kind # "signal"
    BY <2>1 DEF SignalSound
  <2> QED BY <2>1, SignalAnswer DEF ToldInv, Told, Answered, Kinds
<1> QED BY <1>1, AnswersAreTheCodes, PTL

-----------------------------------------------------------------------------
(* Loops over rows *)

\* What holds at 0 and, with each number, of the next holds of all of them: stated
\* of a set, for no prover here takes an operator.
LEMMA CountUp ==
  ASSUME NEW last \in Nat, NEW good \in SUBSET (0 .. last), 0 \in good,
         \A n \in 0 .. last - 1 : n \in good => n + 1 \in good
  PROVE  good = 0 .. last
<1> DEFINE bad == (0 .. last) \ good
<1>1. SUFFICES ASSUME bad # {} PROVE FALSE
  OBVIOUS
<1>2. bad \in SUBSET Nat
  OBVIOUS
<1>3. PICK n \in bad : \A m \in bad : ~ (m < n)
  <2> HIDE DEF bad
  <2>1. PICK n \in bad : \A m \in bad : <<m, n>> \notin OpToRel(<, Nat)
    BY <1>1, <1>2, NatLessThanWellFounded, WFMin
  <2> QED BY <1>2, <2>1 DEF OpToRel
<1>4. n \in 1 .. last /\ n \notin good
  <2>1. n \in 0 .. last /\ n \notin good
    BY <1>3
  <2> QED BY <2>1
<1>5. n - 1 \in 0 .. last - 1 /\ n - 1 < n /\ (n - 1) + 1 = n
  BY <1>4
<1>6. n - 1 \in good
  BY <1>3, <1>4, <1>5
<1> QED BY <1>4, <1>5, <1>6

\* A loop over the numbers 1 .. last that starts from base and takes one step per number.
LEMMA LoopExists ==
  ASSUME NEW Value, NEW base \in Value, NEW last \in Nat,
         NEW step \in [1 .. last -> [Value -> Value]]
  PROVE  \E run \in [0 .. last -> Value] :
           run[0] = base /\ \A n \in 1 .. last : run[n] = step[n][run[n - 1]]
<1> DEFINE Runs(n) == {run \in [0 .. n -> Value] :
                         run[0] = base /\ \A i \in 1 .. n : run[i] = step[i][run[i - 1]]}
           good == {n \in 0 .. last : Runs(n) # {}}
<1>1. 0 \in good
  <2>1. [n \in 0 .. 0 |-> base] \in Runs(0)
    OBVIOUS
  <2> QED BY <2>1
<1>2. ASSUME NEW n \in 0 .. last - 1, n \in good PROVE n + 1 \in good
  <2>1. PICK run \in [0 .. n -> Value] : run[0] = base /\ \A i \in 1 .. n : run[i] = step[i][run[i - 1]]
    BY <1>2
  <2> DEFINE next == [i \in 0 .. n + 1 |-> IF i = n + 1 THEN step[n + 1][run[n]] ELSE run[i]]
  <2>2. step[n + 1][run[n]] \in Value
    BY <2>1
  <2>3. next \in [0 .. n + 1 -> Value] /\ next[0] = base
    BY <2>1, <2>2
  <2>4. ASSUME NEW i \in 1 .. n + 1 PROVE next[i] = step[i][next[i - 1]]
    <3>1. CASE i = n + 1
      BY <3>1
    <3>2. CASE i # n + 1
      BY <2>1, <3>2
    <3> QED BY <3>1, <3>2
  <2> HIDE DEF next
  <2>5. next \in Runs(n + 1)
    BY <2>3, <2>4
  <2> QED BY <2>5
<1>3. last \in good
  <2> HIDE DEF good
  <2>1. good \in SUBSET (0 .. last)
    BY DEF good
  <2> QED BY <1>1, <1>2, <2>1, CountUp
<1>4. PICK run \in [0 .. last -> Value] :
        run[0] = base /\ \A i \in 1 .. last : run[i] = step[i][run[i - 1]]
  BY <1>3
<1> QED BY <1>4

\* A total is what a loop that adds one row after the other ends with.
LEMMA SumIsLoop ==
  ASSUME NEW s \in Seq(Int)
  PROVE  \E run \in [0 .. Len(s) -> Int] :
           /\ run[0] = 0 /\ \A n \in 1 .. Len(s) : run[n] = run[n - 1] + s[n]
           /\ SumSeq(s) = run[Len(s)]
<1> DEFINE Step(f) == [n \in 0 .. Len(s) |-> IF n = 0 THEN 0 ELSE f[n - 1] + s[n]]
           upto == CHOOSE f : f = Step(f)
<1>0. Len(s) \in Nat /\ \A n \in 1 .. Len(s) : s[n] \in Int
  OBVIOUS
<1>2. PICK run \in [0 .. Len(s) -> Int] : run = Step(run)
  <2> DEFINE step == [n \in 1 .. Len(s) |-> [v \in Int |-> v + s[n]]]
  <2>1. step \in [1 .. Len(s) -> [Int -> Int]]
    BY <1>0
  <2>2. \A n \in 1 .. Len(s), v \in Int : step[n][v] = v + s[n]
    BY <1>0
  <2> HIDE DEF step
  <2>3. PICK run \in [0 .. Len(s) -> Int] :
          run[0] = 0 /\ \A n \in 1 .. Len(s) : run[n] = step[n][run[n - 1]]
    <3> DEFINE Value == Int
               last == Len(s)
               base == 0
    <3>1. last \in Nat /\ base \in Value /\ step \in [1 .. last -> [Value -> Value]]
      BY <1>0, <2>1
    <3> HIDE DEF Value, last, base
    <3>2. \E run \in [0 .. last -> Value] :
            run[0] = base /\ \A n \in 1 .. last : run[n] = step[n][run[n - 1]]
      BY <3>1, LoopExists
    <3> QED BY <3>2 DEF Value, last, base
  <2>4. ASSUME NEW n \in 0 .. Len(s)
        PROVE  run[n] = IF n = 0 THEN 0 ELSE run[n - 1] + s[n]
    <3>1. CASE n = 0
      BY <1>0, <2>3, <3>1
    <3>2. CASE n # 0
      <4>1. n \in 1 .. Len(s) /\ run[n - 1] \in Int
        BY <1>0, <2>3, <3>2
      <4>2. run[n] = step[n][run[n - 1]]
        BY <2>3, <4>1
      <4> QED BY <2>2, <3>2, <4>1, <4>2
    <3> QED BY <3>1, <3>2
  <2> QED BY <2>3, <2>4
<1>4. \E f : f = Step(f)
  BY <1>2
<1>5. upto = Step(upto)
  BY <1>4
<1>6. SumSeq(s) = upto[Len(s)]
  BY DEF SumSeq
<1> DEFINE good == {n \in 0 .. Len(s) : upto[n] \in Int}
<1>7. /\ upto[0] = 0 /\ \A n \in 1 .. Len(s) : upto[n] = upto[n - 1] + s[n]
      /\ DOMAIN upto = 0 .. Len(s)
  <2> HIDE DEF upto
  <2>1. ASSUME NEW n \in 0 .. Len(s)
        PROVE  upto[n] = IF n = 0 THEN 0 ELSE upto[n - 1] + s[n]
    <3>1. upto[n] = Step(upto)[n]
      <4> HIDE DEF Step
      <4> QED BY <1>5
    <3> QED BY <3>1
  <2>2. 0 \in 0 .. Len(s) /\ \A n \in 1 .. Len(s) : n \in 0 .. Len(s) /\ n # 0
    BY <1>0
  <2>3. DOMAIN upto = 0 .. Len(s)
    <3>1. DOMAIN upto = DOMAIN Step(upto)
      <4> HIDE DEF Step
      <4> QED BY <1>5
    <3> QED BY <3>1
  <2> QED BY <2>1, <2>2, <2>3
<1> HIDE DEF upto
<1>8. good = 0 .. Len(s)
  <2>1. 0 \in good
    BY <1>0, <1>7
  <2>2. ASSUME NEW n \in 0 .. Len(s) - 1, n \in good PROVE n + 1 \in good
    <3>1. n + 1 \in 1 .. Len(s) /\ (n + 1) - 1 = n /\ n + 1 \in 0 .. Len(s)
      BY <1>0
    <3>2. upto[n + 1] = upto[n] + s[n + 1]
      BY <1>7, <3>1
    <3> QED BY <1>0, <2>2, <3>1, <3>2
  <2> HIDE DEF good
  <2>3. good \in SUBSET (0 .. Len(s))
    BY DEF good
  <2> QED BY <1>0, <2>1, <2>2, <2>3, CountUp
<1>9. upto \in [0 .. Len(s) -> Int]
  <2>1. upto = [n \in 0 .. Len(s) |-> upto[n]]
    BY <1>5
  <2> QED BY <1>8, <2>1
<1> QED BY <1>6, <1>7, <1>9

\* Two totals whose rows cancel out cancel out.
LEMMA OppositeSums ==
  ASSUME NEW s \in Seq(Int), NEW t \in Seq(Int), Len(s) = Len(t),
         \A n \in 1 .. Len(s) : s[n] + t[n] = 0
  PROVE  SumSeq(s) + SumSeq(t) = 0
<1>1. PICK up \in [0 .. Len(s) -> Int] :
        /\ up[0] = 0 /\ \A n \in 1 .. Len(s) : up[n] = up[n - 1] + s[n]
        /\ SumSeq(s) = up[Len(s)]
  BY SumIsLoop
<1>2. PICK down \in [0 .. Len(t) -> Int] :
        /\ down[0] = 0 /\ \A n \in 1 .. Len(t) : down[n] = down[n - 1] + t[n]
        /\ SumSeq(t) = down[Len(t)]
  BY SumIsLoop
<1> DEFINE good == {n \in 0 .. Len(s) : up[n] + down[n] = 0}
<1>3. Len(s) \in Nat /\ \A n \in 1 .. Len(s) : s[n] \in Int /\ t[n] \in Int
  OBVIOUS
<1>4. good = 0 .. Len(s)
  <2>1. 0 \in good
    BY <1>1, <1>2, <1>3
  <2>2. ASSUME NEW n \in 0 .. Len(s) - 1, n \in good PROVE n + 1 \in good
    <3>1. n + 1 \in 1 .. Len(s) /\ (n + 1) - 1 = n /\ n + 1 \in 0 .. Len(s) /\ n \in 0 .. Len(s)
      BY <1>3
    <3>2. up[n + 1] = up[n] + s[n + 1] /\ down[n + 1] = down[n] + t[n + 1]
      BY <1>1, <1>2, <3>1
    <3>3. /\ up[n] \in Int /\ down[n] \in Int /\ up[n] + down[n] = 0
          /\ t[n + 1] \in Int /\ s[n + 1] + t[n + 1] = 0
      BY <1>1, <1>2, <1>3, <2>2, <3>1
    <3>4. up[n + 1] + down[n + 1] = 0
      BY <3>2, <3>3
    <3> QED BY <3>1, <3>4
  <2> HIDE DEF good
  <2>3. good \in SUBSET (0 .. Len(s))
    BY DEF good
  <2> QED BY <1>3, <2>1, <2>2, <2>3, CountUp
<1>5. up[Len(s)] + down[Len(s)] = 0
  BY <1>3, <1>4
<1> QED BY <1>1, <1>2, <1>5

-----------------------------------------------------------------------------
(* The day's loss *)

\* guards.py, realized_pnl_today - when every fill of the day is settled and has its
\* buy, what is counted as realized is the day's loss.
LEMMA RealizedIsLost ==
  ASSUME NEW sells \in Seq(DaySell),
         \A i \in DOMAIN sells : sells[i].filled > 0 => sells[i].linked /\ sells[i].status \in Settled
  PROVE  LET lost == SumSeq([i \in DOMAIN sells |-> Lost(sells[i])])
         IN  lost \in Int /\ RealizedToday(sells) = -lost
<1> DEFINE gains  == [i \in DOMAIN sells |-> IF Counted(sells[i]) THEN Gain(sells[i]) ELSE 0]
           losses == [i \in DOMAIN sells |-> Lost(sells[i])]
<1>1. Len(sells) \in Nat /\ DOMAIN sells = 1 .. Len(sells)
  OBVIOUS
<1>2. ASSUME NEW i \in DOMAIN sells
      PROVE  /\ gains[i] \in Int /\ losses[i] \in Int /\ gains[i] + losses[i] = 0
  <2>1. sells[i] \in DaySell
    OBVIOUS
  <2>2. sells[i].filled \in Nat /\ sells[i].price \in Nat /\ sells[i].cost \in Nat
    BY <2>1 DEF DaySell
  <2>3. CASE sells[i].filled = 0
    <3>1. gains[i] = 0
      BY <2>3 DEF Counted
    <3>2. losses[i] = 0
      <4> DEFINE short == sells[i].cost - sells[i].price
      <4>1. losses[i] = IF sells[i].price > 0 /\ sells[i].cost > 0 THEN short * 0 ELSE 0
        BY <2>3 DEF Lost
      <4>2. short \in Int
        BY <2>2
      <4> HIDE DEF short, losses
      <4>3. short * 0 = 0
        BY <4>2
      <4> QED BY <4>1, <4>3
    <3> HIDE DEF gains, losses
    <3>3. gains[i] \in Int /\ losses[i] \in Int
      BY <3>1, <3>2
    <3> QED BY <3>1, <3>2, <3>3
  <2>4. CASE sells[i].filled > 0
    <3>1. Counted(sells[i]) <=> sells[i].price > 0 /\ sells[i].cost > 0
      BY <2>4 DEF Counted
    <3>2. CASE Counted(sells[i])
      <4> DEFINE f == sells[i].filled
                 p == sells[i].price
                 c == sells[i].cost
      <4>1. gains[i] = (p - c) * f
        BY <3>2 DEF Gain
      <4>2. losses[i] = (c - p) * f
        BY <3>1, <3>2 DEF Lost
      <4>3. f \in Nat /\ p \in Nat /\ c \in Nat
        BY <2>2
      <4> HIDE DEF f, p, c, gains, losses
      <4>4. p - c = -(c - p) /\ c - p \in Int
        BY <4>3
      <4>5. ASSUME NEW x \in Int PROVE (-x) * f = -(x * f) /\ x * f \in Int
        BY <4>3
      <4>6. (p - c) * f = -((c - p) * f) /\ (c - p) * f \in Int
        BY <4>4, <4>5
      <4>7. gains[i] \in Int /\ losses[i] \in Int
        BY <4>1, <4>2, <4>6
      <4> QED BY <4>1, <4>2, <4>6, <4>7
    <3>3. CASE ~ Counted(sells[i])
      <4>1. gains[i] = 0
        BY <3>3
      <4>2. losses[i] = 0
        BY <3>1, <3>3 DEF Lost
      <4> HIDE DEF gains, losses
      <4>3. gains[i] \in Int /\ losses[i] \in Int
        BY <4>1, <4>2
      <4> QED BY <4>1, <4>2, <4>3
    <3> QED BY <3>2, <3>3
  <2> QED BY <2>2, <2>3, <2>4
<1>3. gains \in Seq(Int) /\ losses \in Seq(Int) /\ Len(gains) = Len(losses)
  <2>1. gains \in [1 .. Len(sells) -> Int] /\ losses \in [1 .. Len(sells) -> Int]
    BY <1>1, <1>2
  <2> HIDE DEF gains, losses
  <2> QED BY <1>1, <2>1
<1>4. Len(gains) = Len(sells)
  <2>1. DOMAIN gains = 1 .. Len(sells)
    BY <1>1
  <2> HIDE DEF gains
  <2> QED BY <1>1, <1>3, <2>1
<1> HIDE DEF gains, losses
<1>5. SumSeq(gains) + SumSeq(losses) = 0
  BY <1>1, <1>2, <1>3, <1>4, OppositeSums
<1>6. SumSeq(losses) \in Int
  BY <1>3, SumIsLoop
<1>7. SumSeq(gains) \in Int
  BY <1>3, SumIsLoop
<1>8. SumSeq(gains) = -SumSeq(losses)
  BY <1>5, <1>6, <1>7
<1> QED BY <1>6, <1>8 DEF RealizedToday, gains, losses

LEMMA LossSound ==
  AskLoss /\ Answered("loss", LossExceeded(question.sells, question.base, question.limit))
    => LossNotOverlooked
<1> SUFFICES ASSUME AskLoss,
                    Answered("loss", LossExceeded(question.sells, question.base, question.limit)),
                    question.limit > 0
             PROVE  LossNotOverlooked
  BY DEF LossNotOverlooked
<1>1. PICK sells \in DaySells, base \in Bases, limit \in Limits :
        question = [kind |-> "loss", sells |-> sells, base |-> base, limit |-> limit]
  BY DEF AskLoss
<1>2. /\ question.sells = sells /\ question.base = base /\ question.limit = limit
      /\ answer.kind = "loss" /\ answer.value = LossExceeded(sells, base, limit)
  BY <1>1 DEF Answered
<1>3. sells \in Seq(DaySell) /\ base \in Nat /\ limit \in Nat /\ limit > 0
  BY <1>1, <1>2, LossAssumption
<1> DEFINE known == \A i \in DOMAIN sells :
                      sells[i].filled > 0 => sells[i].linked /\ sells[i].status \in Settled
           lost == SumSeq([i \in DOMAIN sells |-> Lost(sells[i])])
           open == \E i \in DOMAIN sells : sells[i].external /\ sells[i].price = 0 /\ sells[i].filled > 0
<1>4. known => lost \in Int /\ RealizedToday(sells) = -lost
  BY <1>3, RealizedIsLost
<1>5. (\E i \in DOMAIN sells : Unpriced(sells[i])) => open
  BY DEF Unpriced
<1> HIDE DEF known, lost, open
<1>6. known /\ base > 0 /\ lost > 0 /\ 100 * lost >= limit * base => LossExceeded(sells, base, limit)
  <2> SUFFICES ASSUME known, base > 0, lost > 0, 100 * lost >= limit * base
               PROVE  LossExceeded(sells, base, limit)
    OBVIOUS
  <2>1. RealizedToday(sells) < 0 /\ -100 * RealizedToday(sells) = 100 * lost
    BY <1>4
  <2> QED BY <1>3, <2>1 DEF LossExceeded
<1>7. known /\ LossExceeded(sells, base, limit) => 100 * lost >= limit * base \/ open
  <2> SUFFICES ASSUME known, LossExceeded(sells, base, limit), ~ open
               PROVE  100 * lost >= limit * base
    OBVIOUS
  <2>1. -100 * RealizedToday(sells) >= limit * base
    BY <1>5 DEF LossExceeded
  <2>2. -100 * RealizedToday(sells) = 100 * lost
    BY <1>4
  <2> QED BY <2>1, <2>2
<1> QED BY <1>2, <1>6, <1>7 DEF LossNotOverlooked, known, lost, open

\* guards.py, daily_loss_exceeded - for every day of sells, account value and limit,
\* the breaker stops new buys when the day lost the limit, and only then or when an
\* external close has no price.
THEOREM LossesNotOverlooked == Spec => []LossNotOverlooked
<1>1. ToldInv => LossNotOverlooked
  <2> SUFFICES ASSUME ToldInv PROVE LossNotOverlooked
    OBVIOUS
  <2>1. CASE answer.kind # "loss"
    BY <2>1 DEF LossNotOverlooked
  <2> QED BY <2>1, LossSound DEF ToldInv, Told, Answered, Kinds
<1> QED BY <1>1, AnswersAreTheCodes, PTL

-----------------------------------------------------------------------------
(* The simulated account *)

Shares == [qty : Int, cost : Int]

\* The shares a row adds, and what it is paid with.
Moved(r) == IF r.cancelled THEN 0 ELSE IF r.side = "buy" THEN r.qty ELSE -r.qty

\* mock.py, get_positions - every row moves the shares held by its own, and the cost
\* stays a number.
LEMMA BookedMoves ==
  ASSUME NEW h \in Shares, NEW r \in LedgerRow
  PROVE  /\ Booked(h, r) \in Shares
         /\ ~ r.cancelled => Booked(h, r).qty = h.qty + Moved(r)
<1>1. h.qty \in Int /\ h.cost \in Int /\ r.qty \in Nat /\ r.price \in Nat /\ r.side \in {"buy", "sell"}
  BY DEF Shares, LedgerRow
<1>2. CASE r.side = "buy"
  <2>1. r.qty * r.price \in Int
    BY <1>1
  <2>2. Booked(h, r) = [qty |-> h.qty + r.qty, cost |-> h.cost + r.qty * r.price]
    BY <1>2 DEF Booked
  <2>3. h.qty + r.qty \in Int /\ h.cost + r.qty * r.price \in Int
    BY <1>1, <2>1
  <2> QED BY <1>2, <2>2, <2>3 DEF Shares, Moved
<1>3. CASE r.side = "sell" /\ h.qty <= 0
  <2>1. Booked(h, r) = [h EXCEPT !.qty = @ - r.qty]
    BY <1>3 DEF Booked, Sold
  <2>2. h.qty - r.qty \in Int /\ h.qty - r.qty = h.qty + (-r.qty)
    BY <1>1
  <2>3. [h EXCEPT !.qty = @ - r.qty] = [qty |-> h.qty - r.qty, cost |-> h.cost]
    BY DEF Shares
  <2> QED BY <1>1, <1>3, <2>1, <2>2, <2>3 DEF Shares, Moved
<1>4. CASE r.side = "sell" /\ h.qty > 0
  <2> DEFINE sold    == IF r.qty < h.qty THEN r.qty ELSE h.qty
             average == h.cost \div h.qty
             cost    == IF sold = h.qty THEN 0 ELSE h.cost - average * sold
  <2>1. Booked(h, r) = [qty |-> h.qty - r.qty, cost |-> cost]
    BY <1>1, <1>4 DEF Booked, Sold
  <2>2. cost \in Int
    <3>1. sold \in Int
      BY <1>1
    <3>2. average \in Int
      BY <1>1, <1>4
    <3> HIDE DEF sold, average
    <3>3. average * sold \in Int
      BY <3>1, <3>2
    <3> QED BY <1>1, <3>3
  <2>3. h.qty - r.qty \in Int /\ h.qty - r.qty = h.qty + (-r.qty)
    BY <1>1
  <2> HIDE DEF cost
  <2> QED BY <1>4, <2>1, <2>2, <2>3 DEF Shares, Moved
<1> QED BY <1>1, <1>2, <1>3, <1>4

\* mock.py, get_positions - what the loop over the ledger ends with.
LEMMA HoldingIsLoop ==
  ASSUME NEW rows \in Seq(LedgerRow)
  PROVE  \E run \in [0 .. Len(rows) -> Shares] :
           /\ run[0] = NoShares
           /\ \A n \in 1 .. Len(rows) :
                run[n] = IF rows[n].cancelled THEN run[n - 1] ELSE Booked(run[n - 1], rows[n])
           /\ Holding(rows) = run[Len(rows)]
<1> DEFINE Step(f) == [n \in 0 .. Len(rows) |->
                         IF n = 0 THEN NoShares
                         ELSE IF rows[n].cancelled THEN f[n - 1] ELSE Booked(f[n - 1], rows[n])]
           after == CHOOSE f : f = Step(f)
<1>1. Len(rows) \in Nat /\ \A n \in 1 .. Len(rows) : rows[n] \in LedgerRow
  OBVIOUS
<1>2. PICK run \in [0 .. Len(rows) -> Shares] : run = Step(run)
  <2> DEFINE step == [n \in 1 .. Len(rows) |->
                        [h \in Shares |-> IF rows[n].cancelled THEN h ELSE Booked(h, rows[n])]]
  <2>1. step \in [1 .. Len(rows) -> [Shares -> Shares]]
    BY <1>1, BookedMoves
  <2>2. \A n \in 1 .. Len(rows), h \in Shares :
          step[n][h] = IF rows[n].cancelled THEN h ELSE Booked(h, rows[n])
    BY <1>1
  <2> HIDE DEF step
  <2>3. PICK run \in [0 .. Len(rows) -> Shares] :
          run[0] = NoShares /\ \A n \in 1 .. Len(rows) : run[n] = step[n][run[n - 1]]
    <3> DEFINE Value == Shares
               last == Len(rows)
               base == NoShares
    <3>1. last \in Nat /\ base \in Value /\ step \in [1 .. last -> [Value -> Value]]
      BY <1>1, <2>1 DEF NoShares, Shares
    <3> HIDE DEF Value, last, base
    <3>2. \E run \in [0 .. last -> Value] :
            run[0] = base /\ \A n \in 1 .. last : run[n] = step[n][run[n - 1]]
      BY <3>1, LoopExists
    <3> QED BY <3>2 DEF Value, last, base
  <2>4. ASSUME NEW n \in 0 .. Len(rows)
        PROVE  run[n] = IF n = 0 THEN NoShares
                        ELSE IF rows[n].cancelled THEN run[n - 1] ELSE Booked(run[n - 1], rows[n])
    <3>1. CASE n = 0
      BY <1>1, <2>3, <3>1
    <3>2. CASE n # 0
      <4>1. n \in 1 .. Len(rows) /\ run[n - 1] \in Shares
        BY <1>1, <2>3, <3>2
      <4>2. run[n] = step[n][run[n - 1]]
        BY <2>3, <4>1
      <4> QED BY <2>2, <3>2, <4>1, <4>2
    <3> QED BY <3>1, <3>2
  <2> QED BY <2>3, <2>4
<1>3. \E f : f = Step(f)
  BY <1>2
<1>4. after = Step(after)
  BY <1>3
<1>5. Holding(rows) = after[Len(rows)]
  BY DEF Holding
<1>6. /\ after[0] = NoShares
      /\ \A n \in 1 .. Len(rows) :
           after[n] = IF rows[n].cancelled THEN after[n - 1] ELSE Booked(after[n - 1], rows[n])
  <2> HIDE DEF after
  <2>1. ASSUME NEW n \in 0 .. Len(rows)
        PROVE  after[n] = IF n = 0 THEN NoShares
                          ELSE IF rows[n].cancelled THEN after[n - 1]
                               ELSE Booked(after[n - 1], rows[n])
    <3>1. after[n] = Step(after)[n]
      <4> HIDE DEF Step
      <4> QED BY <1>4
    <3> QED BY <3>1
  <2>2. 0 \in 0 .. Len(rows) /\ \A n \in 1 .. Len(rows) : n \in 0 .. Len(rows) /\ n # 0
    BY <1>1
  <2> QED BY <2>1, <2>2
<1> DEFINE good == {n \in 0 .. Len(rows) : after[n] \in Shares}
<1>7. good = 0 .. Len(rows)
  <2> HIDE DEF after
  <2>1. 0 \in good
    BY <1>1, <1>6 DEF NoShares, Shares
  <2>2. ASSUME NEW n \in 0 .. Len(rows) - 1, n \in good PROVE n + 1 \in good
    <3>1. n + 1 \in 1 .. Len(rows) /\ (n + 1) - 1 = n /\ n + 1 \in 0 .. Len(rows)
      BY <1>1
    <3>2. after[n + 1] = IF rows[n + 1].cancelled THEN after[n] ELSE Booked(after[n], rows[n + 1])
      BY <1>6, <3>1
    <3>3. after[n] \in Shares /\ rows[n + 1] \in LedgerRow
      BY <1>1, <2>2, <3>1
    <3>4. Booked(after[n], rows[n + 1]) \in Shares
      BY <3>3, BookedMoves
    <3> QED BY <3>1, <3>2, <3>3, <3>4
  <2> HIDE DEF good
  <2>3. good \in SUBSET (0 .. Len(rows))
    BY DEF good
  <2> QED BY <1>1, <2>1, <2>2, <2>3, CountUp
<1>8. after \in [0 .. Len(rows) -> Shares]
  <2>1. after = [n \in 0 .. Len(rows) |-> after[n]]
    BY <1>4
  <2> QED BY <1>7, <2>1
<1> HIDE DEF after
<1> QED BY <1>5, <1>6, <1>8

\* mock.py, get_positions - what is held is what the rows moved, added up.
LEMMA HeldIsMoved ==
  ASSUME NEW rows \in Seq(LedgerRow)
  PROVE  /\ Holding(rows).qty \in Int
         /\ Holding(rows).qty = SumSeq([i \in DOMAIN rows |-> Moved(rows[i])])
<1> DEFINE moves == [i \in DOMAIN rows |-> Moved(rows[i])]
<1>1. Len(rows) \in Nat /\ DOMAIN rows = 1 .. Len(rows)
      /\ \A n \in 1 .. Len(rows) : rows[n] \in LedgerRow
  OBVIOUS
<1>2. \A n \in 1 .. Len(rows) : Moved(rows[n]) \in Int
  <2>1. ASSUME NEW r \in LedgerRow PROVE Moved(r) \in Int
    <3>1. r.qty \in Int /\ -r.qty \in Int
      BY DEF LedgerRow
    <3> QED BY <3>1 DEF Moved
  <2> QED BY <1>1, <2>1
<1>3. moves \in Seq(Int) /\ Len(moves) = Len(rows) /\ \A n \in 1 .. Len(rows) : moves[n] = Moved(rows[n])
  <2>1. moves \in [1 .. Len(rows) -> Int] /\ \A n \in 1 .. Len(rows) : moves[n] = Moved(rows[n])
    BY <1>1, <1>2
  <2> HIDE DEF moves
  <2>2. moves \in Seq(Int) /\ DOMAIN moves = 1 .. Len(rows)
    BY <1>1, <2>1
  <2> QED BY <1>1, <2>1, <2>2
<1> HIDE DEF moves
<1>4. PICK sum \in [0 .. Len(rows) -> Int] :
        /\ sum[0] = 0 /\ \A n \in 1 .. Len(rows) : sum[n] = sum[n - 1] + moves[n]
        /\ SumSeq(moves) = sum[Len(rows)]
  BY <1>3, SumIsLoop
<1>5. PICK run \in [0 .. Len(rows) -> Shares] :
        /\ run[0] = NoShares
        /\ \A n \in 1 .. Len(rows) :
             run[n] = IF rows[n].cancelled THEN run[n - 1] ELSE Booked(run[n - 1], rows[n])
        /\ Holding(rows) = run[Len(rows)]
  BY HoldingIsLoop
<1> DEFINE good == {n \in 0 .. Len(rows) : run[n].qty = sum[n]}
<1>6. good = 0 .. Len(rows)
  <2>1. 0 \in good
    BY <1>1, <1>4, <1>5 DEF NoShares
  <2>2. ASSUME NEW n \in 0 .. Len(rows) - 1, n \in good PROVE n + 1 \in good
    <3>1. n + 1 \in 1 .. Len(rows) /\ (n + 1) - 1 = n /\ n + 1 \in 0 .. Len(rows) /\ n \in 0 .. Len(rows)
      BY <1>1
    <3>2. run[n + 1] = IF rows[n + 1].cancelled THEN run[n] ELSE Booked(run[n], rows[n + 1])
      BY <1>5, <3>1
    <3>3. sum[n + 1] = sum[n] + Moved(rows[n + 1])
      BY <1>3, <1>4, <3>1
    <3>4. run[n] \in Shares /\ rows[n + 1] \in LedgerRow /\ sum[n] \in Int /\ run[n].qty = sum[n]
      BY <1>1, <1>4, <1>5, <2>2, <3>1
    <3>5. ~ rows[n + 1].cancelled => Booked(run[n], rows[n + 1]).qty = run[n].qty + Moved(rows[n + 1])
      BY <3>4, BookedMoves
    <3>6. rows[n + 1].cancelled => Moved(rows[n + 1]) = 0
      BY DEF Moved
    <3>7. run[n + 1].qty = sum[n + 1]
      <4>1. CASE rows[n + 1].cancelled
        <5>1. sum[n + 1] = sum[n]
          BY <3>3, <3>4, <3>6, <4>1
        <5> QED BY <3>2, <3>4, <4>1, <5>1
      <4>2. CASE ~ rows[n + 1].cancelled
        BY <3>2, <3>3, <3>4, <3>5, <4>2
      <4> QED BY <4>1, <4>2
    <3> QED BY <3>1, <3>7
  <2> HIDE DEF good
  <2>3. good \in SUBSET (0 .. Len(rows))
    BY DEF good
  <2> QED BY <1>1, <2>1, <2>2, <2>3, CountUp
<1>7. run[Len(rows)].qty = sum[Len(rows)]
  BY <1>1, <1>6
<1>8. sum[Len(rows)] \in Int
  BY <1>1, <1>4
<1> QED BY <1>4, <1>5, <1>7, <1>8 DEF moves

\* mock.py, get_order_fill - an order of its own id is filled in full or cancelled.
LEMMA FillOfRow ==
  ASSUME NEW rows \in Seq(LedgerRow), NEW i \in DOMAIN rows,
         \A j \in DOMAIN rows : rows[j].id = rows[i].id => j = i
  PROVE  Fill(rows, rows[i].id) =
           IF rows[i].cancelled THEN [status |-> "cancelled", qty |-> 0, price |-> 0]
           ELSE [status |-> "filled", qty |-> rows[i].qty, price |-> rows[i].price]
<1> DEFINE found == Matching(rows, rows[i].id)
<1>1. found = {i} /\ i \in Nat
  BY DEF Matching
<1>2. Min(found) = i
  <2> HIDE DEF found
  <2>1. found \in SUBSET Nat /\ found # {}
    BY <1>1
  <2>2. Min(found) \in found
    BY <2>1, LeastIsFound
  <2> QED BY <1>1, <2>2
<1> QED BY <1>1, <1>2 DEF Fill

LEMMA BookSound == AskBook /\ Answered("book", BookTold) => BooksAgree
<1> SUFFICES ASSUME AskBook, Answered("book", BookTold) PROVE BooksAgree
  OBVIOUS
<1>1. PICK rows \in LedgerRows : question = [kind |-> "book", rows |-> rows]
  BY DEF AskBook
<1>2. rows \in Seq(LedgerRow) /\ \A i, j \in DOMAIN rows : rows[i].id = rows[j].id => i = j
  BY LedgerAssumption
<1>3. DOMAIN rows = 1 .. Len(rows) /\ Len(rows) \in Nat
  BY <1>2
<1> DEFINE fills == [i \in DOMAIN rows |-> Fill(rows, rows[i].id)]
           sign(i) == IF rows[i].side = "buy" THEN 1 ELSE -1
           net == [i \in DOMAIN rows |-> sign(i) * fills[i].qty]
           spent == [i \in DOMAIN rows |->
                       IF rows[i].injected THEN 0 ELSE sign(i) * fills[i].qty * fills[i].price]
           moves == [i \in DOMAIN rows |-> Moved(rows[i])]
           paid == [i \in DOMAIN rows |-> Paid(rows[i])]
<1>4. /\ question.rows = rows /\ answer.kind = "book"
      /\ answer.value = [held |-> Reported(rows), cash |-> CashLeft(rows), fills |-> fills]
  BY <1>1 DEF Answered, BookTold
<1>5. ASSUME NEW i \in DOMAIN rows
      PROVE  /\ fills[i].qty = IF rows[i].cancelled THEN 0 ELSE rows[i].qty
             /\ fills[i].price = IF rows[i].cancelled THEN 0 ELSE rows[i].price
             /\ rows[i].qty \in Nat /\ rows[i].price \in Nat
  <2>1. rows[i] \in LedgerRow
    BY <1>2
  <2>2. fills[i] = IF rows[i].cancelled THEN [status |-> "cancelled", qty |-> 0, price |-> 0]
                   ELSE [status |-> "filled", qty |-> rows[i].qty, price |-> rows[i].price]
    BY <1>2, FillOfRow
  <2> QED BY <2>1, <2>2 DEF LedgerRow
<1> HIDE DEF fills
<1>6. ASSUME NEW i \in DOMAIN rows
      PROVE  /\ net[i] = moves[i]
             /\ paid[i] \in Int /\ spent[i] \in Int /\ paid[i] + spent[i] = 0
  <2> DEFINE q == rows[i].qty
             p == rows[i].price
  <2>1. q \in Nat /\ p \in Nat /\ q * p \in Int
    BY <1>5
  <2>2. net[i] = sign(i) * fills[i].qty
    OBVIOUS
  <2>3. spent[i] = IF rows[i].injected THEN 0 ELSE sign(i) * fills[i].qty * fills[i].price
    OBVIOUS
  <2>4. moves[i] = Moved(rows[i]) /\ paid[i] = Paid(rows[i])
    OBVIOUS
  <2>5. CASE rows[i].cancelled
    <3>1. fills[i].qty = 0 /\ fills[i].price = 0
      BY <1>5, <2>5
    <3>2. moves[i] = 0 /\ paid[i] = 0
      BY <2>4, <2>5 DEF Moved, Paid
    <3>3. sign(i) \in Int
      OBVIOUS
    <3> HIDE DEF sign
    <3>4. sign(i) * 0 = 0 /\ sign(i) * 0 * 0 = 0
      BY <3>3
    <3> HIDE DEF net, spent, moves, paid
    <3>5. net[i] = 0 /\ spent[i] = 0
      BY <2>2, <2>3, <3>1, <3>4
    <3> QED BY <3>2, <3>5
  <2>6. CASE ~ rows[i].cancelled /\ rows[i].side = "buy"
    <3>1. fills[i].qty = q /\ fills[i].price = p /\ sign(i) = 1
      BY <1>5, <2>6
    <3>2. moves[i] = q /\ paid[i] = IF rows[i].injected THEN 0 ELSE -(q * p)
      BY <2>4, <2>6 DEF Moved, Paid
    <3> HIDE DEF q, p, sign, net, spent, moves, paid
    <3>3. net[i] = 1 * q /\ spent[i] = IF rows[i].injected THEN 0 ELSE 1 * q * p
      BY <2>2, <2>3, <3>1
    <3> QED BY <2>1, <3>2, <3>3
  <2>7. CASE ~ rows[i].cancelled /\ rows[i].side # "buy"
    <3>1. fills[i].qty = q /\ fills[i].price = p /\ sign(i) = -1
      BY <1>5, <2>7
    <3>2. moves[i] = -q /\ paid[i] = IF rows[i].injected THEN 0 ELSE q * p
      BY <2>4, <2>7 DEF Moved, Paid
    <3> HIDE DEF q, p, sign, net, spent, moves, paid
    <3>3. net[i] = (-1) * q /\ spent[i] = IF rows[i].injected THEN 0 ELSE (-1) * q * p
      BY <2>2, <2>3, <3>1
    <3>4. (-1) * q = -q /\ (-q) * p = -(q * p)
      BY <2>1
    <3> QED BY <2>1, <3>2, <3>3, <3>4
  <2> QED BY <2>5, <2>6, <2>7
<1>7. net = moves
  BY <1>6
<1>8. /\ paid \in Seq(Int) /\ spent \in Seq(Int)
      /\ Len(paid) = Len(rows) /\ Len(spent) = Len(rows)
  <2>1. /\ paid \in [1 .. Len(rows) -> Int] /\ spent \in [1 .. Len(rows) -> Int]
    BY <1>3, <1>6
  <2> HIDE DEF paid, spent
  <2>2. /\ paid \in Seq(Int) /\ DOMAIN paid = 1 .. Len(rows)
        /\ spent \in Seq(Int) /\ DOMAIN spent = 1 .. Len(rows)
    BY <1>3, <2>1
  <2> QED BY <1>3, <2>2
<1> HIDE DEF paid, spent, net, moves
<1>9. SumSeq(paid) + SumSeq(spent) = 0
  BY <1>3, <1>6, <1>8, OppositeSums
<1>10. SumSeq(paid) \in Int /\ SumSeq(spent) \in Int
  BY <1>8, SumIsLoop
<1>11. CashLeft(rows) = StartingCash - SumSeq(spent)
  <2>1. CashLeft(rows) = StartingCash + SumSeq(paid)
    BY DEF CashLeft, paid
  <2> QED BY <1>9, <1>10, <2>1, StartAssumption
<1>12. Reported(rows).qty = IF SumSeq(net) > 0 THEN SumSeq(net) ELSE 0
  <2>1. Holding(rows).qty = SumSeq(net)
    BY <1>2, <1>7, HeldIsMoved DEF moves
  <2> QED BY <2>1 DEF Reported, NoShares
<1> QED BY <1>4, <1>11, <1>12 DEF BooksAgree, net, spent

\* mock.py, get_positions, get_cash_balance and get_order_fill - for every ledger whose
\* orders have ids of their own, the three readings of it agree.
THEOREM BooksAlwaysAgree == Spec => []BooksAgree
<1>1. ToldInv => BooksAgree
  <2> SUFFICES ASSUME ToldInv PROVE BooksAgree
    OBVIOUS
  <2>1. CASE answer.kind # "book"
    BY <2>1 DEF BooksAgree
  <2> QED BY <2>1, BookSound DEF ToldInv, Told, Answered, Kinds
<1> QED BY <1>1, AnswersAreTheCodes, PTL

=============================================================================
