----------------------------- MODULE TossOrders -----------------------------
(***************************************************************************)
(* What the Toss adapter (broker/toss.py) sends and answers: the price of  *)
(* an order, the fat-finger guard, conditional orders with their one or    *)
(* two legs, and the account's value in one currency.                      *)
(*                                                                         *)
(* A request the adapter refuses itself is Refused.  Requests carry a      *)
(* clientOrderId that is good, missing or malformed, and an expiry date    *)
(* that is past or not.                                                    *)
(***************************************************************************)
EXTENDS Pricing

CONSTANT HighValue      \* _HIGH_VALUE_ORDER_KRW

ASSUME TossAssumption == HighValue \in Nat

Refused == [sent |-> FALSE]
NoLeg   == [side |-> "none", trigger |-> 0, price |-> 0, aggressive |-> FALSE]

\* _decimal_string; a price rounded to whole ticks is a whole number of won.
Sendable(p) == p > 0

(***************************************************************************)
(* Orders                                                                  *)
(***************************************************************************)
\* normalize_order; no price (a market order) is 0.
Normalized(o) ==
  IF o.type = "LIMIT" THEN [o EXCEPT !.price = RoundPassive(o.price, o.market, o.side, o.security)]
  ELSE o

\* _guard_high_value: only a Korean limit order has a notional in won.
HighNotional(o) ==
  o.type = "LIMIT" /\ o.market = "KR" /\ o.price * o.quantity >= HighValue * Unit("KR")

\* _submit_order up to the request, for place_order and recover_order alike.
Submitted(order, settings) ==
  LET o == Normalized(order) IN
  IF \/ order.type = "LIMIT" /\ order.price <= 0
     \/ ~ settings.live \/ o.quantity <= 0
     \/ o.type = "LIMIT" /\ ~ Sendable(o.price)
     \/ HighNotional(o) /\ ~ settings.highValue
  THEN Refused
  ELSE [sent |-> TRUE, price |-> o.price, quantity |-> o.quantity,
        confirmed |-> HighNotional(o)]

(***************************************************************************)
(* Conditional orders                                                      *)
(***************************************************************************)
\* The shape checks of _conditional_payload.
WellFormed(r) ==
  /\ r.quantity > 0 /\ ~ r.expired /\ r.key = "good"
  /\ r.strategy = "SINGLE" => r.second = NoLeg
  /\ r.strategy # "SINGLE" => r.second # NoLeg /\ r.type = "LIMIT"
  /\ r.strategy = "OCO" => r.first.side = "sell" /\ r.second.side = "sell"
  /\ r.strategy = "OTO" => r.first.side = "buy" /\ r.second.side = "sell"

\* Rounding is forced by the strategy: an OCO's lower leg goes toward
\* execution, every other leg of two is passive; a single leg says itself.
Aggressive(r, which) ==
  IF r.strategy = "SINGLE" THEN r.first.aggressive ELSE r.strategy = "OCO" /\ which = "second"

\* leg_payload; a market leg has no order price.
Leg(r, leg, which) ==
  LET Rounded(p) == IF Aggressive(r, which)
                    THEN RoundAggressive(p, r.market, leg.side, r.security)
                    ELSE RoundPassive(p, r.market, leg.side, r.security)
  IN  [side |-> leg.side, trigger |-> Rounded(leg.trigger),
       price |-> IF r.type = "LIMIT" /\ leg.price > 0 THEN Rounded(leg.price) ELSE 0]

LegFits(r, leg, which) ==
  /\ leg.trigger > 0 /\ Sendable(Leg(r, leg, which).trigger)
  /\ r.type = "LIMIT" => leg.price > 0 /\ Sendable(Leg(r, leg, which).price)
  /\ r.type = "MARKET" => leg.price = 0

\* _conditional_payload
Conditional(r) ==
  LET first  == Leg(r, r.first, "first")
      second == IF r.second = NoLeg THEN NoLeg ELSE Leg(r, r.second, "second")
  IN  IF \/ ~ WellFormed(r) \/ ~ LegFits(r, r.first, "first")
         \/ r.second # NoLeg /\ ~ LegFits(r, r.second, "second")
         \/ r.strategy = "OCO" /\ (first.trigger <= second.trigger \/ second.price > second.trigger)
      THEN Refused
      ELSE [sent |-> TRUE, first |-> first, second |-> second]

\* create_conditional_order behind _require_live_orders.
Created(r, settings) == IF settings.live THEN Conditional(r) ELSE Refused

\* _protective_stop_request
ProtectiveStopRequest(market, security, quantity, stop) ==
  [strategy |-> "SINGLE", market |-> market, security |-> security, quantity |-> quantity,
   type |-> "MARKET", expired |-> FALSE, key |-> "good", second |-> NoLeg,
   first |-> [side |-> "sell", trigger |-> stop, price |-> 0, aggressive |-> TRUE]]

(***************************************************************************)
(* The account                                                             *)
(***************************************************************************)
\* get_cash_balance: the market's own currency.
MutBuyingPower(a, market) == a.krw.cash + a.usd.cash * a.rate
BuyingPower(a, market) == IF market = "KR" THEN a.krw.cash ELSE a.usd.cash

Holdings(a, market) == IF market = "KR" THEN a.krw.securities ELSE a.usd.securities

\* portfolio_value: both currencies at the middle rate; 0 when the venue
\* cannot price the pair, which the sizing takes for a failed valuation.
PortfolioValue(a, market) ==
  LET won == a.krw.cash + a.krw.securities + (a.usd.cash + a.usd.securities) * a.rate
  IN  IF a.rate <= 0 THEN 0 ELSE IF market = "KR" THEN won ELSE won \div a.rate

Balance(a, market) ==
  [known |-> a.known, cash |-> BuyingPower(a, market), securities |-> Holdings(a, market),
   total |-> BuyingPower(a, market) + Holdings(a, market),
   portfolio |-> PortfolioValue(a, market)]
=============================================================================
