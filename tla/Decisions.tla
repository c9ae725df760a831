----------------------------- MODULE Decisions ------------------------------
(***************************************************************************)
(* The decisions of the bot that are computed from what it has just read:  *)
(* prices and sizes of orders (Pricing, TossOrders), whether the market is *)
(* open and the day's loss is too large (MarketHours), whether a name is   *)
(* worth buying (Signal), the simulated broker's account (MockLedger) and  *)
(* what the dashboard says of it all (SafetyPanel).  A behaviour asks one  *)
(* question and gets the code's answer; the properties compare it with     *)
(* what is so.                                                             *)
(***************************************************************************)
EXTENDS TossOrders, MarketHours, MockLedger, Signal, SafetyPanel

CONSTANTS
  Prices,          \* order prices, in units
  Charts,          \* closes, ranges and averages a plan is made of
  Accounts,        \* accounts at the venue
  Percent,         \* risk_per_trade_pct and max_position_pct
  Calendars,       \* what the exchange does on each day
  DaySells,        \* sells of the day
  Bases,           \* account values a day's loss is compared with
  Limits,          \* daily_loss_limit_pct
  LedgerRows,      \* ledgers of the simulated broker
  Facts,           \* what an analysis reads of a name
  Banners,         \* what the probes of the safety banner find
  Rows             \* what the gates find of a watchlist row

\* What the code computes with: close, average true range, 50-day average, 20-day
\* low and the range of 60 days; won and dollars, and won to the dollar.
Chart60 ==
  [close : Nat, atr : Nat, sma : Nat, low20 : Nat, high60 : Nat, low60 : Nat]

Purse == [cash : Nat, securities : Nat]

ASSUME DecisionsAssumption == Prices \subseteq Nat

ASSUME SizeAssumption ==
  /\ Charts \subseteq {c \in Chart60 : c.low60 <= c.high60}
  /\ Accounts \subseteq [krw : Purse, usd : Purse, rate : Nat, known : BOOLEAN]
  /\ Percent \subseteq Nat

ASSUME HoursAssumption == \A days \in Calendars : DOMAIN days \subseteq Nat

\* A sell of the day and a row of the simulated ledger, as they are read.
DaySell == [status : STRING, filled : Nat, price : Nat, linked : BOOLEAN, cost : Nat,
            external : BOOLEAN]
LedgerRow == [id : Nat, side : {"buy", "sell"}, qty : Nat, price : Nat,
              injected : BOOLEAN, cancelled : BOOLEAN]

ASSUME LossAssumption == DaySells \subseteq Seq(DaySell) /\ Bases \subseteq Nat /\ Limits \subseteq Nat

\* Every order and injected holding of the simulated broker gets a uuid.
ASSUME LedgerAssumption ==
  /\ LedgerRows \subseteq Seq(LedgerRow)
  /\ \A rows \in LedgerRows : \A i, j \in DOMAIN rows : rows[i].id = rows[j].id => i = j

ASSUME SignalAssumption == Facts \subseteq Analysis

ASSUME PanelAssumption == Banners \subseteq Probed /\ Rows \subseteq Gates

VARIABLES question, answer

vars == <<question, answer>>

NoAnswer == [kind |-> "none"]
Market == {"KR", "US"}
Side == {"buy", "sell"}
Settings == [live : BOOLEAN, highValue : BOOLEAN]
AllSettings == [live |-> TRUE, highValue |-> TRUE]

(***************************************************************************)
(* Questions                                                               *)
(***************************************************************************)
AskOrder ==
  \E m \in Market, s \in Side, k \in Security, p \in Prices, set \in Settings, n \in {1, 100} :
    question = [kind |-> "order", market |-> m, side |-> s, security |-> k, price |-> p,
                quantity |-> n, type |-> "LIMIT", settings |-> set]

AskStop ==
  \E m \in Market, k \in Security, p \in Prices :
    question = [kind |-> "stop", market |-> m, security |-> k, price |-> p]

AskPair ==
  \E m \in Market, st \in {"OCO", "OTO"}, s1, s2 \in Side, p, q, r \in Prices :
    question = [kind |-> "pair", strategy |-> st, market |-> m, security |-> "STOCK",
                quantity |-> 1, type |-> "LIMIT", expired |-> FALSE, key |-> "good",
                first  |-> [side |-> s1, trigger |-> p, price |-> p, aggressive |-> FALSE],
                second |-> [side |-> s2, trigger |-> q, price |-> r, aggressive |-> FALSE]]

AskSize ==
  \E m \in Market, c \in Charts, a \in Accounts, risk \in Percent, cap \in Percent \cup {0} :
    question = [kind |-> "size", market |-> m, chart |-> c, account |-> a,
                risk |-> risk, cap |-> cap]

\* The calendar was fetched one or two slots before t, or not at all.
AskHours ==
  \E days \in Calendars : \E t \in Slots .. 3 * Slots - 1, age \in {1, 2} :
    \E payload, now \in {DOMAIN days, {DayOf(t)}, {DayOf(t) + 1}, {}},
       verified \in BOOLEAN, extra \in {{}, {DayOf(t)}} :
      question = [kind |-> "hours", days |-> days, t |-> t, verified |-> verified,
                  extra |-> extra, now |-> now,
                  cache |-> [at |-> t - age, windows |-> Fetch(days, t - age, payload)]]

AskLoss ==
  \E sells \in DaySells, base \in Bases, limit \in Limits :
    question = [kind |-> "loss", sells |-> sells, base |-> base, limit |-> limit]

AskBook == \E rows \in LedgerRows : question = [kind |-> "book", rows |-> rows]

AskSignal == \E f \in Facts : question = [kind |-> "signal", facts |-> f]
AskBanner == \E s \in Banners : question = [kind |-> "banner", state |-> s]
AskGates  == \E g \in Rows : question = [kind |-> "gates", row |-> g]

Init ==
  /\ \/ AskOrder \/ AskStop \/ AskPair \/ AskSize \/ AskHours \/ AskLoss \/ AskBook
     \/ AskSignal \/ AskBanner \/ AskGates
  /\ answer = NoAnswer

(***************************************************************************)
(* Answers                                                                 *)
(***************************************************************************)
Reply(kind, value) ==
  /\ answer = NoAnswer /\ question.kind = kind
  /\ answer' = [kind |-> kind, value |-> value]
  /\ UNCHANGED question

PlaceOrder == Reply("order", Submitted(question, question.settings))

PlaceStop ==
  Reply("stop", Created(ProtectiveStopRequest(question.market, question.security, 1, question.price),
                        AllSettings))

PlacePair == Reply("pair", Created(question, AllSettings))

\* The watchlist loop from a buy signal to the order's quantity and limit.
Sized(q) ==
  LET b    == Balance(q.account, q.market)
      plan == Plan(q.chart, [reward |-> 3, risk |-> 2])
      n    == PositionSize(b, EntryPrice(q.chart, q.market), plan.stop, q.risk, q.cap)
  IN  [quantity |-> n, plan |-> plan,
       limit |-> RoundPassive(EntryPrice(q.chart, q.market), q.market, "buy", "STOCK"),
       passed |-> n > 0 /\ Preflight(b, EntryPrice(q.chart, q.market), n, q.cap)]

SizePosition == Reply("size", Sized(question))

TellHours ==
  LET q == question
  IN  Reply("hours", Status(Sessions(q.cache, q.days, q.t, q.now), q.days, q.verified, q.extra, q.t))

TellLoss == Reply("loss", LossExceeded(question.sells, question.base, question.limit))

ReadBook ==
  LET rows == question.rows
  IN  Reply("book", [held  |-> Reported(rows), cash |-> CashLeft(rows),
                     fills |-> [i \in DOMAIN rows |-> Fill(rows, rows[i].id)]])

Analyse ==
  Reply("signal", [total |-> Total(question.facts), bought |-> Bought(question.facts)])

ShowBanner == Reply("banner", Level(question.state))

ShowGates ==
  Reply("gates", [panel |-> PanelGate(question.row), sweep |-> SweepGate(question.row)])

Next ==
  \/ PlaceOrder
  \/ PlaceStop
  \/ PlacePair
  \/ SizePosition
  \/ TellHours
  \/ TellLoss
  \/ ReadBook
  \/ Analyse
  \/ ShowBanner
  \/ ShowGates

Spec == Init /\ [][Next]_vars

(***************************************************************************)
(* Properties                                                              *)
(***************************************************************************)
Sent(kind) == answer.kind = kind /\ answer.value.sent

\* A price that leaves the bot is one the exchange takes - a multiple of the
\* tick at its own level, also when rounding crosses into another tick band -
\* and it is on the safe side of the one asked for: an order never pays more
\* or takes less, a protective stop never sells earlier, an OCO's lower leg
\* still triggers below the upper one and sells at or below its trigger.
PriceOnSafeSide ==
  /\ Sent("order") =>
       LET p == answer.value.price IN
       /\ p > 0 /\ ValidPrice(p, question.market, question.security)
       /\ IF question.side = "buy" THEN p <= question.price ELSE p >= question.price
  /\ Sent("stop") =>
       LET p == answer.value.first.trigger IN
       /\ p > 0 /\ p <= question.price
       /\ ValidPrice(p, question.market, question.security)
       /\ question.price - p < TickSize(question.price, question.market, question.security)
  /\ Sent("pair") =>
       LET up == answer.value.first  down == answer.value.second IN
       /\ \A p \in {up.trigger, up.price, down.trigger, down.price} :
            p > 0 /\ ValidPrice(p, question.market, "STOCK")
       /\ question.strategy = "OCO" =>
            /\ down.price <= down.trigger /\ down.trigger < up.trigger
            /\ down.trigger <= question.second.trigger /\ up.price >= question.first.price

\* A buy that is sent fits the cash of its own currency and the position cap,
\* loses at most the risk budget when the venue's stop, rounded down by less
\* than a tick, fills at its trigger, and any fill between the low of the buy
\* zone and the limit is worth at least the promised reward for its risk.  A
\* size the pre-flight then refuses is within its half per cent of the cash or
\* the cap that sizing spends to the last share.
SizeWithinBudget ==
  answer.kind = "size" /\ answer.value.quantity > 0 =>
    LET v    == answer.value
        m    == question.market
        own  == IF m = "KR" THEN question.account.krw ELSE question.account.usd
        base == IF question.account.rate > 0 THEN PortfolioValue(question.account, m)
                ELSE own.cash + own.securities
        stop == FloorToTick(v.plan.stop, m, "STOCK")
        cost == v.quantity * EntryPrice(question.chart, m)
    IN  /\ v.quantity * v.limit <= own.cash
        /\ ~ v.passed =>
             \/ 201 * cost > 200 * own.cash
             \/ question.cap > 0 /\ 201 * cost > 2 * base * question.cap
        /\ question.cap > 0 => v.quantity * v.limit * 100 <= base * question.cap
        /\ 100 * v.quantity * (v.limit - stop)
             <= base * question.risk + 100 * v.quantity * TickSize(v.plan.stop, m, "STOCK")
        /\ \A fill \in {Lower(v.limit, v.plan.entry), (question.chart.close * 99) \div 100} :
             AtLeast(Ratio(fill, v.plan.stop, v.plan.target1), v.plan.rr)

\* The bot calls a market open only while the exchange trades and the operator
\* has not closed it: with a fresh, a stale, a partial or no calendar, past
\* its last window, and in a year the table does not cover.  A closure only
\* the venue knows of escapes when its calendar is of no help: it gave no
\* window, or none that opens later than now, so that the table decided.  And
\* the bot does not sleep through a session of a covered year that the
\* calendar, when there is one, lists.
OpenOnlyInSession ==
  answer.kind = "hours" =>
    LET d == DayOf(question.t)
        windows == Sessions(question.cache, question.days, question.t, question.now)
    IN  /\ answer.value.open =>
             /\ \/ InSession(question.days, question.t)
                \/ question.days[d] = "special" /\ \A w \in windows : w.start <= question.t
             /\ d \notin question.extra
             /\ ~ question.verified => windows # {}
        /\ InSession(question.days, question.t) /\ question.verified /\ d \notin question.extra
             /\ (windows = {} \/ \E w \in windows : Covers(w, question.t))
             => answer.value.open
        /\ ~ answer.value.open => answer.value.next = -1 \/ answer.value.next > question.t

\* New buys stop when the fills of the day's sells lost the limit or more, or
\* when an external close has no price; a loss is overlooked only while the
\* sell is still working, has no price, has lost its buy or that has no price,
\* or the account has no value.
Lost(s) == IF s.price > 0 /\ s.cost > 0 THEN (s.cost - s.price) * s.filled ELSE 0

LossNotOverlooked ==
  answer.kind = "loss" /\ question.limit > 0 =>
    LET sells == question.sells
        known == \A i \in DOMAIN sells :
                   sells[i].filled > 0 => sells[i].linked /\ sells[i].status \in Settled
        lost  == SumSeq([i \in DOMAIN sells |-> Lost(sells[i])])
    IN  /\ known /\ question.base > 0 /\ lost > 0 /\ 100 * lost >= question.limit * question.base
             => answer.value
        /\ known /\ answer.value =>
             \/ 100 * lost >= question.limit * question.base
             \/ \E i \in DOMAIN sells : sells[i].external /\ sells[i].price = 0 /\ sells[i].filled > 0

\* The three readings of one simulated ledger agree: the fills reported per
\* order add up to the shares reported as held (none when the ledger sold more
\* than it bought) and to the money reported as spent.  Reconciliation takes
\* a difference for a sale.
BooksAgree ==
  answer.kind = "book" =>
    LET rows    == question.rows
        fills   == answer.value.fills
        sign(i) == IF rows[i].side = "buy" THEN 1 ELSE -1
        net     == SumSeq([i \in DOMAIN rows |-> sign(i) * fills[i].qty])
        spent   == SumSeq([i \in DOMAIN rows |->
                      IF rows[i].injected THEN 0 ELSE sign(i) * fills[i].qty * fills[i].price])
    IN  /\ answer.value.held.qty = IF net > 0 THEN net ELSE 0
        /\ answer.value.cash = StartingCash - spent

\* A name that goes on to be bought met the standard score and ratio, or one
\* of the relaxed pairs, never both relaxations at once; without any earnings
\* figure only good news on a chart at most a point short of the 20, with a wide
\* reward, reaches the score; news that is bad, missing or unreadable never
\* helps; and where the venue can be asked it did not say or fail to say
\* otherwise.
Grade(f) == CASE Decided(f) = "Strong Buy" -> 2 [] Decided(f) = "Buy" -> 1 [] OTHER -> 0

NoNews == [answered |-> FALSE]

SignalSound ==
  answer.kind = "signal" =>
    LET f     == question.facts
        total == answer.value.total
    IN  /\ answer.value.bought =>
             /\ \/ total >= 24 /\ f.rr >= 12
                \/ total >= 27 /\ f.rr >= 10
                \/ total >= 29 /\ f.rr >= 8
                \/ total >= 22 /\ f.rr >= 24 /\ Trend(f.chart) >= 6
             /\ (\A i \in DOMAIN f.quarters : ~ Known(f.quarters[i].eps) /\ ~ Known(f.quarters[i].revenue)
                                             /\ ~ f.quarters[i].surprise) =>
                  /\ Coerced(f.news).adjustment >= 2 /\ f.rr >= 24
                  /\ Trend(f.chart) + Momentum(f.chart) >= 22 - Coerced(f.news).adjustment
             /\ f.venue.supported => f.venue.warnings = "none" /\ ~ f.venue.suspended
        /\ Coerced(f.news).adjustment <= 0 => Grade(f) <= Grade([f EXCEPT !.news = NoNews])

\* The banner is red exactly when something keeps the bot from buying - unless
\* the probe of it failed, or the loss was made in a market where nothing is
\* held any more - and it is not calm while the kill switch or the orders are
\* unread or a position it could read has no stop at the venue.  Where the
\* sweep ends at a gate the panel has a line for, or at none, the panel blames
\* that gate, or none, except that it takes the positions of other accounts
\* for the sweep's own and a protected name for one when there is no room
\* either.  Of a halt, a rejection, a cooldown or an error, for which it has
\* no line, nothing is said.  The module's docstring promises more: that ok
\* means every probe answered, and that the panel asks in the sweep's order.
\* Positions, heartbeats and notifications that could not be read are no
\* warning, though, and an unread breaker is a calm one.
PanelTruthful ==
  /\ answer.kind = "banner" =>
       LET s == question.state IN
       /\ answer.value = "halted" =>
            s.kill \/ s.legacy > 0 \/ s.unresolved > 0 \/ s.tripped # {}
       /\ answer.value # "halted" =>
            /\ ~ s.kill \/ "kill_switch" \notin s.read
            /\ s.legacy + s.unresolved = 0 \/ "broker_state" \notin s.read
            /\ s.tripped \cap s.held = {} \/ ~ ({"broker_state", "positions"} \subseteq s.read)
       /\ answer.value \in {"ok", "info"} =>
            /\ {"kill_switch", "broker_state"} \subseteq s.read
            /\ ("positions" \in s.read /\ s.enabled) => s.bare + s.pending = 0
  /\ answer.kind = "gates" =>
       LET g == question.row  panel == answer.value.panel  sweep == answer.value.sweep IN
       /\ sweep \in {"session", "regime", "breaker", "held"} =>
            panel = sweep \/ (panel = "full" /\ g.elsewhere > 0)
       /\ sweep = "free" =>
            \/ panel = "none"
            \/ panel = "full" /\ g.elsewhere > 0
            \/ panel = "held" /\ g.held = "elsewhere"
       /\ sweep = "protected" => panel = "protected"
       /\ sweep = "full" => panel = IF g.protected THEN "protected" ELSE "full"
=============================================================================
