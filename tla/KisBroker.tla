----------------------------- MODULE KisBroker ------------------------------
(***************************************************************************)
(* The KIS adapter (broker/kis.py) between the bot and the venue: tokens,  *)
(* rate-limit retries, paged listings and what each call makes of a page   *)
(* that fails, together with the two readers that act on the answers:      *)
(* reconciliation closes a position missing from get_positions, and the    *)
(* fill sync merges get_order_fill into the queue's row.                   *)
(*                                                                         *)
(* A name is one share, and all shares have one price, which moves.  One   *)
(* thread calls, one request at a time; the throttle before a request only *)
(* delays it.                                                              *)
(***************************************************************************)
EXTENDS Integers, FiniteSets

CONSTANTS
  Name,            \* names, numbered in the order of a listing
  Listed,          \* the US exchange (1, 2 or 3) that lists each name
  Quantity,        \* shares ordered by the order under watch
  MaxCash,         \* cash at the start is at most this
  Prices,          \* what a share may cost, in dollars (KR: in won)
  Rate,            \* won for a dollar
  MaxOther,        \* assets in other foreign currencies, in won, at most this
  MaxRetries,      \* _RATE_LIMIT_MAX_RETRIES
  FillPages,       \* pages a fill query reads, 5 in the code
  KrPages,         \* pages a Korean listing reads, 20 in the code
  UsPages,         \* pages the listing of a US exchange reads, 10 in the code
  Called,          \* the calls that are made (a bound)
  MaxTrades,       \* bound on trades made outside the bot and on price moves
  MaxFaults        \* bound on requests that fail

ASSUME KisAssumption ==
  /\ Name \subseteq Nat \ {0} /\ IsFiniteSet(Name) /\ Listed \in [Name -> 1 .. 3]
  /\ {Quantity, Rate} \cup Prices \subseteq Nat \ {0}
  /\ {MaxCash, MaxOther, MaxRetries, FillPages, KrPages, UsPages, MaxTrades, MaxFaults}
       \subseteq Nat
  /\ Called \subseteq {"positions", "balance", "fill", "place", "cancel"}

VARIABLES
  market, mode,    \* the account: KR or US, paper or live
  holds, cash,     \* venue: names held, cash (US: in dollars)
  price, other,    \* venue: the price of a share, assets in other currencies
  order,           \* venue: the order under watch
  tokens,          \* caches that hold the access token in force
  call,            \* the adapter call under way
  open,            \* queue: names the bot believes it holds
  row,             \* queue: the row of the order under watch
  trades, faults,  \* bounds
  sawGone,         \* ghost: names absent from the account during this call
  hole,            \* ghost: names were still to come where this call's listing ended
  moved,           \* ghost: the account or the price changed during this call
  wrong,           \* ghost: hole, each time a name was closed that had not been absent
  claimed          \* ghost: hole, each time more cash was answered than there was

venue  == <<market, mode, holds, cash, price, other, trades>>
ghosts == <<sawGone, wrong, hole, moved, claimed>>
vars   == <<venue, order, tokens, call, open, row, faults, ghosts>>

Cache == {"instance", "class", "disk"}
NoCall == [op |-> "none", req |-> "none", next |-> "none", attempt |-> 0, ex |-> 1,
           after |-> 0, pages |-> 0, out |-> {}, worth |-> 0, cash |-> 0, total |-> 0]

MutExchanges == {1}

\* _get_us_positions asks exchange after exchange, _get_kr_balance once.
Exchanges == IF market = "US" THEN 1 .. 3 ELSE {1}
ListedAt(ex) == {n \in Name : market = "KR" \/ Listed[n] = ex}

TypeOK ==
  /\ market \in {"KR", "US"} /\ mode \in {"paper", "live"}
  /\ holds \subseteq Name /\ cash \in Nat /\ price \in Prices /\ other \in Nat
  /\ order \in [count : 0 .. 2, filled : 0 .. Quantity, cancelled : BOOLEAN]
  /\ tokens \subseteq Cache
  /\ call.op \in {"none", "positions", "balance", "fallback", "fill", "place", "cancel"}
  /\ call.out \subseteq Name /\ call.attempt \in 0 .. MaxRetries
  /\ open \subseteq Name
  /\ row.status \in {"none", "unknown", "rejected", "submitted", "partially_filled",
                     "filled", "cancelled"}
  /\ row.filled \in 0 .. Quantity

Init ==
  /\ market \in {"KR", "US"} /\ mode \in {"paper", "live"}
  /\ open \in SUBSET Name /\ holds = open
  /\ cash \in 0 .. MaxCash /\ price \in Prices /\ other \in 0 .. MaxOther
  /\ order = [count |-> 0, filled |-> 0, cancelled |-> FALSE]
  /\ tokens \in {{}, {"disk"}}
  /\ call = NoCall
  /\ row = [status |-> "none", filled |-> 0]
  /\ trades = 0 /\ faults = 0
  /\ sawGone = {} /\ wrong = {} /\ hole = FALSE /\ moved = FALSE /\ claimed = {}

(***************************************************************************)
(* The venue                                                               *)
(***************************************************************************)
\* The owner trades in the broker's app: sells a name, or buys it back.
Trade(n) ==
  /\ trades < MaxTrades /\ trades' = trades + 1
  /\ \/ n \in holds /\ holds' = holds \ {n} /\ cash' = cash + price
     \/ n \notin holds /\ cash >= price /\ holds' = holds \cup {n} /\ cash' = cash - price
  /\ sawGone' = sawGone \cup (Name \ holds')
  /\ moved' = TRUE
  /\ UNCHANGED <<market, mode, price, other, order, tokens, call, open, row, faults, wrong,
                 hole, claimed>>

PriceMove ==
  /\ trades < MaxTrades /\ trades' = trades + 1
  /\ price' \in Prices \ {price} /\ moved' = TRUE
  /\ UNCHANGED <<market, mode, holds, cash, other, order, tokens, call, open, row, faults,
                 sawGone, wrong, hole, claimed>>

\* The order, of a name of its own, fills share by share, which moves the
\* account, or is cancelled in the app.
OrderEvent ==
  /\ order.count > 0 /\ ~ order.cancelled /\ order.filled < Quantity
  /\ order' \in {[order EXCEPT !.filled = @ + 1], [order EXCEPT !.cancelled = TRUE]}
  /\ moved' = TRUE
  /\ UNCHANGED <<venue, tokens, call, open, row, faults, sawGone, wrong, hole, claimed>>

\* The token in force runs out; another client of this process, or another
\* process, asks for a new one; this process starts again.
TokenEvent ==
  /\ call = NoCall
  /\ tokens' \in {{}, tokens \cup {"disk"}, tokens \cup {"class", "disk"}, tokens \cap {"disk"}}
  /\ UNCHANGED <<venue, order, call, open, row, faults, ghosts>>

(***************************************************************************)
(* Requests                                                                *)
(***************************************************************************)
\* ensure_token: the nearest cache that holds a good token fills the nearer
\* ones; with none, a token is requested first.
Nearer == IF "instance" \in tokens \/ "class" \in tokens THEN tokens \cup {"instance"}
          ELSE tokens \cup {"instance", "class"}

\* The call goes on with request r, behind a request for a token if needed.
Ask(c, r) ==
  /\ call' = [c EXCEPT !.req = IF tokens = {} THEN "token" ELSE r,
                       !.next = r, !.attempt = 0]
  /\ tokens' = IF tokens = {} THEN {} ELSE Nearer

\* post() signs orders with a hashkey; get() does not.
First(op) == CASE op \in {"place", "cancel"} -> "hash"
               [] op \in {"positions", "fallback"} -> "page"
               [] op = "balance" -> IF market = "US" THEN "present" ELSE "page"
               [] op = "fill" -> "fill"

Begin(op) ==
  /\ call = NoCall
  /\ op = "place" => row.status = "none"
  /\ op \in {"fill", "cancel"} => row.status \in {"submitted", "partially_filled"}
  /\ Ask([NoCall EXCEPT !.op = op], First(op))
  /\ sawGone' = Name \ holds /\ moved' = FALSE /\ hole' = FALSE
  /\ UNCHANGED <<venue, order, open, row, faults, wrong, claimed>>

\* What a request may end in: an answer, the rate limit (EGW00201), another
\* BrokerError (HTTP status, network), or an exception of another kind
\* (a timeout while reading, an answer that is not JSON).
Outcome == {"answer", "limit", "error", "exception"}

MutRetried(outcome) == outcome \in {"limit", "error"} /\ call.attempt < MaxRetries

\* _request: only the rate limit is tried again.
Retried(outcome) == outcome = "limit" /\ call.attempt < MaxRetries

\* A failed request: an order or token lost on the way back was taken.
Retry(outcome) ==
  /\ call.req # "none" /\ outcome # "answer" /\ Retried(outcome)
  /\ faults < MaxFaults /\ faults' = faults + 1
  /\ call' = [call EXCEPT !.attempt = @ + 1]
  /\ order' \in {order} \cup
       IF call.req = "order" /\ outcome # "limit" THEN {[order EXCEPT !.count = @ + 1]} ELSE {}
  /\ UNCHANGED <<venue, tokens, open, row, ghosts>>

(***************************************************************************)
(* place_order and cancel_order                                            *)
(***************************************************************************)
Signed ==
  /\ call.req = "hash"
  /\ call' = [call EXCEPT !.req = IF call.op = "place" THEN "order" ELSE "cancel", !.attempt = 0]
  /\ UNCHANGED <<venue, order, tokens, open, row, faults, ghosts>>

TokenIssued ==
  /\ call.req = "token"
  /\ tokens' = Cache
  /\ call' = [call EXCEPT !.req = call.next, !.attempt = 0]
  /\ UNCHANGED <<venue, order, open, row, faults, ghosts>>

\* accepted = (rt_cd is "0" or missing).
Placed ==
  /\ call.req = "order" /\ call' = NoCall
  /\ \/ /\ order' = [order EXCEPT !.count = @ + 1]
        /\ row' = [row EXCEPT !.status = "submitted"]
     \/ row' = [row EXCEPT !.status = "rejected"] /\ UNCHANGED order
  /\ UNCHANGED <<venue, tokens, open, faults, ghosts>>

\* The venue may refuse; what the queue makes of the answer is in OrderQueue.
Cancelled ==
  /\ call.req = "cancel" /\ call' = NoCall
  /\ order' \in {order} \cup
       IF order.filled < Quantity THEN {[order EXCEPT !.cancelled = TRUE]} ELSE {}
  /\ UNCHANGED <<venue, tokens, open, row, faults, ghosts>>

(***************************************************************************)
(* Listings                                                                *)
(***************************************************************************)
Remaining(c) == {n \in ListedAt(c.ex) \cap holds : n > c.after}

Won(amount) == IF market = "US" THEN amount * Rate ELSE amount

\* reconcile_queue_with_broker with the positions of a call that returned.
Reconciled(out) ==
  /\ open' = open \cap out
  /\ wrong' = IF open \ out \subseteq sawGone THEN wrong ELSE wrong \cup {hole'}

MutCashOf(c) == IF c.op = "fallback" THEN 0 ELSE IF c.cash > 0 THEN Won(c.cash) ELSE c.total

\* The last part of _get_us_balance: without dollars in the answer, the cash is
\* the won total of all foreign assets less the US securities found.  In won;
\* the code divides by the rate again.
CashOf(c) ==
  IF c.op = "fallback" THEN 0
  ELSE IF c.cash > 0 THEN Won(c.cash)
  ELSE IF c.total > c.worth THEN c.total - c.worth ELSE 0

\* The call is over with the listing c.out.
Answer(c) ==
  /\ call' = NoCall /\ UNCHANGED tokens
  /\ IF c.op = "positions"
     THEN Reconciled(c.out) /\ UNCHANGED claimed
     ELSE /\ claimed' = IF CashOf(c) > Won(cash) + other /\ ~ moved
                        THEN claimed \cup {hole'} ELSE claimed
          /\ UNCHANGED <<open, wrong>>

\* On to the next exchange, or the end of the listing.
NextExchange(c) ==
  IF c.ex + 1 \in Exchanges
  THEN Ask([c EXCEPT !.ex = @ + 1, !.after = 0, !.pages = 0], "page") /\ UNCHANGED <<open, wrong, claimed>>
  ELSE Answer(c)

\* The safety cap of the loop over the pages.
PageCap == IF market = "US" THEN UsPages ELSE KrPages

\* A page holds one name, and a Korean one the cash.  rt_cd is not looked at: an
\* error answered with HTTP 200 is a page without rows, and the last one.  The
\* listing goes on as long as tr_cont says so, with context keys, up to the cap.
Page ==
  /\ call.req = "page"
  /\ \E answered, keys \in BOOLEAN :
       LET rest == Remaining(call)
           n    == CHOOSE m \in rest : \A k \in rest : m <= k
           none == [call EXCEPT !.cash = IF market = "KR" /\ answered THEN cash ELSE @]
           c    == IF ~ answered \/ rest = {} THEN none
                   ELSE [none EXCEPT !.out = @ \cup {n}, !.worth = @ + Won(price), !.after = n]
           more == Remaining(c) # {}
       IN  IF answered /\ keys /\ more /\ call.pages + 1 < PageCap
           THEN /\ Ask([c EXCEPT !.pages = @ + 1], "page")
                /\ UNCHANGED <<hole, open, wrong, claimed>>
           ELSE hole' = (hole \/ more) /\ NextExchange(c)
  /\ UNCHANGED <<venue, order, row, faults, sawGone, moved>>

\* What inquire-present-balance may say of the money: the dollars (none on a paper
\* account) and the total; no total when the rate is missing; nothing at all when
\* the answer is an error with HTTP 200.
Statement ==
  LET dollars == IF mode = "live" THEN cash ELSE 0
      total   == Won(cash) + Won(price) * Cardinality(holds) + other
  IN  {<<0, 0>>, <<dollars, 0>>, <<dollars, total>>}

\* inquire-present-balance: a paper account is answered without holdings, a live
\* one with those that have shares to sell, which are not bound in open orders.
\* Without any, the positions are looked up.
Present ==
  /\ call.req = "present"
  /\ \E s \in Statement :
       LET c == [call EXCEPT !.cash = s[1], !.total = s[2]] IN
       \/ \E free \in SUBSET holds \ {{}} :
            /\ mode = "live"
            /\ hole' = (hole \/ free # holds)
            /\ Answer([c EXCEPT !.out = free, !.worth = Won(price) * Cardinality(free)])
       \/ Ask(c, "page") /\ UNCHANGED <<hole, open, wrong, claimed>>
  /\ UNCHANGED <<venue, order, row, faults, sawGone, moved>>

(***************************************************************************)
(* Fills                                                                   *)
(***************************************************************************)
MutClassify(filled, cancelled) ==
  IF cancelled THEN IF filled > 0 THEN "partially_filled" ELSE "cancelled"
  ELSE IF filled > 0 THEN "filled" ELSE "submitted"

\* _classify_fill_status: a cancelled remainder with fills stays "partially
\* filled".
Classify(filled, cancelled) ==
  IF cancelled THEN IF filled > 0 THEN "partially_filled" ELSE "cancelled"
  ELSE IF filled >= Quantity THEN "filled"
  ELSE IF filled > 0 THEN "partially_filled" ELSE "submitted"

\* _merge_fill of the queue.
Merged(status, filled) ==
  LET most == IF filled > row.filled THEN filled ELSE row.filled
  IN  [filled |-> most,
       status |-> IF "filled" \in {row.status, status} THEN "filled"
                  ELSE IF status = "cancelled" THEN status
                  ELSE IF most > 0 THEN "partially_filled" ELSE status]

\* A page of the day's executions: the order's row, or others with or
\* without more to follow; at most FillPages pages.
FillPage ==
  /\ call.req = "fill"
  /\ \/ /\ order.count > 0 /\ call' = NoCall /\ UNCHANGED tokens
        /\ row' = Merged(Classify(order.filled, order.cancelled), order.filled)
     \/ /\ call.pages + 1 < FillPages
        /\ Ask([call EXCEPT !.pages = @ + 1], "fill") /\ UNCHANGED row
     \/ call' = NoCall /\ row' = Merged("submitted", 0) /\ UNCHANGED tokens
  /\ UNCHANGED <<venue, order, open, faults, ghosts>>

(***************************************************************************)
(* Failures                                                                *)
(***************************************************************************)
\* _get_us_positions swallows a BrokerError and goes on with the next
\* exchange; _get_kr_balance raises it.
Swallowed(outcome) == market = "US" /\ call.next = "page" /\ outcome # "exception"

\* The failed request is not tried again.
Fail(outcome) ==
  /\ call.req # "none" /\ outcome # "answer" /\ ~ Retried(outcome)
  /\ faults < MaxFaults /\ faults' = faults + 1
  /\ order' \in {order} \cup
       IF call.req = "order" /\ outcome # "limit" THEN {[order EXCEPT !.count = @ + 1]} ELSE {}
  /\ CASE Swallowed(outcome) ->
            /\ hole' = TRUE /\ NextExchange(call) /\ UNCHANGED row
       [] market = "US" /\ call.op = "balance" /\ call.next = "page" /\ outcome = "exception" ->
            /\ hole' = TRUE /\ Answer([call EXCEPT !.out = {}, !.worth = 0]) /\ UNCHANGED row
       [] call.next = "present" /\ outcome # "exception" ->
            /\ Ask([NoCall EXCEPT !.op = "fallback"], "page")
            /\ UNCHANGED <<hole, open, wrong, claimed, row>>
       [] call.op = "fill" /\ outcome # "exception" ->
            /\ call' = NoCall /\ row' = Merged("submitted", 0)
            /\ UNCHANGED <<tokens, hole, open, wrong, claimed>>
       [] OTHER ->
            /\ call' = NoCall
            /\ row' = IF call.op = "place" THEN [row EXCEPT !.status = "unknown"] ELSE row
            /\ UNCHANGED <<tokens, hole, open, wrong, claimed>>
  /\ UNCHANGED <<venue, sawGone, moved>>

Request == Signed \/ TokenIssued \/ Placed \/ Cancelled \/ Page \/ Present \/ FillPage

Next ==
  \/ \E n \in Name : Trade(n)
  \/ PriceMove
  \/ OrderEvent
  \/ TokenEvent
  \/ \E op \in Called : Begin(op)
  \/ Request
  \/ \E o \in Outcome : Retry(o)
  \/ \E o \in Outcome : Fail(o)

Spec == Init /\ [][Next]_vars

(***************************************************************************)
(* Properties                                                              *)
(***************************************************************************)
\* Reconciliation writes a position off only if the name was absent from the
\* account at some moment of the listing, through trades in the app between
\* two pages, expired tokens and rate limits - unless the listing ended with
\* names still to come: at an error of a US exchange, at an answer that is an
\* error, at the cap of the pages or at missing context keys.
CloseWasSeen == wrong \subseteq {TRUE}

\* position_manager.py, where reconciliation takes the answer: "Unknown
\* snapshot is never equivalent to zero holdings."
UnknownIsNotZero == wrong = {}

\* The cash a new buy is sized by is never more than the account's cash and its
\* assets in other foreign currencies, also where it is estimated from two
\* answers - if account and price were at rest during the call and its listing
\* left no name out.
CashNotOverstated == claimed \subseteq {TRUE}

\* A place_order call puts at most one order at the venue, however often it
\* tries and wherever an answer is lost.
OnePerCall == order.count <= 1

\* The queue ends the row of an order only when the order has ended, and with
\* exactly the shares it filled.
TerminalExact ==
  row.status \in {"filled", "cancelled"} /\ order.count = 1 =>
    /\ order.cancelled \/ order.filled = Quantity
    /\ row.filled = order.filled
=============================================================================
