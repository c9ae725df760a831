# AlphaBot-V3: formal models

TLA+ models of the trading bot's order-handling core, with TLC model checking of
small instances and TLAPS proofs for every instance. Paths are relative to the
repository root; the Python package is `src/src/alpha_bot`, abbreviated
`alpha_bot` below. `PROJECT.json` is the machine-readable side: components, runs,
mutants, the map from definitions to source lines, findings, hazards, theorems.

```
cd tla
tlc -config OrderQueue.cfg MCOrderQueue.tla     # model-check one run
tlapm OrderQueueProofs.tla                      # check one proof module
```

## 1. The system

AlphaBot trades Korean and US stocks through the Toss Open API (KIS is an older
adapter, a mock ledger a third). Several processes may run at once on one directory:
the auto pilot (`bot auto`, or a thread of the web dashboard), the exit monitor
(`bot monitor`), the dashboard's handlers, one-shot CLI commands, and a watchdog.
They share **files**, not memory: the queue file of orders, the token cache, the
kill-switch file, heartbeats. They share one **account** at the venue, in which the
operator may also trade by hand.

### Inventory

| Component | State it keeps | Operations | Talks to | What must hold |
|---|---|---|---|---|
| Approval queue `approval/queue.py`, `models.py` | the queue file: one row per order (status, account, fills, exit links, stop fields) | enqueue, approve, recover_unresolved_orders, sync_broker_fills, cancel_stale_orders, update, mark_externally_closed, archive | every caller; the broker, outside its lock | no live order is lost or doubled; rows never claim more than the venue did; a closed position stays closed |
| Position management `auto/position_manager.py` | none of its own; trail, links and stop fields of the buy's row | manage_open_positions, trigger_forced_exit, reconcile_queue_with_broker, _submit_exit | queue, broker, protective stops | the stop sells; never more than was bought; the trail only rises |
| Protective stops `auto/protective_stops.py` | stop id, price, quantity in the row; the conditional order at the venue | resolve, engaged, release, sync | queue (update), broker's conditional orders | never two sellers of the same shares; no stop nobody can name |
| Auto sweep `auto/orchestrator.py` | the locals of one sweep | run_auto_iteration | all of the above, strategy, news, sizing | `max_positions`, fail-stop on unknown outcomes, kill switch, exits come first |
| Toss broker `broker/toss.py` | token in memory, in a cache file under flock, at the venue | ensure_token, request, place/cancel/poll orders, conditional writes | the venue | no token war, no double execution, no wrong "rejected" |
| Web auto pilot `web/autopilot_state.py` | flag, thread, heartbeat | start, stop, _loop | sweep, watchdog | stop stops |
| Watchdog `auto/watchdog.py`, `runner.py`, `notify.py` | heartbeat file, previous verdict, mute times | write_heartbeat, check_heartbeat, cmd_watchdog | operator | a silence reaches the operator |
| Backtest ladder `backtest.py` | the simulated position | ladder_step, _walk_exits | - | never an optimist beside the live ladder |
| KIS broker `broker/kis.py` | token in the object, in the class and on disk; the pages of a listing under way | _request, place_order, cancel_order, get_positions, get_balance, get_order_fill | the venue; answers go to reconciliation, sizing and the queue | a failed page is not "no position"; no doubled order; what a listing left out is neither sold nor cash; terminal means ended |
| Mock broker `broker/mock.py` | JSON ledger | the broker protocol | - | cash, positions and fills agree |
| Live exit monitor `auto/live_monitor.py`, quote stream `data/stream.py` | price cache and its generation, subscriptions wanted and held, connection | sync_subscriptions, evaluate_if_due; connect, on_open, on_message, reconnect | position management, the quote gateway, the REST quote | no tick forgotten, no subscription missed, a price at the stop is acted on |
| Risk, sizing, prices `risk.py`, `auto/sizing.py`, `pricing.py` | none | build_plan, position_size, pre-flight, tick rounding | sweep, Toss broker, stops | the right tick, the safe side, within the budget |
| Market hours, calendar, loss breaker `market_hours.py`, `market_calendar.py`, `auto/guards.py` | the calendar cache; the kill-switch file | is_market_open, realized loss of the day | sweep, monitor | open only while the exchange trades; a loss is seen |
| Strategy, regime, news `strategy/analyzer.py`, `market_regime.py`, `news/assessor.py` | none | analyze, coercion of a verdict | sweep | no buy that no rule asked for |
| Dashboard `web/handlers_safety.py` | none | safety banner, gates of a row | all of the above, read only | what it says is so |
| Portfolio backtest | simulated book | | | cash and positions balance |
| Data providers, configuration, reports, HTTP handlers, GUI | caches, logs | | | not protocol state |

### Where it is hard

* **The lock is dropped around every broker call.** Each read-modify-write of the
  queue is atomic (thread lock, flock, `os.replace`), but `approve`,
  `recover_unresolved_orders`, `cancel_stale_orders` and every caller of `update` read,
  call the venue, and then write what they had read. Anything can happen in between.
* **An exception proves nothing.** A venue call may be executed and its answer lost;
  the bot marks the row `unknown` and replays it under the same client order id.
* **Crashes between two writes**: submitting mark / submission / outcome; intent /
  create / store of a stop; enqueue of an exit / link / approval.
* **Values read early in a sweep are used late**: unresolved list, open count, kill
  switch.
* **Two sellers of one position**: the venue's stop and the bot's own sell.
* **Overlapping loops, mutes and graces** in the supervision.
* **Two threads on one socket**: the stream's thread opens, closes and replaces the
  connection that the monitor's thread subscribes through.
* **Answers in pages**: a listing takes many requests, each of which may be limited,
  fail, be answered with an error nobody reads, or see another account than the one before.
* **Edges of arithmetic**: tick bands, floors, budgets and calendars.

The `hazards` of `PROJECT.json` list these line by line, with the properties that
guard against each.

## 2. The modules

| Module | Models | Composes / used by |
|---|---|---|
| `OrderQueue` | `approval/queue.py` with the venue's orders | refines `OrderSlots` |
| `OrderSlots` | abstract: an order claims exclusive slots once and only gives them up | |
| `ProtectiveStop` | `auto/protective_stops.py` and the parts of position management that share the position with it | |
| `Sweep` | `auto/orchestrator.py` over several sweeps | uses what `OrderQueue` shows (one live order per name and side) to keep one status per name |
| `ExitLadder` | the ladder of `auto/position_manager.py` beside `ladder_step` of `backtest.py` | |
| `TossClient` | `TossRestClient` and the reading of its errors | justifies the venue actions of `OrderQueue`: executed at most once, and what the *venue* rejects is not executed |
| `KisBroker` | `broker/kis.py` with the two readers of its answers, reconciliation and the fill merge | |
| `LiveFeed` | the monitor's thread of `auto/live_monitor.py` on the stream's thread of `data/stream.py` | |
| `Supervision` | `AutoPilotState`, heartbeats, watchdog, dedupe | |
| `Decisions` | one question, one answer: the pure decisions below | EXTENDS the next six modules |
| `Pricing`, `TossOrders` | `pricing.py`, `risk.py`, `auto/sizing.py`; the prices, legs and balances of `broker/toss.py` | |
| `MarketHours` | `market_hours.py`, `market_calendar.py`, the loss breaker of `auto/guards.py` | |
| `Signal` | `strategy/analyzer.py`, the tape's score of `market_regime.py`, coercion in `news/assessor.py` | |
| `MockLedger` | what `broker/mock.py` reads from its ledger | |
| `Sums` | the total of a loop over rows, as a recursive function | `MarketHours`, `MockLedger` |
| `SafetyPanel` | banner and gates of `web/handlers_safety.py`, beside the gates of the sweep | |
| `MC...` | symmetry and set-valued constants for TLC | |
| `...Proofs` | TLAPS proofs about the module of that name; `OrderQueueProofs` also speaks of `OrderSlots`, `WatchProofs` of `LiveFeed` and `Supervision` | |

Each module has one type invariant. It is proved (for `Decisions`, whose state is a question and its
answer, in the form of `ToldInv`), so no run spends time on it. `LiveFeed` calls its definitions
`LiveInit`, `LiveNext`, `LiveSpec`, `LiveTypeOK`, since `WatchProofs` extends it together with `Supervision`.

Definitions named `Mut...` stand beside the definition they alter. No specification
uses them: they are plausible bugs, and each property is shown to fail under one.

### OrderQueue

`row` is the queue file (absent rows are ids not yet drawn), `venue` what the venue
knows of each client order id, `pc`/`job` the step and the locals of each worker's
call. One transaction of the file is one action; a method that calls the broker is
split at the call:

| Code | Actions |
|---|---|
| `enqueue` | `Enqueue`, `ExitEnqueue` |
| `approve` | `ApproveBegin` (the submitting mark), `ApproveSend`, `ApproveEnd`, `ApproveRefused`, `ApproveFail` |
| `recover_unresolved_orders` | `RecoverBegin`, `RecoverEnd`, `RecoverRefused` |
| `sync_broker_fills` | `Sync` |
| `cancel_stale_orders` | `CancelBegin`, `CancelSend`, `CancelWrite` |
| `update` from a held snapshot (trail, stop, links) | `HoldBegin`, `HoldRewrite`, `ExitLink` |
| `mark_externally_closed`, archive | `MarkClosed`, `Archive` |
| the venue, a dying process | `VenueDecide`, `VenueFill`, `VenueCancel`, `Crash` |

Left out: parsing, order-file backups, rejection codes, prices, timestamps (an age
limit is a choice the action may take), and the audit log.

A process may also refuse an order by itself, before any request: live orders switched off, or the
high-value guard (`broker/toss.py:515-537`). The queue then writes "rejected" as if the venue had said so
(`ApproveRefused`, `RecoverRefused`). At an approval nothing was sent yet; at a recovery the lost first submission may be
live. `overruled` is a ghost that marks such an order; an order so marked no longer counts as live in the
properties and in the refinement, and the run `RejectedNeverTrades` shows what becomes of it.

### ProtectiveStop

One position; `row` holds the stop fields, `stop` the venue's conditional orders,
`window` the venue's memory of client order ids (ten minutes), `exit` the bot's
sells. A pass of a worker walks through `resolve` (`CreateOk`/`CreateLost`/
`CreateFail`, `Store`), `engaged` (`CheckOk`/`CheckFail`), the ladder's decision
(`Hold`, `Leave`), `release` (`Resolve`, `ReleaseNothing`, `ReleaseOk`,
`ReleaseFail`, `Forget`), then `Sell`, `Close`, or `sync` (`SyncStatus`, `Rearm`,
`Intent`). `Manage`, `ForceExit` and `Reconcile` are the three entries.
Abstractions: levels are numbers farther apart than the amend tolerance
(a quarter ATR); the 15-second status cache is subsumed by venue changes that happen
after the read; `Sell` merges the enqueue and the approval of the exit, whose
interleavings are `OrderQueue`'s. The passing run has one evaluator per position, `MonitorBesideAuto` two. `hole` is a ghost: a
create that was still unresolved when the venue forgot its id. The code cannot close
that hole, so the safety properties are stated up to it.

### Sweep

`buy` and `sell` hold one status per name. A worker's sweep goes through recovery,
the unresolved snapshot, stale cancels, exits, the gates and the watchlist rows;
`Submit`, `SendOk`, `SendRejected` and `SendLost` are an approval in the middle of it. The
`legacy` blocker is folded into `blocked`; loss breaker, market hours, regime, score
and sizing are the nondeterministic `RowSkip`; external closes and manual orders are
not modelled. `Moving` names the watchlist entries whose price and news move (a bound).

### ExitLadder

Prices are integers and move by one tick within a day; the open may gap. `Hold`,
`Defer`, `Submit` and `EnqueueFails` are a pass of `manage_open_positions`, `SellFills`,
`SellDies`, `BuyFills` the venue, `OperatorSells` the operator, and at `NextDay` the
simulation takes the bar through `LadderStep`. The comparison with the simulation is only made
while `prompt` holds: every price seen by a pass, every sell filled at once. Otherwise `bar`,
`sim` and `worst` are reset so that the two stories do not mix. Forced exits and the release
of the venue stop are in `ProtectiveStop`; the average fill price is fixed, `split_exits` is
on; entries and costs are left out.

### TossClient

Processes share `cache` under `lock`; `live` is the one token the venue honours.
`pc`/`call` walk one request: `UseMemory` or `Lock` and then `Reuse`, `Issue` +
`WriteCache` or `WriteCacheFails`, or `IssueFails`; then an answer: `Unauthorised` (401), `Accepted`,
`Refused` (400, 404, 422), `RateLimited` (429), `InProgress` (409), `ServerError` (5xx),
`NetworkError`. The venue executes at the time of the answer, and once per key.
`Crash` is a process that dies (its flock is released), `Age` the clients' clock, `Revoke`
the venue ending a token. The last token of the bound never dies.
A cache file that cannot be read is taken for none (`NothingCached`), and one that cannot be written leaves the new
token in memory alone (`WriteCacheFails`). The ghost `spoilt` says that the file has failed like that since it was last
written; `NoRefreshLoop` speaks of the time in which it has not.

### Supervision

`Start`, `Stop` and `Spawn` are `AutoPilotState.start/stop` (the flag is set before
the thread exists), `LoopSteps` the loop with its heartbeats, `BootFail` a
configuration error that kills the thread before its `try`, `Hang` and `Die` a hung or
dead process; `Check`, `GraceEnds`, `Restart` are `cmd_watchdog`. The recovery
message, invalid heartbeat files, clock skew and failed heartbeat writes are left out.

### KisBroker

One call at a time; `call` is its state: the operation, the request under way, the
attempt, the exchange and the last name listed, what it has gathered. `Begin` starts a call,
`Ask` puts a request for a token before it when every cache (`tokens`: object, class, disk)
is empty. A request is answered (`TokenIssued`, `Signed`, `Placed`, `Cancelled`, `Page`,
`Present`, `FillPage`), tried again (`Retry`, the rate limit only) or fails (`Fail`, with what
each operation makes of a `BrokerError` and of another exception). In between the owner
trades (`Trade`), the price moves (`PriceMove`), the order fills (`OrderEvent`) and tokens run out (`TokenEvent`). A page
holds one name; the US listing asks three exchanges in turn. `rt_cd` is looked at by orders only, so a page may also be an
error answered with HTTP 200, without rows, and the last one; a listing also ends at the cap of its loop (`KrPages`,
`UsPages`) or when the context keys are missing. `Present` is the US balance's first request: holdings with shares bound in
open orders are left out, the rate or everything may be missing, and the total holds assets of other currencies. Money is in
won (`Won`), which spares the division by `Rate`; all shares have one price, and a holding is one share. `Answer` is the end
of a listing together with its reader: `Reconciled` for positions, `CashOf` for a balance. The throttle and the fields of
messages are left out. `hole` is a ghost: the listing ended with names still to come.

### LiveFeed

`st` is the step of the stream's thread (`FetchKey`, `BackOff`, `Opened`, `OnOpenSend`, `OnMessage`,
`Break`, `Reconnect`), `mp` that of the monitor's (`SyncBegin`, `Subscribe`, `Unsubscribe`,
`SendFrame`, `SyncEnd`; `Skip`, `Evaluate`, `Record`, `PassOne`, `PassEnd`; `Sleep`).
`epoch` names the connection object, so that a frame sent through an old one is lost.
A price is "fine" or "low"; the generation counter appears only as its comparison with the
one recorded at the last pass (`fresh`). `day` is a session, a night and a session. The wait
between two connections has no length: in the code it is always the two seconds of a first
attempt, for `stream.py:311` resets the counter before every connection, whatever the
documented exponential back-off. The monitor is interrupted only while it sleeps.

### Decisions

`question` holds what the code reads, `answer` what it decides; an action per decision applies
the operators of the module that models it. Prices are integers in units of a tenth of a won or
a hundredth of a cent and rounding is that of the code; where the code divides floats the model
rounds down. `MarketHours` counts time in slots of three hours.
`Signal` compares the facts the score compares (averages, ranges, growth, news), not the indicators
behind them. The properties define what is right without the code's operators: the tick at a price's
own level, what the exchange does on a day, the money the sells really lost, the gate the sweep meets.

## 3. What the runs check

| Run | Bounds | Distinct states | What it shows |
|---|---|---|---|
| `OrderQueue` | 2 rows, 1 key, 2 accounts, 2 workers, quantity 2 | 891 k | no live order is written off (`LiveTracked`; up to a call's own refusal), doubled (`OneLiveOrder`) or submitted twice (`OneSubmitter`); no fills out of thin air (`NoGhostFill`); settled sells are exact (`SettledSellExact`); whole stories are archived (`ArchiveWhole`); `OrderSlots` is implemented |
| `ProtectiveStop` | 1 worker, 2 stop ids, 2 levels, 2 shares | 183 k | no orphan stop inside the idempotency window, no sell beside a stop; a held position is protected again and again (`KeepsArming`); a low price leads to an exit (`LowExits`) |
| `Sweep` | 3 names, 1 moving, 1 worker, cap 2 | 226 k | the cap holds unless an approval raised; known unresolved orders block new buys; the kill switch ends buying; exits ignore the gates |
| `Supervision` | 2 loop threads, time-out 2, least mute 1 | 86 k | no mute and no farewell hides a silence, except after an overlap; stop stops; a lasting silence is paged, or its page was tried and lost |
| `TossClient` | 2 processes, 3 tokens, 2 retries of a 429 or 409, 1 of a 5xx | 283 k | no token war while the cache file works, no double execution, no wrong verdict, every request returns |
| `ExitLadder` | prices 1..7, ATR 1, 2 shares + 1 of the operator, 3 days | 849 k | never oversold, the trail never falls and is not looser than the simulated one, the simulation is never above the day's prices nor better than the live ladder inside a bar |
| `LiveFeed` | 1 name, 2 connections, 2 positions opened, 2 sessions | 122 k | no tick is forgotten, no subscription missed, and a held name at its stop is sold or the monitor ended, once the gateway works |
| `KisBroker` | 3 names on 2 exchanges, quantity 2, prices 1 and 2, 2 won a dollar, 2 pages a listing and a fill query, 1 retry, 2 trades or price moves, 1 fault | 1.4 M | a position is written off only if it was away and cash at rest is not overstated, or the listing had a hole; one order per call; a terminal row is exact |
| `Decisions` | the inputs of `MCDecisions` | 1.5 M | seven decisions against seven definitions of what is right |

Three runs check one sentence of the documentation each and find it violated. These are
disagreements between code and text, listed under `findings`:

| Run | The text | What happens |
|---|---|---|
| `RejectedNeverTrades` | "The broker definitively rejected an order before it could execute" (`errors.py:18`) | the answer of a submission is lost; a process that may not send live orders replays it, is refused by its own settings, and the queue writes "rejected" over an order the venue accepts. One worker |
| `MonitorBesideAuto` | "At most one seller" (`protective_stops.py:23`), with `bot monitor` beside `bot auto` as `README.md:380` advises | a forced exit of one process reads a row without a stop and releases nothing, the other's pass arms a stop from its own copy of the row, and the sell goes out beside it. Two workers, eleven states |
| `UnknownIsNotZero` | "Unknown snapshot is never equivalent to zero holdings" (`position_manager.py:316`) | a page of US positions that fails is dropped, an `rt_cd` error is not looked at, and the rest taken for the whole account: a held position is written off |

### What else the models show

States the runs reach, or that a variant of a run reaches, where the code does something a
reader may not expect; no property claims otherwise. The first six differ from a sentence of the
repository.

* `cancel_stale_orders` writes back the row it read before the broker call, so a fill synced in between is erased, though
  "confirmed fills remain held as `partially_filled_cancelled`" (`queue.py:400`).
* While the stream is down, passes go on at the REST cadence but read the cached tick of before the outage, however old: a
  stop passed meanwhile is not seen, though consumers are to "fall back to REST polling cadence" (`stream.py:12-13`). `LowSold`
  rests on a gateway that comes back (`Gateway`).
* A token that did not reach the cache file, or a file that cannot be read, makes the next process end a live token, though
  the cache lets processes "reuse the same token instead of invalidating one another" (`toss.py:145-147`); `NoRefreshLoop` excepts it (`spoilt`).
* Securities bound in open orders, on a failed page or behind an `rt_cd` error are not subtracted from the total, and so taken
  for "the available foreign cash" (`kis.py:600-602`); `CashNotOverstated` excepts them (`hole`). Assets in other foreign
  currencies are cash of this estimate by the text too, and the property allows for them (`other`).
* The banner is `ok` although the positions or the heartbeats could not be read, and without the positions there is no market
  to ask a loss breaker for, so that a tripped one turns green; "`ok` means every probe answered and answered well"
  (`handlers_safety.py:194`; also 15-16 and `tests/test_safety_endpoint.py:5`).
* The gates panel asks for protection before room, and counts positions and held names in all accounts, where each check is
  to mirror "an actual guard in `run_auto_iteration`, in the same order" (`handlers_safety.py:269-272`).
* A buy whose approval raised is live but not counted for the rest of the sweep, so the cap can
  be passed (`raised` in `CapUnlessRaised`).
* A stop the venue refuses every time stays pending, and a pending stop holds every exit back
  (`Refused` is empty in the run, see `MCProtectiveStop`).
* An external close is written even though the release of the stop failed (`Abandon`), and its
  synthetic sell replaces the link to an earlier exit (`ExternalClose`, `forgot`).
* A target's limit sell the price has left suspends the ladder, its stop included; only its expiry ends that.
* `bot monitor --monitor-timeout` below the least mute of 60 seconds lets the mute of one outage
  cover the next (`SilenceNotMasked` needs the time-out to be at least the mute).
* The mock broker's ledger refuses no sell (`mock.py:58-79`): once more was sold than held, the next buy is reported at an
  average price above what was paid, for the cost starts at zero again and the shares do not.
* A name missing from a listing that had a hole is written off (`CloseWasSeen` is up to `hole`), and a long listing has one: the
  eleventh page of a US exchange and the twenty-first Korean one are never asked for.
* The gates panel has no line for the kill switch, an unresolved order, a rejection or a cooldown; it then blames a later
  gate, or none.

### Why the bounds are enough to be interesting

* Queue: two rows and two workers are what every property relates (two orders, two
  calls); one key puts them into conflict; two accounts let an unbound intent be bound to
  either; quantity 2 has a partial fill. The theorems below remove these bounds for all
  of its properties.
* Stops: two ids make an old and a new stop; an id nobody can name is reused, so the
  number of re-arms is not bounded. Two levels give one ratchet, two shares one scale-out.
* Sweep: a third name is needed for a buy beyond a cap of two. Two sweeping workers
  are not run: the shared-file effects between processes come in through
  `OperatorApproves`, crashes and fills.
* Supervision: two threads are the overlap; `Ttl` is larger than one tick, so mutes and
  time-outs can cross.
* Client: two processes can revoke each other's tokens; the number of tokens bounds the
  number of refreshes, not what happens in each.
* Ladder: seven prices place the trail, breakeven and both targets apart; three days let
  a runner be trailed over a night and gap through each level.
* Feed: one name suffices, for names share nothing but the connection; two connections are an
  old and a new socket, the second session an opening after a night.
* KIS: the first exchange has two names and the second one, so a trade can fall between pages and between
  exchanges; a Korean listing of three names passes its cap of two pages. Two prices and a rate of two tell shares, dollars and
  won apart. Cash starts at zero and comes from a sale in the app, which leaves room for a second trade. `OrderOrTrades` (a state
  constraint) keeps the order under watch and the trades in the app apart: to a listing both only say that something moved.
  `WhatCounts` (a view) leaves out of a state what no step and no property reads, such as the ghosts of a call that is over.
* Decisions: prices stand on, below and above the edges of tick bands, charts let each rule bound the
  stop, every kind of day stands next to every other, ledgers have two rows and days two sells.

### Symmetry and deadlock

`MCOrderQueue` declares rows, workers and accounts symmetric; that run has no liveness
property, and no definition tells its values apart (`CHOOSE` is only used on `Key`).
Deadlock checking is off where a story really ends: a closed position (`ProtectiveStop`), the last
day of `ExitLadder`, a monitor that ended (`LiveFeed`), an answer (`Decisions`), a row that ended with
no faults or trades left (`KisBroker`).

### Fairness

* `ProtectiveStop`, `Sweep`, `Supervision`: `CalmDown` says that failures stop at some
  point (a network that fails for ever forces nothing). After it, weak fairness of the
  processes' own steps is the loop of `run_auto` and its `sleep`; fills of a marketable sell and
  the end of a fired stop are the venue's. `SF(Manage)` in `ProtectiveStop` says that a
  pass is not kept out for ever by forced exits, which run in the same loop after it.
  In `Sweep` the operator eventually moves a row that only an operator can move.
* `TossClient`: weak fairness of a request's own steps (`urlopen` has a time-out, so an
  answer or an exception comes), and strong fairness of `Lock`: flock serves
  whoever waits, though others take the lock in between.
* `LiveFeed`: `Threads` says both threads keep running and the sleep between two rounds does not miss
  resubscription for ever; `Gateway` that the gateway gives keys and connections and prints trades again and
  again; an outage that never ends is not covered.
* No fairness is assumed of crashes, revocations, prices, operators' commands, nor of
  anything in the runs whose configuration names `Spec`.

## 4. What is proved

All proofs hold for every value of the constants that satisfies the module's named
assumptions: `QueueAssumption`, `StopAssumption`, `SweepAssumption`, `LadderAssumption`, `ClientAssumption`,
`KisAssumption`, `LiveAssumption`, `SupervisionAssumption` and, for the pure decisions, `DecisionsAssumption`,
`SizeAssumption`, `HoursAssumption`, `LossAssumption`, `LedgerAssumption`, `StartAssumption`, `SignalAssumption`,
`PanelAssumption`. They say that counts are naturals, sets finite, levels of a plan in order, inputs records of the right
fields and the ids of a ledger its rows' own (`broker/mock.py` takes a uuid for each). TLC evaluates them. A theorem with
a hypothesis of its own is named with it below.

Every safety property of a passing run is a theorem.

**`OrderQueueProofs`** (13 theorems): `TypeOK`, `LiveTracked`, `OneLiveOrder`,
`OneSubmitter`, `NoGhostFill`, `SettledSellExact`, `AccountStable`, `ArchiveWhole`, and
`QueueImplementsSlots`: the queue implements `OrderSlots`. `LiveTracked` is not
inductive: `CancelWrite` and `HoldRewrite` write back a snapshot taken before the
broker was called. The inductive invariant `IndInv` adds

* `RowInv(r)`: how far a row may lag behind its venue order (a live order's row is
  active, unless the order is `overruled`; fills of the row never exceed the venue's; a terminal sell is exact);
* `JobInv(w)`: what an unfinished call may still write. Its target exists, has left `pending`
  for good, and is bound to the call's account; a snapshot (`SnapInv`) agrees with the row
  on all that never changes, and writes the order off only if the venue is over with it.

`Progress(r)` says what a step may never do to an order; `EveryStep` shows, one lemma
per action, that each keeps `IndInv` and is a `Progress`; the theorems follow. The refinement
needs only `Progress` (a live order's slots shrink) and the duplicate check of `enqueue`.

`ArchiveWhole` rests on a second invariant, `LinkInv` (`LinksSound`). A link that a worker still holds in a
snapshot can be written back after the archive ran, so the invariant speaks of everything that *names* an exit, rows and
calls alike: what is named is a sell and is in the queue as long as the buy is, no two buys
name the same sell, and a call is about a row of the queue.

All of this is up to `overruled`: an order that a call refused by its own settings is taken for given up, in
`Live`, in `SettledSellExact` and in the mapping of the refinement. `NoGhostFill`, `OneSubmitter`, `AccountStable` and
`ArchiveWhole` hold for those orders as well.

In the abstract specification no slot ever has two holders (`SlotsExclusive`, by the same kind of step
proof); with the refinement the same follows for the queue (`QueueSlotsExclusive`).

**`ProtectiveStopProofs`** (12): `TypeOK` for any number of workers, and `NoOrphanStop`, `NoSellBesideStop`, `NeverOversold`
and `TrailRises` for any number of stops, shares and levels, as long as passes do not overlap: `NoOrphanWhileAlone`,
`OneSellerWhileAlone`, `NotOversoldWhileAlone` and `TrailRisesWhileAlone` assume `[]Alone` (at most one pass under way, in
whichever process), `StopsNeverOrphaned`, `OneSeller`, `NeverSellsTooMuch` and `TrailNeverFalls` are the case of a single
evaluator, where nothing is assumed of the behaviour. The hypothesis is needed: with `bot monitor` beside `bot auto`, as
`README.md:380` advises, passes overlap, and since each works on a copy of the row TLC finds all four properties violated
(the run `MonitorBesideAuto` for the second; hazard `position_manager.py:471`).
`Safe` says that every working stop can be reached from the row (`Protected`: by its id, or
through the request that is pending), that nothing works while the bot sells (`Selling`), and what the copy of the
pass still knows at each of its steps (`PassInv`): until it re-arms, the copy is the row.
`NeverOversold` (sells filled and in flight are no more than the shares bought) and `TrailRises` (no whole-row write takes
the effective stop back down) are stated in the proof module alone. They rest on a second invariant, `Steady`, which says
what a pass carries past the calls of the venue (`Known`): the shares it counted are still unsold, none is on its way, its
sell fits into them, and the trail in its copy is the row's.
The copy need not be the row for that: a forgetting whose write failed leaves the two apart in the stop, not in the trail.

**`SweepProofs`** (6): `CapUnlessRaised` and `OldUnknownBlocks` for any watchlist and cap, again while at most one sweep is
past its recovery (`CapWhileAlone`, `BlockedWhileAlone`; others may be replaying what they find unresolved), and without
that hypothesis for one sweeping process (`CapHolds`, `OldUnknownsBlock`), together with `TypeOK`. With two
overlapping sweeps TLC finds both violated: each counted the book, and looked for unresolved orders, before the other
bought. `Counts` says how far the counter of a sweep may lag behind the
book: the buy under way may be in the book already, and nothing else. `Barred` says what a sweep that found nothing
unresolved knows of what is unresolved now: an answer lost since, or the order it is just sending.

**`TossClientProofs`** (4): `TypeOK`, `AtMostOnce`, `ResultTrue`, `NoRefreshLoop`. `CallInv`
says what a request under way may have done already (one without a key, nothing: only
a keyed one is sent again). `TokenInv` says who may know the live token: a process
that has it took it from the cache, or is about to write it there and holds the lock, as long as the file is not `spoilt`.
Hence a process that found nothing in such a cache under the lock is right to take a new one.

**`ExitLadderProofs`** (5): `TypeOK`, `NotOversold`, `RunnerFloor`, `TrailAhead`, `SimWorstCase`. `Conserved` says that shares
come from somewhere, `Counted` that the row counts what was sold and the sell in flight fits into the rest, `Armed`
that the trail stands at the entry before the first share of the half can be sold: a sell in flight at
target 1 has set it already. The comparison with the simulation needs the two stories side by side, `Abreast`: while passes
are prompt, row and account agree (`Booked`), a runner is trailed to within the smallest step (`Ridden`), and a day of a
position that the simulation still holds whole (`Today`) stands in one of three places: nothing sold and the bar between
stop and target, the half sold or on its way and the bar past the first target, or all sold at no less
than the worst of the bar. Simulated fills are bounded by lemmas about `ladder_step`, one per order of the levels in a bar.

**`KisBrokerProofs`** (5): `TypeOK` and all four properties of the run. `Accounted` is the key: a name that the
listing has passed, but does not hold, has been out of the account since the call began. It is not enough to
know what the last page said, for names are bought and sold behind the listing. It holds while the listing has no `hole`.
`Funds` says what the answers have said of the money of an account at rest; with `Accounted` the securities found are
then worth at least those held, so what is left of the total is at most the cash and the other currencies. `Shape` ties each request to its call,
`Orders` the venue's order to
the row, `Fills` the row's shares to the venue's. The page's name is a least element, taken by well-foundedness.

**`WatchProofs`** (5). Of `LiveFeed`: types, `NoTickForgotten`, `SubscriptionsServed`. `TickInv` says that what is not fresh has been
seen, in a pass as well; `FeedInv` names who still owes the gateway a name: `on_open`'s copy, or the monitor's frame
when it goes through the connection that is open now. Of `Supervision`: types, and `SilenceNotMasked` under
`MinTtl <= Timeout`. `MuteInv`: while a page mutes,
a heartbeat that is well is younger than the page, so it cannot grow stale before the mute ends. `TwoInv` and
`FarewellInv` say that a farewell is one's own unless there were two loops. The number of threads is counted.

**`DecisionsProofs`** (15): first the operators alone. Rounding stays valid across tick bands (each tick divides the next
band's edge), a fill below the entry has the better ratio, sizes fit cash, budget and cap, the pre-flight leaves half a
per cent, and the clock says "open" only in a session, or in an unscheduled closure when the calendar shows no opening ahead
(`StatusInSession`, by cases over the kinds of days). Then the run's
properties, for every set of questions: `PriceOnSafeSide`, `OpenOnlyInSession`, `SizeWithinBudget`, `SignalSound`, `PanelTruthful`,
`LossNotOverlooked`, `BooksAgree`.
They follow from `ToldInv` (`AnswersAreTheCodes`): the answer is what the code's operators give for the question, whose data
have the types they are read with. `SizesFitAccount` holds at whatever price. Only the promised ratio needs
`Priceable`, a close of at least 15 cents or 150 won, and so `SizesWithinBudget` has that hypothesis: below it the rounding to
cents and to ticks uses up the distance between entry and stop, and the ratio is not kept. That
a size respects the budget at the *venue's* stop, and not just at the planned one, takes the tick to be narrow beside the stop
distance (`TickIsNarrow`).
The last two are about loops over rows, for days and ledgers of any length. No library theorem on induction can be used
here, for those take operators; `CountUp` states induction of a *set* of numbers, from the well-foundedness of `<`, and
`LoopExists` with it that a loop is a function, the step being data as well. `SumIsLoop` and `HoldingIsLoop` are the two
loops of the code; that the money lost is the gain counted (`RealizedIsLost`), and that the shares held are those moved
(`HeldIsMoved`), then goes row by row.

**Only model-checked**:

* Every liveness property (`KeepsArming`, `LowExits`, `KillStopsBuys`, `ExitsDespiteGates`, `StopStops`,
  `SilencePagedOrLost`, `Returns`, `LowSold`): the prover does not handle fairness and ENABLED.

No module that is proved about declares a RECURSIVE operator.

## 5. Not modelled

* Data providers, configuration, logs, reports, HTTP handlers and the GUI: input and output, or thin wrappers around
  operations that are modelled. Technical indicators are inputs of `Signal`.
* The portfolio backtest: it shares `ladder_step`, which `ExitLadder` models; the rest is sequential arithmetic on floats.
* The mock broker's file is written without a lock; it is a simulation for one process, so `MockLedger` models what its
  ledger says and not the races.
* What a second evaluator of one position (`bot monitor` beside `bot auto`) does: its whole-row updates can drop a link the
  other wrote (`position_manager.py:471`). `MonitorBesideAuto` shows the two sellers; of a dropped exit link no property
  speaks. The theorems about stops and sweeps say where they need a single evaluator.
* Real time: ages and windows are nondeterministic choices or ticks, so the clock read before a slow replay loop
  (`queue.py:332`) is a note of its hazard.
* The closing of the stream between the start of its thread and the assignment of its socket, where a stop leaves the connection up.

## 6. Plan

Done: queue and its abstract specification, protective stops, sweep, supervision, Toss client, KIS adapter, live
feed, exit ladder, the pure decisions; proofs about all of them.

What would come next:

1. Which promises survive two evaluators of one position in `ProtectiveStop`, and what a lock around a pass would restore.
2. That `Sweep` may keep one status per name: a refinement from several rows of `OrderQueue`, instead of the argument in
   the module's comment.
3. The cancel that fills after all (`toss.py:1085`) and an age window in `OrderQueue`'s recovery.
4. The portfolio backtest's book on the operators of `ExitLadder`.
