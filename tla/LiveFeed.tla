------------------------------ MODULE LiveFeed ------------------------------
(***************************************************************************)
(* The live exit monitor (auto/live_monitor.py, runner.cmd_monitor) on top *)
(* of the quote stream (data/stream.py): the monitor's thread keeps the    *)
(* subscriptions in step with the positions held and runs exit passes, the *)
(* stream's thread connects, resubscribes and delivers ticks into a cache  *)
(* the passes read.                                                        *)
(*                                                                         *)
(* A price is "fine" or "low" (at or below the stop).  The generation      *)
(* counter of the cache is only ever compared with the one recorded at the *)
(* last pass, so it is kept as that comparison, "fresh".                   *)
(***************************************************************************)
EXTENDS Naturals, FiniteSets

CONSTANTS
  Ticker,        \* Korean names
  MaxEpoch,      \* bound on the connections dialled
  MaxTrades      \* bound on positions opened during the run

ASSUME LiveAssumption == MaxEpoch \in Nat \ {0} /\ MaxTrades \in Nat

VARIABLES
  held,          \* names with a live position in the queue file
  trades,        \* positions opened so far (bound)
  market,        \* the price at the exchange
  day,           \* 0 and 2: the exchange is in session; 1: the night between
  desired,       \* KisStreamClient._desired
  st,            \* step of the stream's thread
  epoch,         \* connections dialled; names the object behind _ws
  snapshot,      \* on_open's copy of _desired still to be sent
  served,        \* subscriptions the gateway holds for this connection
  stopEvent,     \* KisStreamClient._stop
  cache,         \* TickPriceCache._prices
  fresh,         \* generation # _last_generation
  due,           \* rest_poll_interval has run out since the last pass
  mp,            \* step of the monitor's thread
  job,           \* its call of subscribe or unsubscribe
  watch,         \* the held set sync_subscriptions read
  left,          \* positions the pass under way has still to evaluate
  seen           \* ghost: the price the last pass used, if it covered the name

market_vars == <<held, trades, market, day>>
stream_vars == <<st, epoch, snapshot, stopEvent>>
main_vars   == <<mp, job, watch, left>>
pass_vars   == <<fresh, due, seen>>
feed == <<market_vars, stream_vars, main_vars, pass_vars, desired, served, cache>>

Price   == {"fine", "low"}
NoJob   == [op |-> "none", t |-> "none", ws |-> 0]
StreamStep == {"off", "key", "keyWait", "dial", "onOpen", "run", "lost", "wait", "end"}
MainStep   == {"sync", "diff", "send", "due", "record", "pass", "sleep", "ended"}

InSession == day # 1

LiveTypeOK ==
  /\ held \subseteq Ticker /\ trades \in 0..MaxTrades
  /\ market \in [Ticker -> Price] /\ day \in 0..2
  /\ desired \subseteq Ticker /\ snapshot \subseteq Ticker /\ served \subseteq Ticker
  /\ st \in StreamStep /\ epoch \in 0..MaxEpoch /\ stopEvent \in BOOLEAN
  /\ cache \in [Ticker -> Price \cup {"none"}]
  /\ fresh \in BOOLEAN /\ due \in BOOLEAN
  /\ mp \in MainStep /\ watch \subseteq Ticker /\ left \subseteq Ticker
  /\ job = NoJob \/ job \in [op: {"sub", "unsub"}, t: Ticker, ws: 0..MaxEpoch]
  /\ seen \in [Ticker -> Price \cup {"none"}]

LiveInit ==
  /\ held \in SUBSET Ticker /\ trades = 0
  /\ market = [t \in Ticker |-> "fine"] /\ day = 0
  /\ desired = {} /\ st = "off" /\ epoch = 0 /\ snapshot = {} /\ served = {}
  /\ stopEvent = FALSE
  /\ cache = [t \in Ticker |-> "none"] /\ fresh = TRUE /\ due = TRUE
  /\ mp = "sync" /\ job = NoJob /\ watch = {} /\ left = {}
  /\ seen = [t \in Ticker |-> "none"]

(***************************************************************************)
(* The world: fills of other processes' buys, the exchange                 *)
(***************************************************************************)
Buy(t) ==
  /\ t \notin held /\ trades < MaxTrades
  /\ held' = held \cup {t} /\ trades' = trades + 1
  /\ seen' = [seen EXCEPT ![t] = "none"]
  /\ UNCHANGED <<market, day, stream_vars, main_vars, fresh, due, desired, served, cache>>

CloseOutside(t) ==     \* another process (the sweep, the operator) sold it
  /\ t \in held
  /\ held' = held \ {t}
  /\ UNCHANGED <<trades, market, day, stream_vars, main_vars, pass_vars, desired, served, cache>>

Fall(t) ==
  /\ InSession /\ market[t] = "fine"
  /\ market' = [market EXCEPT ![t] = "low"]
  /\ UNCHANGED <<held, trades, day, stream_vars, main_vars, pass_vars, desired, served, cache>>

Session ==             \* it closes only while the monitor sleeps
  /\ \/ day = 0 /\ mp = "sleep" /\ day' = 1
     \/ day = 1 /\ day' = 2
  /\ UNCHANGED <<held, trades, market, stream_vars, main_vars, pass_vars, desired, served, cache>>

Elapse ==              \* the REST interval runs out
  /\ ~due /\ due' = TRUE
  /\ UNCHANGED <<market_vars, stream_vars, main_vars, fresh, seen, desired, served, cache>>

(***************************************************************************)
(* The stream's thread: _run_loop and its callbacks                        *)
(***************************************************************************)
MutWsObject == IF st = "run" THEN epoch ELSE 0     \* _ws published after on_open

WsObject == IF st \in {"dial", "onOpen", "run", "lost"} THEN epoch ELSE 0
Connected(ws) == ws # 0 /\ ws = epoch /\ st \in {"onOpen", "run"}

FetchKey ==
  /\ st = "key"
  /\ \/ stopEvent /\ st' = "end" /\ UNCHANGED epoch
     \/ ~stopEvent /\ st' = "keyWait" /\ UNCHANGED epoch          \* the key was refused
     \/ ~stopEvent /\ epoch < MaxEpoch /\ st' = "dial" /\ epoch' = epoch + 1
  /\ UNCHANGED <<market_vars, main_vars, pass_vars, desired, served, cache, snapshot, stopEvent>>

\* A wait that stop() interrupts, after a refused key or a lost connection.
BackOff ==
  /\ st \in {"keyWait", "wait"}
  /\ st' = IF stopEvent THEN "end" ELSE "key"
  /\ UNCHANGED <<market_vars, main_vars, pass_vars, desired, served, cache, epoch, snapshot, stopEvent>>

MutOpened ==           \* a new connection starts with no subscription
  /\ st = "dial"
  /\ st' = "onOpen" /\ snapshot' = {}
  /\ UNCHANGED <<market_vars, main_vars, pass_vars, desired, served, cache, epoch, stopEvent>>

Opened ==              \* on_open takes its copy under the lock
  /\ st = "dial"
  /\ st' = "onOpen" /\ snapshot' = desired
  /\ UNCHANGED <<market_vars, main_vars, pass_vars, desired, served, cache, epoch, stopEvent>>

OnOpenSend ==
  /\ st = "onOpen"
  /\ IF snapshot = {}
     THEN st' = "run" /\ UNCHANGED <<snapshot, served>>
     ELSE \E t \in snapshot : /\ snapshot' = snapshot \ {t}
                              /\ served' = served \cup {t}
                              /\ UNCHANGED st
  /\ UNCHANGED <<market_vars, main_vars, pass_vars, desired, cache, epoch, stopEvent>>

\* The dial fails or the connection breaks; run_forever returns, and the
\* gateway forgets the subscriptions of the connection.
Break ==
  /\ st \in {"dial", "onOpen", "run"} /\ epoch < MaxEpoch
  /\ st' = "lost" /\ served' = {} /\ snapshot' = {}
  /\ UNCHANGED <<market_vars, main_vars, pass_vars, desired, cache, epoch, stopEvent>>

Reconnect ==           \* _ws = None, then the wait before the next attempt
  /\ st = "lost"
  /\ st' = IF stopEvent THEN "end" ELSE "wait"
  /\ UNCHANGED <<market_vars, main_vars, pass_vars, desired, served, cache, epoch, snapshot, stopEvent>>

\* parse_frame: JSON is control plane, data frames count only when plain,
\* of the tick kind, and long enough; single records that do not parse are
\* left out.
ParseFrame(f) ==
  IF f.json THEN [kind |-> f.trId, ticks |-> {}]
  ELSE IF f.whole /\ f.trId = "tick" /\ f.long THEN [kind |-> "ticks", ticks |-> f.records]
  ELSE [kind |-> "unknown", ticks |-> {}]

Frame(t) ==
  {[json |-> FALSE, trId |-> "tick", whole |-> w, long |-> l, records |-> r] :
      w \in BOOLEAN, l \in BOOLEAN, r \in {{t}, {}}}
  \cup {[json |-> TRUE, trId |-> k, whole |-> FALSE, long |-> FALSE, records |-> {}] :
      k \in {"pingpong", "control"}}

\* One frame about a served name; a tick carries the price of the moment.
OnMessage(t) ==
  /\ st \in {"onOpen", "run"} /\ InSession /\ t \in served
  /\ \E f \in Frame(t) :
       LET p == ParseFrame(f) IN
         /\ p.kind = "ticks" /\ p.ticks # {}
         /\ cache' = [u \in Ticker |-> IF u \in p.ticks THEN market[u] ELSE cache[u]]
         /\ fresh' = TRUE
  /\ UNCHANGED <<market_vars, stream_vars, main_vars, due, seen, desired, served>>

(***************************************************************************)
(* The monitor's thread: cmd_monitor                                       *)
(***************************************************************************)
SyncBegin ==
  /\ mp = "sync"
  /\ watch' = held /\ mp' = "diff"
  /\ UNCHANGED <<market_vars, stream_vars, pass_vars, desired, served, cache, job, left>>

\* subscribe: remembered and the connection read under one lock
Subscribe(t) ==
  /\ mp = "diff" /\ t \in watch \ desired
  /\ desired' = desired \cup {t}
  /\ job' = [op |-> "sub", t |-> t, ws |-> WsObject]
  /\ mp' = "send"
  /\ UNCHANGED <<market_vars, stream_vars, pass_vars, served, cache, watch, left>>

Unsubscribe(t) ==
  /\ mp = "diff" /\ t \in desired \ watch
  /\ desired' = desired \ {t}
  /\ job' = [op |-> "unsub", t |-> t, ws |-> WsObject]
  /\ mp' = "send"
  /\ UNCHANGED <<market_vars, stream_vars, pass_vars, served, cache, watch, left>>

\* The frame goes out after the lock; a connection that is not there raises,
\* which is only logged.
SendFrame ==
  /\ mp = "send"
  /\ served' = IF ~Connected(job.ws) THEN served
               ELSE IF job.op = "sub" THEN served \cup {job.t} ELSE served \ {job.t}
  /\ job' = NoJob /\ mp' = "diff"
  /\ UNCHANGED <<market_vars, stream_vars, pass_vars, desired, cache, watch, left>>

SyncEnd ==             \* the first sync is followed by stream.start()
  /\ mp = "diff" /\ watch = desired
  /\ mp' = "due" /\ watch' = {} /\ st' = IF st = "off" THEN "key" ELSE st
  /\ UNCHANGED <<market_vars, epoch, snapshot, stopEvent, pass_vars, desired, served, cache, job, left>>

\* evaluate_if_due: nothing held, nothing open, nothing new and not due
Skip ==
  /\ mp = "due" /\ (held = {} \/ ~InSession \/ (~fresh /\ ~due))
  /\ mp' = "sleep"
  /\ UNCHANGED <<market_vars, stream_vars, pass_vars, desired, served, cache, job, watch, left>>

Evaluate ==
  /\ mp = "due" /\ held # {} /\ InSession /\ (fresh \/ due)
  /\ mp' = "record"
  /\ UNCHANGED <<market_vars, stream_vars, pass_vars, desired, served, cache, job, watch, left>>

\* _last_generation is read again, after the test, and before the pass
Record ==
  /\ mp = "record"
  /\ fresh' = FALSE /\ due' = FALSE
  /\ left' = held /\ mp' = "pass"
  /\ seen' = [t \in Ticker |-> "none"]
  /\ UNCHANGED <<market_vars, stream_vars, desired, served, cache, job, watch>>

\* StreamPricedProvider.get_current_price: the cached tick, of any age;
\* only without one the REST quote, which may fail
QuotePrices(t) == IF cache[t] # "none" THEN {cache[t]} ELSE {market[t], "none"}

PassOne(t) ==
  /\ mp = "pass" /\ t \in left
  /\ \E p \in QuotePrices(t) :
       /\ seen' = [seen EXCEPT ![t] = p]
       /\ held' = IF p = "low" THEN held \ {t} ELSE held
  /\ left' = left \ {t}
  /\ UNCHANGED <<trades, market, day, stream_vars, fresh, due, desired, served, cache, mp, job, watch>>

MutPassEnd ==          \* the generation is recorded after the pass
  /\ mp = "pass" /\ left = {}
  /\ mp' = "sleep" /\ fresh' = FALSE
  /\ UNCHANGED <<market_vars, stream_vars, due, seen, desired, served, cache, job, watch, left>>

PassEnd ==
  /\ mp = "pass" /\ left = {}
  /\ mp' = "sleep"
  /\ UNCHANGED <<market_vars, stream_vars, pass_vars, desired, served, cache, job, watch, left>>

Sleep ==               \* the resubscription interval has run out, or not
  /\ mp = "sleep" /\ mp' \in {"sync", "due"}
  /\ UNCHANGED <<market_vars, stream_vars, pass_vars, desired, served, cache, job, watch, left>>

\* Ctrl-C: stop() sets the event and closes the connection it sees.
Interrupt ==
  /\ mp = "sleep" /\ mp' = "ended" /\ stopEvent' = TRUE
  /\ IF WsObject # 0 THEN st' = "lost" /\ served' = {} /\ snapshot' = {}
                     ELSE UNCHANGED <<st, served, snapshot>>
  /\ UNCHANGED <<market_vars, epoch, pass_vars, desired, cache, job, watch, left>>

World    == Elapse \/ Session \/ \E t \in Ticker : Buy(t) \/ CloseOutside(t) \/ Fall(t)
Stream   == FetchKey \/ BackOff \/ Opened \/ OnOpenSend \/ Break \/ Reconnect
              \/ \E t \in Ticker : OnMessage(t)
Monitor  == SyncBegin \/ SendFrame \/ SyncEnd \/ Skip \/ Evaluate \/ Record \/ PassEnd \/ Sleep
              \/ \E t \in Ticker : Subscribe(t) \/ Unsubscribe(t) \/ PassOne(t)
LiveNext == World \/ Stream \/ Monitor \/ Interrupt

\* The threads keep running and the interval elapses.  The sleep between two
\* rounds must not skip resubscription for ever, an opened day comes.
Threads ==
  /\ WF_feed(FetchKey) /\ WF_feed(BackOff) /\ WF_feed(OnOpenSend) /\ WF_feed(Reconnect)
  /\ WF_feed(Opened \/ (st = "dial" /\ Break))
  /\ WF_feed(Monitor) /\ WF_feed(Elapse) /\ WF_feed(Session /\ day = 1)
  /\ SF_feed(Sleep /\ mp' = "sync")

\* The gateway gives keys, accepts connections and prints trades again and again.
Gateway ==
  /\ SF_feed(FetchKey /\ st' = "dial") /\ WF_feed(Opened)
  /\ \A t \in Ticker : SF_feed(OnMessage(t) /\ cache'[t] # cache[t])

LiveSpec == LiveInit /\ [][LiveNext]_feed /\ Threads /\ Gateway

(***************************************************************************)
(* Properties                                                              *)
(***************************************************************************)

\* live_monitor.py:219-232 - a tick is not lost between the freshness test,
\* the recorded generation and the pass: when the monitor believes it has
\* seen everything, the last pass used the latest tick of every name it covered.
NoTickForgotten ==
  (~fresh /\ mp \notin {"pass", "record"}) =>
     \A t \in held : seen[t] # "none" /\ cache[t] # "none" => seen[t] = cache[t]

\* stream.py:189-211, 277-280 - no subscription is missed: on a connection
\* whose on_open is through, the gateway serves every desired name except
\* the one whose frame is about to be sent.
SubscriptionsServed ==
  st = "run" => desired \subseteq served \cup {job.t}

\* stream.py:13-17, live_monitor.py:10-13 - a held name that falls to its stop
\* is sold by a pass, sold elsewhere, or the monitor is stopped: whatever
\* breaks in between, once the gateway works.  In an outage that lasts it fails:
\* the REST cadence goes on, but with the cached tick of before the outage.
LowSold ==
  \A t \in Ticker :
    (t \in held /\ market[t] = "low") ~> (t \notin held \/ mp = "ended")
=============================================================================
