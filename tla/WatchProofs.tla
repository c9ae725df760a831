----------------------------- MODULE WatchProofs -----------------------------
(***************************************************************************)
(* Proofs about the two components that watch: the monitor's feed of prices *)
(* (LiveFeed), for any set of names, connections and trades, and the        *)
(* supervision of the loops (Supervision), for any number of threads and    *)
(* any time-out.                                                            *)
(***************************************************************************)
EXTENDS LiveFeed, Supervision, FiniteSetTheorems, TLAPS

-----------------------------------------------------------------------------
(* LiveFeed: no tick is forgotten and no subscription is missed. *)

\* A tick that came in after the last pass read the cache has left its mark in
\* the generation, during a pass as well.
TickInv ==
  ~fresh => \A t \in held : seen[t] # "none" /\ cache[t] # "none" => seen[t] = cache[t]

\* The subscribe frame on its way through the connection that is open now.
OnItsWay == IF job.op = "sub" /\ job.ws = epoch THEN {job.t} ELSE {}

\* Who is responsible for a desired name that the gateway does not serve yet:
\* on_open's copy, or the monitor's frame through the same connection.
FeedInv ==
  /\ mp # "send" => job = NoJob
  /\ job.op = "unsub" => job.t \notin desired
  /\ st \in {"dial", "onOpen", "run", "lost"} => epoch > 0
  /\ st = "run" => snapshot = {}
  /\ st \in {"onOpen", "run"} => desired \subseteq served \cup snapshot \cup OnItsWay

LEMMA InitType == LiveInit => LiveTypeOK
<1> SUFFICES ASSUME LiveInit PROVE LiveTypeOK
  OBVIOUS
<1>1. held \subseteq Ticker /\ trades \in 0..MaxTrades /\ epoch \in 0..MaxEpoch
  BY LiveAssumption DEF LiveAssumption, LiveInit
<1>2. /\ market \in [Ticker -> Price]
      /\ cache \in [Ticker -> Price \cup {"none"}]
      /\ seen \in [Ticker -> Price \cup {"none"}]
  BY DEF LiveInit, Price
<1>3. desired = {} /\ snapshot = {} /\ served = {} /\ watch = {} /\ left = {} /\ job = NoJob
  BY DEF LiveInit
<1>4. day \in 0..2 /\ st \in StreamStep /\ mp \in MainStep
  BY DEF LiveInit, StreamStep, MainStep
<1>5. stopEvent \in BOOLEAN /\ fresh \in BOOLEAN /\ due \in BOOLEAN
  BY Zenon DEF LiveInit
<1> QED BY <1>1, <1>2, <1>3, <1>4, <1>5 DEF LiveTypeOK

LEMMA TypeStep ==
  ASSUME LiveTypeOK, [LiveNext]_feed
  PROVE  LiveTypeOK'
<1>1. CASE UNCHANGED feed
  BY <1>1 DEF feed, market_vars, stream_vars, main_vars, pass_vars, LiveTypeOK, Price, StreamStep, MainStep
<1>2. CASE Elapse
  BY <1>2 DEF Elapse, feed, market_vars, stream_vars, main_vars, pass_vars, LiveTypeOK, Price, StreamStep, MainStep
<1>3. CASE Session
  BY <1>3 DEF Session, feed, market_vars, stream_vars, main_vars, pass_vars, LiveTypeOK, Price, StreamStep, MainStep
<1>4. CASE FetchKey
  BY <1>4, LiveAssumption DEF LiveAssumption, FetchKey, feed, market_vars, stream_vars, main_vars, pass_vars, LiveTypeOK, Price, StreamStep, MainStep
<1>5. CASE BackOff
  BY <1>5 DEF BackOff, feed, market_vars, stream_vars, main_vars, pass_vars, LiveTypeOK, Price, StreamStep, MainStep
<1>6. CASE Opened
  BY <1>6 DEF Opened, feed, market_vars, stream_vars, main_vars, pass_vars, LiveTypeOK, Price, StreamStep, MainStep
<1>7. CASE OnOpenSend
  BY <1>7 DEF OnOpenSend, feed, market_vars, stream_vars, main_vars, pass_vars, LiveTypeOK, Price, StreamStep, MainStep
<1>8. CASE Break
  BY <1>8 DEF Break, feed, market_vars, stream_vars, main_vars, pass_vars, LiveTypeOK, Price, StreamStep, MainStep
<1>9. CASE Reconnect
  BY <1>9 DEF Reconnect, feed, market_vars, stream_vars, main_vars, pass_vars, LiveTypeOK, Price, StreamStep, MainStep
<1>10. CASE SyncBegin
  BY <1>10 DEF SyncBegin, feed, market_vars, stream_vars, main_vars, pass_vars, LiveTypeOK, Price, StreamStep, MainStep
<1>11. CASE SendFrame
  BY <1>11 DEF SendFrame, NoJob, Connected, feed, market_vars, stream_vars, main_vars, pass_vars, LiveTypeOK, Price, StreamStep, MainStep
<1>12. CASE SyncEnd
  BY <1>12 DEF SyncEnd, feed, market_vars, stream_vars, main_vars, pass_vars, LiveTypeOK, Price, StreamStep, MainStep
<1>13. CASE Skip
  BY <1>13 DEF Skip, feed, market_vars, stream_vars, main_vars, pass_vars, LiveTypeOK, Price, StreamStep, MainStep
<1>14. CASE Evaluate
  BY <1>14 DEF Evaluate, feed, market_vars, stream_vars, main_vars, pass_vars, LiveTypeOK, Price, StreamStep, MainStep
<1>15. CASE Record
  BY <1>15 DEF Record, feed, market_vars, stream_vars, main_vars, pass_vars, LiveTypeOK, Price, StreamStep, MainStep
<1>16. CASE PassEnd
  BY <1>16 DEF PassEnd, feed, market_vars, stream_vars, main_vars, pass_vars, LiveTypeOK, Price, StreamStep, MainStep
<1>17. CASE Sleep
  BY <1>17 DEF Sleep, feed, market_vars, stream_vars, main_vars, pass_vars, LiveTypeOK, Price, StreamStep, MainStep
<1>18. CASE Interrupt
  BY <1>18 DEF Interrupt, WsObject, feed, market_vars, stream_vars, main_vars, pass_vars, LiveTypeOK, Price, StreamStep, MainStep
<1>19. CASE \E t \in Ticker : Buy(t)
  <2>1. PICK t \in Ticker : Buy(t)
    BY <1>19
  <2>2. seen' \in [Ticker -> Price \cup {"none"}]
    BY <2>1 DEF Buy, LiveTypeOK
  <2>3. trades' \in 0..MaxTrades /\ held' \subseteq Ticker
    BY <2>1, LiveAssumption DEF LiveAssumption, Buy, LiveTypeOK
  <2> QED BY <2>1, <2>2, <2>3 DEF Buy, LiveTypeOK, market_vars, stream_vars, main_vars, pass_vars
<1>20. CASE \E t \in Ticker : CloseOutside(t)
  BY <1>20 DEF CloseOutside, feed, market_vars, stream_vars, main_vars, pass_vars, LiveTypeOK, Price, StreamStep, MainStep
<1>21. CASE \E t \in Ticker : Fall(t)
  BY <1>21 DEF Fall, feed, market_vars, stream_vars, main_vars, pass_vars, LiveTypeOK, Price, StreamStep, MainStep
<1>22. CASE \E t \in Ticker : OnMessage(t)
  BY <1>22 DEF OnMessage, Frame, ParseFrame, feed, market_vars, stream_vars, main_vars, pass_vars, LiveTypeOK, Price, StreamStep, MainStep
<1>23. CASE \E t \in Ticker : Subscribe(t)
  <2>1. PICK t \in Ticker : Subscribe(t)
    BY <1>23
  <2>2. WsObject \in 0..MaxEpoch
    BY LiveAssumption DEF LiveAssumption, WsObject, LiveTypeOK
  <2>3. job' \in [op: {"sub", "unsub"}, t: Ticker, ws: 0..MaxEpoch]
    BY <2>1, <2>2 DEF Subscribe
  <2>4. desired' \subseteq Ticker /\ mp' \in MainStep
    BY <2>1 DEF Subscribe, LiveTypeOK, MainStep
  <2>5. UNCHANGED <<market_vars, stream_vars, pass_vars, served, cache, watch, left>>
    BY <2>1 DEF Subscribe
  <2> QED
    BY <2>3, <2>4, <2>5 DEF LiveTypeOK, market_vars, stream_vars, pass_vars
<1>24. CASE \E t \in Ticker : Unsubscribe(t)
  <2>1. PICK t \in Ticker : Unsubscribe(t)
    BY <1>24
  <2>2. WsObject \in 0..MaxEpoch
    BY LiveAssumption DEF LiveAssumption, WsObject, LiveTypeOK
  <2>3. job' \in [op: {"sub", "unsub"}, t: Ticker, ws: 0..MaxEpoch]
    BY <2>1, <2>2 DEF Unsubscribe
  <2>4. desired' \subseteq Ticker /\ mp' \in MainStep
    BY <2>1 DEF Unsubscribe, LiveTypeOK, MainStep
  <2>5. UNCHANGED <<market_vars, stream_vars, pass_vars, served, cache, watch, left>>
    BY <2>1 DEF Unsubscribe
  <2> QED
    BY <2>3, <2>4, <2>5 DEF LiveTypeOK, market_vars, stream_vars, pass_vars
<1>25. CASE \E t \in Ticker : PassOne(t)
  BY <1>25 DEF PassOne, QuotePrices, feed, market_vars, stream_vars, main_vars, pass_vars, LiveTypeOK, Price, StreamStep, MainStep
<1> QED
  BY <1>1, <1>2, <1>3, <1>4, <1>5, <1>6, <1>7, <1>8, <1>9, <1>10, <1>11,
     <1>12, <1>13, <1>14, <1>15, <1>16, <1>17, <1>18, <1>19, <1>20, <1>21, <1>22, <1>23, <1>24, <1>25
     DEF LiveNext, World, Stream, Monitor

LEMMA InitTick == LiveInit => TickInv
  BY DEF LiveInit, TickInv

LEMMA TickStep ==
  ASSUME LiveTypeOK, TickInv, [LiveNext]_feed
  PROVE  TickInv'
<1>1. CASE UNCHANGED feed
  BY <1>1 DEF feed, market_vars, stream_vars, main_vars, pass_vars, TickInv, LiveTypeOK
<1>2. CASE Elapse
  BY <1>2 DEF Elapse, feed, market_vars, stream_vars, main_vars, pass_vars, TickInv, LiveTypeOK
<1>3. CASE Session
  BY <1>3 DEF Session, feed, market_vars, stream_vars, main_vars, pass_vars, TickInv, LiveTypeOK
<1>4. CASE FetchKey
  BY <1>4 DEF FetchKey, feed, market_vars, stream_vars, main_vars, pass_vars, TickInv, LiveTypeOK
<1>5. CASE BackOff
  BY <1>5 DEF BackOff, feed, market_vars, stream_vars, main_vars, pass_vars, TickInv, LiveTypeOK
<1>6. CASE Opened
  BY <1>6 DEF Opened, feed, market_vars, stream_vars, main_vars, pass_vars, TickInv, LiveTypeOK
<1>7. CASE OnOpenSend
  BY <1>7 DEF OnOpenSend, feed, market_vars, stream_vars, main_vars, pass_vars, TickInv, LiveTypeOK
<1>8. CASE Break
  BY <1>8 DEF Break, feed, market_vars, stream_vars, main_vars, pass_vars, TickInv, LiveTypeOK
<1>9. CASE Reconnect
  BY <1>9 DEF Reconnect, feed, market_vars, stream_vars, main_vars, pass_vars, TickInv, LiveTypeOK
<1>10. CASE SyncBegin
  BY <1>10 DEF SyncBegin, feed, market_vars, stream_vars, main_vars, pass_vars, TickInv, LiveTypeOK
<1>11. CASE SendFrame
  BY <1>11 DEF SendFrame, feed, market_vars, stream_vars, main_vars, pass_vars, TickInv, LiveTypeOK
<1>12. CASE SyncEnd
  BY <1>12 DEF SyncEnd, feed, market_vars, stream_vars, main_vars, pass_vars, TickInv, LiveTypeOK
<1>13. CASE Skip
  BY <1>13 DEF Skip, feed, market_vars, stream_vars, main_vars, pass_vars, TickInv, LiveTypeOK
<1>14. CASE Evaluate
  BY <1>14 DEF Evaluate, feed, market_vars, stream_vars, main_vars, pass_vars, TickInv, LiveTypeOK
<1>15. CASE Record
  BY <1>15 DEF Record, feed, market_vars, stream_vars, main_vars, pass_vars, TickInv, LiveTypeOK
<1>16. CASE PassEnd
  BY <1>16 DEF PassEnd, feed, market_vars, stream_vars, main_vars, pass_vars, TickInv, LiveTypeOK
<1>17. CASE Sleep
  BY <1>17 DEF Sleep, feed, market_vars, stream_vars, main_vars, pass_vars, TickInv, LiveTypeOK
<1>18. CASE Interrupt
  BY <1>18 DEF Interrupt, feed, market_vars, stream_vars, main_vars, pass_vars, TickInv, LiveTypeOK
<1>19. CASE \E t \in Ticker : Buy(t)
  BY <1>19 DEF Buy, feed, market_vars, stream_vars, main_vars, pass_vars, TickInv, LiveTypeOK
<1>20. CASE \E t \in Ticker : CloseOutside(t)
  BY <1>20 DEF CloseOutside, feed, market_vars, stream_vars, main_vars, pass_vars, TickInv, LiveTypeOK
<1>21. CASE \E t \in Ticker : Fall(t)
  BY <1>21 DEF Fall, feed, market_vars, stream_vars, main_vars, pass_vars, TickInv, LiveTypeOK
<1>22. CASE \E t \in Ticker : OnMessage(t)
  BY <1>22 DEF OnMessage, feed, market_vars, stream_vars, main_vars, pass_vars, TickInv, LiveTypeOK
<1>23. CASE \E t \in Ticker : Subscribe(t)
  BY <1>23 DEF Subscribe, feed, market_vars, stream_vars, main_vars, pass_vars, TickInv, LiveTypeOK
<1>24. CASE \E t \in Ticker : Unsubscribe(t)
  BY <1>24 DEF Unsubscribe, feed, market_vars, stream_vars, main_vars, pass_vars, TickInv, LiveTypeOK
<1>25. CASE \E t \in Ticker : PassOne(t)
  BY <1>25 DEF PassOne, QuotePrices, feed, market_vars, stream_vars, main_vars, pass_vars, TickInv, LiveTypeOK
<1> QED
  BY <1>1, <1>2, <1>3, <1>4, <1>5, <1>6, <1>7, <1>8, <1>9, <1>10, <1>11,
     <1>12, <1>13, <1>14, <1>15, <1>16, <1>17, <1>18, <1>19, <1>20, <1>21, <1>22, <1>23, <1>24, <1>25
     DEF LiveNext, World, Stream, Monitor

LEMMA InitFeed == LiveInit => FeedInv
  BY DEF LiveInit, FeedInv, OnItsWay, NoJob

LEMMA FeedStep ==
  ASSUME LiveTypeOK, FeedInv, [LiveNext]_feed
  PROVE  FeedInv'
<1>1. CASE UNCHANGED feed
  BY <1>1 DEF feed, market_vars, stream_vars, main_vars, pass_vars, FeedInv, OnItsWay, NoJob, LiveTypeOK
<1>2. CASE Elapse
  BY <1>2 DEF Elapse, feed, market_vars, stream_vars, main_vars, pass_vars, FeedInv, OnItsWay, NoJob, LiveTypeOK
<1>3. CASE Session
  BY <1>3 DEF Session, feed, market_vars, stream_vars, main_vars, pass_vars, FeedInv, OnItsWay, NoJob, LiveTypeOK
<1>4. CASE FetchKey
  BY <1>4 DEF FetchKey, feed, market_vars, stream_vars, main_vars, pass_vars, FeedInv, OnItsWay, NoJob, LiveTypeOK
<1>5. CASE BackOff
  BY <1>5 DEF BackOff, feed, market_vars, stream_vars, main_vars, pass_vars, FeedInv, OnItsWay, NoJob, LiveTypeOK
<1>6. CASE Opened
  BY <1>6 DEF Opened, feed, market_vars, stream_vars, main_vars, pass_vars, FeedInv, OnItsWay, NoJob, LiveTypeOK
<1>7. CASE OnOpenSend
  BY <1>7 DEF OnOpenSend, feed, market_vars, stream_vars, main_vars, pass_vars, FeedInv, OnItsWay, NoJob, LiveTypeOK
<1>8. CASE Break
  BY <1>8 DEF Break, feed, market_vars, stream_vars, main_vars, pass_vars, FeedInv, OnItsWay, NoJob, LiveTypeOK
<1>9. CASE Reconnect
  BY <1>9 DEF Reconnect, feed, market_vars, stream_vars, main_vars, pass_vars, FeedInv, OnItsWay, NoJob, LiveTypeOK
<1>10. CASE SyncBegin
  BY <1>10 DEF SyncBegin, feed, market_vars, stream_vars, main_vars, pass_vars, FeedInv, OnItsWay, NoJob, LiveTypeOK
<1>11. CASE SendFrame
  BY <1>11 DEF SendFrame, Connected, feed, market_vars, stream_vars, main_vars, pass_vars, FeedInv, OnItsWay, NoJob, LiveTypeOK
<1>12. CASE SyncEnd
  BY <1>12 DEF SyncEnd, feed, market_vars, stream_vars, main_vars, pass_vars, FeedInv, OnItsWay, NoJob, LiveTypeOK
<1>13. CASE Skip
  BY <1>13 DEF Skip, feed, market_vars, stream_vars, main_vars, pass_vars, FeedInv, OnItsWay, NoJob, LiveTypeOK
<1>14. CASE Evaluate
  BY <1>14 DEF Evaluate, feed, market_vars, stream_vars, main_vars, pass_vars, FeedInv, OnItsWay, NoJob, LiveTypeOK
<1>15. CASE Record
  BY <1>15 DEF Record, feed, market_vars, stream_vars, main_vars, pass_vars, FeedInv, OnItsWay, NoJob, LiveTypeOK
<1>16. CASE PassEnd
  BY <1>16 DEF PassEnd, feed, market_vars, stream_vars, main_vars, pass_vars, FeedInv, OnItsWay, NoJob, LiveTypeOK
<1>17. CASE Sleep
  BY <1>17 DEF Sleep, feed, market_vars, stream_vars, main_vars, pass_vars, FeedInv, OnItsWay, NoJob, LiveTypeOK
<1>18. CASE Interrupt
  BY <1>18 DEF Interrupt, WsObject, feed, market_vars, stream_vars, main_vars, pass_vars, FeedInv, OnItsWay, NoJob, LiveTypeOK
<1>19. CASE \E t \in Ticker : Buy(t)
  BY <1>19 DEF Buy, feed, market_vars, stream_vars, main_vars, pass_vars, FeedInv, OnItsWay, NoJob, LiveTypeOK
<1>20. CASE \E t \in Ticker : CloseOutside(t)
  BY <1>20 DEF CloseOutside, feed, market_vars, stream_vars, main_vars, pass_vars, FeedInv, OnItsWay, NoJob, LiveTypeOK
<1>21. CASE \E t \in Ticker : Fall(t)
  BY <1>21 DEF Fall, feed, market_vars, stream_vars, main_vars, pass_vars, FeedInv, OnItsWay, NoJob, LiveTypeOK
<1>22. CASE \E t \in Ticker : OnMessage(t)
  BY <1>22 DEF OnMessage, feed, market_vars, stream_vars, main_vars, pass_vars, FeedInv, OnItsWay, NoJob, LiveTypeOK
<1>23. CASE \E t \in Ticker : Subscribe(t)
  BY <1>23 DEF Subscribe, WsObject, feed, market_vars, stream_vars, main_vars, pass_vars, FeedInv, OnItsWay, NoJob, LiveTypeOK
<1>24. CASE \E t \in Ticker : Unsubscribe(t)
  BY <1>24 DEF Unsubscribe, WsObject, feed, market_vars, stream_vars, main_vars, pass_vars, FeedInv, OnItsWay, NoJob, LiveTypeOK
<1>25. CASE \E t \in Ticker : PassOne(t)
  BY <1>25 DEF PassOne, feed, market_vars, stream_vars, main_vars, pass_vars, FeedInv, OnItsWay, NoJob, LiveTypeOK
<1> QED
  BY <1>1, <1>2, <1>3, <1>4, <1>5, <1>6, <1>7, <1>8, <1>9, <1>10, <1>11,
     <1>12, <1>13, <1>14, <1>15, <1>16, <1>17, <1>18, <1>19, <1>20, <1>21, <1>22, <1>23, <1>24, <1>25
     DEF LiveNext, World, Stream, Monitor

LEMMA TickSeen == TickInv => NoTickForgotten
  BY DEF TickInv, NoTickForgotten

LEMMA FeedServed == FeedInv => SubscriptionsServed
  BY DEF FeedInv, OnItsWay, SubscriptionsServed

LiveInv == LiveTypeOK /\ TickInv /\ FeedInv

LEMMA LiveInvariance == LiveSpec => []LiveInv
<1>1. LiveInit => LiveInv
  BY InitType, InitTick, InitFeed DEF LiveInv
<1>2. LiveInv /\ [LiveNext]_feed => LiveInv'
  BY TypeStep, TickStep, FeedStep DEF LiveInv
<1> QED BY <1>1, <1>2, PTL DEF LiveSpec

\* Both threads keep the types of what they share.
THEOREM LiveTypeCorrect == LiveSpec => []LiveTypeOK
<1>1. LiveInv => LiveTypeOK
  BY DEF LiveInv
<1> QED BY <1>1, LiveInvariance, PTL

\* live_monitor.py, evaluate_if_due - when the monitor believes it has seen every
\* tick, its last pass used the latest one of each name, for any number of names.
THEOREM NoTickLost == LiveSpec => []NoTickForgotten
<1>1. LiveInv => NoTickForgotten
  BY TickSeen DEF LiveInv
<1> QED BY <1>1, LiveInvariance, PTL

\* stream.py, subscribe and on_open - no subscription falls between the copy that
\* on_open takes and the frames of the monitor's thread, through any number of
\* reconnects.
THEOREM NoSubscriptionMissed == LiveSpec => []SubscriptionsServed
<1>1. LiveInv => SubscriptionsServed
  BY FeedServed DEF LiveInv
<1> QED BY <1>1, LiveInvariance, PTL

-----------------------------------------------------------------------------
(* Supervision: no mute and no farewell hides a silence. *)

Living == {l \in Loop : Alive(l)}

\* TypeOK without the count of threads, which has lemmas of its own.
Kinds ==
  /\ active \in BOOLEAN
  /\ loop \in [Loop -> LoopStep]
  /\ beat \in [status : Status, age : 0 .. Timeout + 1]
  /\ prev \in {"none", "well", "failing"}
  /\ since \in 0 .. Ttl
  /\ grace \in BOOLEAN /\ told \in BOOLEAN /\ lost \in BOOLEAN
  /\ overlap \in BOOLEAN /\ calm \in BOOLEAN
  /\ (told \/ lost) => prev = "failing"

Counted ==
  /\ starting \in Nat
  /\ starting + Cardinality(Living) <= Cardinality(Loop)

\* While a page mutes, a heartbeat that is well is younger than the page.
MuteInv ==
  since < Ttl =>
    \/ beat.age <= since
    \/ beat.status \in {"absent", "stopped", "failed"}
    \/ prev = "failing" /\ beat.age > Timeout

\* Two loops at once have been noticed, and a farewell is one's own unless there
\* were two.
TwoInv == \A k, l \in Loop : k # l /\ Alive(k) /\ Alive(l) => overlap

FarewellInv ==
  beat.status = "stopped" =>
    \A l \in Loop : loop[l] \notin {"none", "new", "exit"} => overlap

LEMMA TtlIsNat == Ttl \in Nat /\ Ttl > 0
  BY SupervisionAssumption DEF SupervisionAssumption, Ttl

LEMMA InitKinds == Init => Kinds
<1> SUFFICES ASSUME Init PROVE Kinds
  OBVIOUS
<1>1. since \in 0 .. Ttl /\ 0 \in 0 .. Timeout + 1
  BY TtlIsNat, SupervisionAssumption DEF SupervisionAssumption, Init
<1>2. loop \in [Loop -> LoopStep] /\ prev \in {"none", "well", "failing"}
  BY DEF Init, LoopStep
<1>3. beat \in [status : Status, age : 0 .. Timeout + 1]
  BY <1>1 DEF Init, Status
<1>4. active = FALSE /\ grace = TRUE /\ told = FALSE /\ lost = FALSE /\ overlap = FALSE /\ calm = FALSE
  BY DEF Init
<1> QED BY <1>1, <1>2, <1>3, <1>4 DEF Kinds

LEMMA KindsStep ==
  ASSUME Kinds, [Next]_vars
  PROVE  Kinds'
<1>1. CASE UNCHANGED vars
  BY <1>1 DEF vars, pilot, watchdog, Kinds, LoopStep, Status
<1>2. CASE \E l \in Loop : Spawn(l)
  BY <1>2, TtlIsNat, SupervisionAssumption DEF Spawn, pilot, watchdog, Kinds, LoopStep, Status
<1>3. CASE \E l \in Loop : Boot(l)
  BY <1>3, TtlIsNat, SupervisionAssumption DEF Boot, Quietly, Step, Publish, pilot, watchdog, Kinds, LoopStep, Status
<1>4. CASE \E l \in Loop : Scan(l)
  BY <1>4, TtlIsNat, SupervisionAssumption DEF Scan, Quietly, Step, Publish, GoOn, pilot, watchdog, Kinds, LoopStep, Status
<1>5. CASE \E l \in Loop : Leave(l)
  BY <1>5, TtlIsNat, SupervisionAssumption DEF Leave, Quietly, Step, GoOn, pilot, watchdog, Kinds, LoopStep, Status
<1>6. CASE \E l \in Loop : Swept(l)
  BY <1>6, TtlIsNat, SupervisionAssumption DEF Swept, Quietly, Step, pilot, watchdog, Kinds, LoopStep, Status
<1>7. CASE \E l \in Loop : Raise(l)
  BY <1>7, TtlIsNat, SupervisionAssumption DEF Raise, Quietly, Step, Publish, pilot, watchdog, Kinds, LoopStep, Status
<1>8. CASE \E l \in Loop : Rest(l)
  BY <1>8, TtlIsNat, SupervisionAssumption DEF Rest, Quietly, Step, pilot, watchdog, Kinds, LoopStep, Status
<1>9. CASE \E l \in Loop : Idle(l)
  BY <1>9, TtlIsNat, SupervisionAssumption DEF Idle, Quietly, Step, Publish, pilot, watchdog, Kinds, LoopStep, Status
<1>10. CASE \E l \in Loop : Wake(l)
  BY <1>10, TtlIsNat, SupervisionAssumption DEF Wake, Quietly, Step, pilot, watchdog, Kinds, LoopStep, Status
<1>11. CASE \E l \in Loop : Exit(l)
  BY <1>11, TtlIsNat, SupervisionAssumption DEF Exit, Quietly, Step, Publish, pilot, watchdog, Kinds, LoopStep, Status
<1>12. CASE \E l \in Loop : BootFail(l)
  BY <1>12, TtlIsNat, SupervisionAssumption DEF BootFail, Quietly, Step, pilot, watchdog, Kinds, LoopStep, Status
<1>13. CASE \E l \in Loop : Hang(l)
  BY <1>13, TtlIsNat, SupervisionAssumption DEF Hang, Quietly, Step, pilot, watchdog, Kinds, LoopStep, Status
<1>14. CASE \E l \in Loop : WaitOn(l)
  BY <1>14, TtlIsNat, SupervisionAssumption DEF WaitOn, Quietly, Publish, pilot, watchdog, Kinds, LoopStep, Status
<1>15. CASE Start
  BY <1>15, TtlIsNat, SupervisionAssumption DEF Start, pilot, watchdog, Kinds, LoopStep, Status
<1>16. CASE Stop
  BY <1>16, TtlIsNat, SupervisionAssumption DEF Stop, StopBeat, pilot, watchdog, Kinds, LoopStep, Status
<1>17. CASE Die
  BY <1>17, TtlIsNat, SupervisionAssumption DEF Die, pilot, watchdog, Kinds, LoopStep, Status
<1>18. CASE CheckWell
  BY <1>18, TtlIsNat, SupervisionAssumption DEF CheckWell, Remember, Failing, Health, pilot, watchdog, Kinds, LoopStep, Status
<1>19. CASE PageMuted
  BY <1>19, TtlIsNat, SupervisionAssumption DEF PageMuted, Pages, Remember, Muted, Failing, Health, pilot, watchdog, Kinds, LoopStep, Status
<1>20. CASE PageSent
  BY <1>20, TtlIsNat, SupervisionAssumption DEF PageSent, Pages, Remember, Muted, Failing, Health, pilot, watchdog, Kinds, LoopStep, Status
<1>21. CASE PageFails
  BY <1>21, TtlIsNat, SupervisionAssumption DEF PageFails, Pages, Remember, Muted, Failing, Health, pilot, watchdog, Kinds, LoopStep, Status
<1>22. CASE GraceEnds
  BY <1>22, TtlIsNat, SupervisionAssumption DEF GraceEnds, pilot, watchdog, Kinds, LoopStep, Status
<1>23. CASE Restart
  <2>1. since' \in 0 .. Ttl /\ prev' \in {"none", "well", "failing"}
    BY <1>23, TtlIsNat DEF Restart
  <2>2. grace' = TRUE /\ told' = FALSE /\ lost' = FALSE
    BY <1>23 DEF Restart
  <2>3. UNCHANGED <<pilot, beat, overlap, calm>>
    BY <1>23 DEF Restart
  <2> QED BY <2>1, <2>2, <2>3 DEF Kinds, pilot
<1>24. CASE Tick
  BY <1>24, TtlIsNat, SupervisionAssumption DEF Tick, pilot, watchdog, Kinds, LoopStep, Status
<1>25. CASE CalmDown
  BY <1>25, TtlIsNat, SupervisionAssumption DEF CalmDown, pilot, watchdog, Kinds, LoopStep, Status
<1> QED
  BY <1>1, <1>2, <1>3, <1>4, <1>5, <1>6, <1>7, <1>8, <1>9, <1>10, <1>11, <1>12, <1>13,
     <1>14, <1>15, <1>16, <1>17, <1>18, <1>19, <1>20, <1>21, <1>22, <1>23, <1>24, <1>25
     DEF Next, LoopSteps, Check

LEMMA InitMute == Init => MuteInv
  BY DEF Init, MuteInv

LEMMA MuteStep ==
  ASSUME Kinds, MuteInv, [Next]_vars
  PROVE  MuteInv'
<1>1. CASE UNCHANGED vars
  BY <1>1 DEF vars, pilot, watchdog, MuteInv, Kinds
<1>2. CASE \E l \in Loop : Spawn(l)
  BY <1>2, TtlIsNat, SupervisionAssumption DEF Spawn, pilot, watchdog, MuteInv, Kinds
<1>3. CASE \E l \in Loop : Boot(l)
  BY <1>3, TtlIsNat, SupervisionAssumption DEF Boot, Quietly, Step, Publish, pilot, watchdog, MuteInv, Kinds
<1>4. CASE \E l \in Loop : Scan(l)
  BY <1>4, TtlIsNat, SupervisionAssumption DEF Scan, Quietly, Step, Publish, GoOn, pilot, watchdog, MuteInv, Kinds
<1>5. CASE \E l \in Loop : Leave(l)
  BY <1>5, TtlIsNat, SupervisionAssumption DEF Leave, Quietly, Step, GoOn, pilot, watchdog, MuteInv, Kinds
<1>6. CASE \E l \in Loop : Swept(l)
  BY <1>6, TtlIsNat, SupervisionAssumption DEF Swept, Quietly, Step, pilot, watchdog, MuteInv, Kinds
<1>7. CASE \E l \in Loop : Raise(l)
  BY <1>7, TtlIsNat, SupervisionAssumption DEF Raise, Quietly, Step, Publish, pilot, watchdog, MuteInv, Kinds
<1>8. CASE \E l \in Loop : Rest(l)
  BY <1>8, TtlIsNat, SupervisionAssumption DEF Rest, Quietly, Step, pilot, watchdog, MuteInv, Kinds
<1>9. CASE \E l \in Loop : Idle(l)
  BY <1>9, TtlIsNat, SupervisionAssumption DEF Idle, Quietly, Step, Publish, pilot, watchdog, MuteInv, Kinds
<1>10. CASE \E l \in Loop : Wake(l)
  BY <1>10, TtlIsNat, SupervisionAssumption DEF Wake, Quietly, Step, pilot, watchdog, MuteInv, Kinds
<1>11. CASE \E l \in Loop : Exit(l)
  BY <1>11, TtlIsNat, SupervisionAssumption DEF Exit, Quietly, Step, Publish, pilot, watchdog, MuteInv, Kinds
<1>12. CASE \E l \in Loop : BootFail(l)
  BY <1>12, TtlIsNat, SupervisionAssumption DEF BootFail, Quietly, Step, pilot, watchdog, MuteInv, Kinds
<1>13. CASE \E l \in Loop : Hang(l)
  BY <1>13, TtlIsNat, SupervisionAssumption DEF Hang, Quietly, Step, pilot, watchdog, MuteInv, Kinds
<1>14. CASE \E l \in Loop : WaitOn(l)
  BY <1>14, TtlIsNat, SupervisionAssumption DEF WaitOn, Quietly, Publish, pilot, watchdog, MuteInv, Kinds
<1>15. CASE Start
  BY <1>15, TtlIsNat, SupervisionAssumption DEF Start, pilot, watchdog, MuteInv, Kinds
<1>16. CASE Stop
  BY <1>16, TtlIsNat, SupervisionAssumption DEF Stop, StopBeat, pilot, watchdog, MuteInv, Kinds
<1>17. CASE Die
  BY <1>17, TtlIsNat, SupervisionAssumption DEF Die, pilot, watchdog, MuteInv, Kinds
<1>18. CASE CheckWell
  BY <1>18, TtlIsNat, SupervisionAssumption DEF CheckWell, Remember, Failing, Health, pilot, watchdog, MuteInv, Kinds
<1>19. CASE PageMuted
  BY <1>19, TtlIsNat, SupervisionAssumption DEF PageMuted, Pages, Remember, Muted, Failing, Health, pilot, watchdog, MuteInv, Kinds
<1>20. CASE PageSent
  BY <1>20, TtlIsNat, SupervisionAssumption DEF PageSent, Pages, Remember, Muted, Failing, Health, pilot, watchdog, MuteInv, Kinds
<1>21. CASE PageFails
  BY <1>21, TtlIsNat, SupervisionAssumption DEF PageFails, Pages, Remember, Muted, Failing, Health, pilot, watchdog, MuteInv, Kinds
<1>22. CASE GraceEnds
  BY <1>22, TtlIsNat, SupervisionAssumption DEF GraceEnds, pilot, watchdog, MuteInv, Kinds
<1>23. CASE Restart
  BY <1>23, TtlIsNat, SupervisionAssumption DEF Restart, pilot, watchdog, MuteInv, Kinds
<1>24. CASE Tick
  BY <1>24, TtlIsNat, SupervisionAssumption DEF Tick, pilot, watchdog, MuteInv, Kinds
<1>25. CASE CalmDown
  BY <1>25, TtlIsNat, SupervisionAssumption DEF CalmDown, pilot, watchdog, MuteInv, Kinds
<1> QED
  BY <1>1, <1>2, <1>3, <1>4, <1>5, <1>6, <1>7, <1>8, <1>9, <1>10, <1>11, <1>12, <1>13,
     <1>14, <1>15, <1>16, <1>17, <1>18, <1>19, <1>20, <1>21, <1>22, <1>23, <1>24, <1>25
     DEF Next, LoopSteps, Check

LEMMA InitTwo == Init => TwoInv /\ FarewellInv
  BY DEF Init, TwoInv, FarewellInv, Alive

LEMMA TwoStep ==
  ASSUME Kinds, TwoInv, [Next]_vars
  PROVE  TwoInv'
<1>1. CASE UNCHANGED vars
  BY <1>1 DEF vars, pilot, watchdog, TwoInv, Kinds, Alive
<1>2. CASE \E l \in Loop : Spawn(l)
  BY <1>2 DEF Spawn, pilot, watchdog, TwoInv, Kinds, Alive
<1>3. CASE \E l \in Loop : Boot(l)
  BY <1>3 DEF Boot, Quietly, Step, Publish, pilot, watchdog, TwoInv, Kinds, Alive
<1>4. CASE \E l \in Loop : Scan(l)
  BY <1>4 DEF Scan, Quietly, Step, Publish, GoOn, pilot, watchdog, TwoInv, Kinds, Alive
<1>5. CASE \E l \in Loop : Leave(l)
  BY <1>5 DEF Leave, Quietly, Step, GoOn, pilot, watchdog, TwoInv, Kinds, Alive
<1>6. CASE \E l \in Loop : Swept(l)
  BY <1>6 DEF Swept, Quietly, Step, pilot, watchdog, TwoInv, Kinds, Alive
<1>7. CASE \E l \in Loop : Raise(l)
  BY <1>7 DEF Raise, Quietly, Step, Publish, pilot, watchdog, TwoInv, Kinds, Alive
<1>8. CASE \E l \in Loop : Rest(l)
  BY <1>8 DEF Rest, Quietly, Step, pilot, watchdog, TwoInv, Kinds, Alive
<1>9. CASE \E l \in Loop : Idle(l)
  BY <1>9 DEF Idle, Quietly, Step, Publish, pilot, watchdog, TwoInv, Kinds, Alive
<1>10. CASE \E l \in Loop : Wake(l)
  BY <1>10 DEF Wake, Quietly, Step, pilot, watchdog, TwoInv, Kinds, Alive
<1>11. CASE \E l \in Loop : Exit(l)
  BY <1>11 DEF Exit, Quietly, Step, Publish, pilot, watchdog, TwoInv, Kinds, Alive
<1>12. CASE \E l \in Loop : BootFail(l)
  BY <1>12 DEF BootFail, Quietly, Step, pilot, watchdog, TwoInv, Kinds, Alive
<1>13. CASE \E l \in Loop : Hang(l)
  BY <1>13 DEF Hang, Quietly, Step, pilot, watchdog, TwoInv, Kinds, Alive
<1>14. CASE \E l \in Loop : WaitOn(l)
  BY <1>14 DEF WaitOn, Quietly, Publish, pilot, watchdog, TwoInv, Kinds, Alive
<1>15. CASE Start
  BY <1>15 DEF Start, pilot, watchdog, TwoInv, Kinds, Alive
<1>16. CASE Stop
  BY <1>16 DEF Stop, StopBeat, pilot, watchdog, TwoInv, Kinds, Alive
<1>17. CASE Die
  BY <1>17 DEF Die, pilot, watchdog, TwoInv, Kinds, Alive
<1>18. CASE CheckWell
  BY <1>18 DEF CheckWell, Remember, Failing, Health, pilot, watchdog, TwoInv, Kinds, Alive
<1>19. CASE PageMuted
  BY <1>19 DEF PageMuted, Pages, Remember, Muted, Failing, Health, pilot, watchdog, TwoInv, Kinds, Alive
<1>20. CASE PageSent
  BY <1>20 DEF PageSent, Pages, Remember, Muted, Failing, Health, pilot, watchdog, TwoInv, Kinds, Alive
<1>21. CASE PageFails
  BY <1>21 DEF PageFails, Pages, Remember, Muted, Failing, Health, pilot, watchdog, TwoInv, Kinds, Alive
<1>22. CASE GraceEnds
  BY <1>22 DEF GraceEnds, pilot, watchdog, TwoInv, Kinds, Alive
<1>23. CASE Restart
  BY <1>23 DEF Restart, pilot, watchdog, TwoInv, Kinds, Alive
<1>24. CASE Tick
  BY <1>24 DEF Tick, pilot, watchdog, TwoInv, Kinds, Alive
<1>25. CASE CalmDown
  BY <1>25 DEF CalmDown, pilot, watchdog, TwoInv, Kinds, Alive
<1> QED
  BY <1>1, <1>2, <1>3, <1>4, <1>5, <1>6, <1>7, <1>8, <1>9, <1>10, <1>11, <1>12, <1>13,
     <1>14, <1>15, <1>16, <1>17, <1>18, <1>19, <1>20, <1>21, <1>22, <1>23, <1>24, <1>25
     DEF Next, LoopSteps, Check

LEMMA FarewellStep ==
  ASSUME Kinds, TwoInv, FarewellInv, [Next]_vars
  PROVE  FarewellInv'
<1>1. CASE UNCHANGED vars
  BY <1>1 DEF vars, pilot, watchdog, FarewellInv, TwoInv, Kinds, Alive
<1>2. CASE \E l \in Loop : Spawn(l)
  BY <1>2 DEF Spawn, pilot, watchdog, FarewellInv, TwoInv, Kinds, Alive
<1>3. CASE \E l \in Loop : Boot(l)
  BY <1>3 DEF Boot, Quietly, Step, Publish, pilot, watchdog, FarewellInv, TwoInv, Kinds, Alive
<1>4. CASE \E l \in Loop : Scan(l)
  BY <1>4 DEF Scan, Quietly, Step, Publish, GoOn, pilot, watchdog, FarewellInv, TwoInv, Kinds, Alive
<1>5. CASE \E l \in Loop : Leave(l)
  BY <1>5 DEF Leave, Quietly, Step, GoOn, pilot, watchdog, FarewellInv, TwoInv, Kinds, Alive
<1>6. CASE \E l \in Loop : Swept(l)
  BY <1>6 DEF Swept, Quietly, Step, pilot, watchdog, FarewellInv, TwoInv, Kinds, Alive
<1>7. CASE \E l \in Loop : Raise(l)
  BY <1>7 DEF Raise, Quietly, Step, Publish, pilot, watchdog, FarewellInv, TwoInv, Kinds, Alive
<1>8. CASE \E l \in Loop : Rest(l)
  BY <1>8 DEF Rest, Quietly, Step, pilot, watchdog, FarewellInv, TwoInv, Kinds, Alive
<1>9. CASE \E l \in Loop : Idle(l)
  BY <1>9 DEF Idle, Quietly, Step, Publish, pilot, watchdog, FarewellInv, TwoInv, Kinds, Alive
<1>10. CASE \E l \in Loop : Wake(l)
  BY <1>10 DEF Wake, Quietly, Step, pilot, watchdog, FarewellInv, TwoInv, Kinds, Alive
<1>11. CASE \E l \in Loop : Exit(l)
  BY <1>11 DEF Exit, Quietly, Step, Publish, pilot, watchdog, FarewellInv, TwoInv, Kinds, Alive
<1>12. CASE \E l \in Loop : BootFail(l)
  BY <1>12 DEF BootFail, Quietly, Step, pilot, watchdog, FarewellInv, TwoInv, Kinds, Alive
<1>13. CASE \E l \in Loop : Hang(l)
  BY <1>13 DEF Hang, Quietly, Step, pilot, watchdog, FarewellInv, TwoInv, Kinds, Alive
<1>14. CASE \E l \in Loop : WaitOn(l)
  BY <1>14 DEF WaitOn, Quietly, Publish, pilot, watchdog, FarewellInv, TwoInv, Kinds, Alive
<1>15. CASE Start
  BY <1>15 DEF Start, pilot, watchdog, FarewellInv, TwoInv, Kinds, Alive
<1>16. CASE Stop
  BY <1>16 DEF Stop, StopBeat, pilot, watchdog, FarewellInv, TwoInv, Kinds, Alive
<1>17. CASE Die
  BY <1>17 DEF Die, pilot, watchdog, FarewellInv, TwoInv, Kinds, Alive
<1>18. CASE CheckWell
  BY <1>18 DEF CheckWell, Remember, Failing, Health, pilot, watchdog, FarewellInv, TwoInv, Kinds, Alive
<1>19. CASE PageMuted
  BY <1>19 DEF PageMuted, Pages, Remember, Muted, Failing, Health, pilot, watchdog, FarewellInv, TwoInv, Kinds, Alive
<1>20. CASE PageSent
  BY <1>20 DEF PageSent, Pages, Remember, Muted, Failing, Health, pilot, watchdog, FarewellInv, TwoInv, Kinds, Alive
<1>21. CASE PageFails
  BY <1>21 DEF PageFails, Pages, Remember, Muted, Failing, Health, pilot, watchdog, FarewellInv, TwoInv, Kinds, Alive
<1>22. CASE GraceEnds
  BY <1>22 DEF GraceEnds, pilot, watchdog, FarewellInv, TwoInv, Kinds, Alive
<1>23. CASE Restart
  BY <1>23 DEF Restart, pilot, watchdog, FarewellInv, TwoInv, Kinds, Alive
<1>24. CASE Tick
  BY <1>24 DEF Tick, pilot, watchdog, FarewellInv, TwoInv, Kinds, Alive
<1>25. CASE CalmDown
  BY <1>25 DEF CalmDown, pilot, watchdog, FarewellInv, TwoInv, Kinds, Alive
<1> QED
  BY <1>1, <1>2, <1>3, <1>4, <1>5, <1>6, <1>7, <1>8, <1>9, <1>10, <1>11, <1>12, <1>13,
     <1>14, <1>15, <1>16, <1>17, <1>18, <1>19, <1>20, <1>21, <1>22, <1>23, <1>24, <1>25
     DEF Next, LoopSteps, Check

-----------------------------------------------------------------------------
(* The count of threads *)

LEMMA LivingFinite ==
  /\ IsFiniteSet(Living) /\ Cardinality(Living) \in Nat
  /\ IsFiniteSet(Loop) /\ Cardinality(Loop) \in Nat
<1>1. IsFiniteSet(Loop) /\ Living \subseteq Loop
  BY SupervisionAssumption DEF SupervisionAssumption, Living
<1> QED BY <1>1, FS_Subset, FS_CardinalityType

LEMMA FewerLive ==
  ASSUME Counted, Living' \subseteq Living, starting' = starting
  PROVE  Counted'
<1>1. Cardinality(Living') \in Nat /\ Cardinality(Living') <= Cardinality(Living)
  BY LivingFinite, FS_Subset, FS_CardinalityType
<1> QED BY <1>1, LivingFinite DEF Counted

LEMMA InitThreads == Init => Counted
<1> SUFFICES ASSUME Init PROVE Counted
  OBVIOUS
<1>1. Living = {}
  BY DEF Init, Living, Alive
<1>2. Cardinality(Living) = 0
  BY <1>1, FS_EmptySet
<1> QED BY <1>2, LivingFinite DEF Init, Counted

LEMMA ThreadsStep ==
  ASSUME Kinds, Counted, [Next]_vars
  PROVE  Counted'
<1>1. CASE UNCHANGED vars
  BY <1>1, FewerLive DEF vars, pilot, Living, Alive
<1>2. CASE \E l \in Loop : Spawn(l)
  <2>1. PICK l \in Loop : Spawn(l)
    BY <1>2
  <2>2. l \notin Living /\ Living' = Living \cup {l}
    BY <2>1 DEF Spawn, Kinds, Living, Alive, LoopStep
  <2>3. Cardinality(Living') = Cardinality(Living) + 1
    BY <2>2, LivingFinite, FS_AddElement
  <2>4. starting > 0 /\ starting' = starting - 1
    BY <2>1 DEF Spawn
  <2> QED BY <2>3, <2>4, LivingFinite DEF Counted
<1>3. CASE \E l \in Loop : Boot(l)
  <2>1. Living' \subseteq Living /\ starting' = starting
    BY <1>3 DEF Boot, Quietly, Step, Publish, Kinds, Living, Alive
  <2> QED BY <2>1, FewerLive
<1>4. CASE \E l \in Loop : Scan(l)
  <2>1. Living' \subseteq Living /\ starting' = starting
    BY <1>4 DEF Scan, Quietly, Step, Publish, GoOn, Kinds, Living, Alive
  <2> QED BY <2>1, FewerLive
<1>5. CASE \E l \in Loop : Leave(l)
  <2>1. Living' \subseteq Living /\ starting' = starting
    BY <1>5 DEF Leave, Quietly, Step, GoOn, Kinds, Living, Alive
  <2> QED BY <2>1, FewerLive
<1>6. CASE \E l \in Loop : Swept(l)
  <2>1. Living' \subseteq Living /\ starting' = starting
    BY <1>6 DEF Swept, Quietly, Step, Kinds, Living, Alive
  <2> QED BY <2>1, FewerLive
<1>7. CASE \E l \in Loop : Raise(l)
  <2>1. Living' \subseteq Living /\ starting' = starting
    BY <1>7 DEF Raise, Quietly, Step, Publish, Kinds, Living, Alive
  <2> QED BY <2>1, FewerLive
<1>8. CASE \E l \in Loop : Rest(l)
  <2>1. Living' \subseteq Living /\ starting' = starting
    BY <1>8 DEF Rest, Quietly, Step, Kinds, Living, Alive
  <2> QED BY <2>1, FewerLive
<1>9. CASE \E l \in Loop : Idle(l)
  <2>1. Living' \subseteq Living /\ starting' = starting
    BY <1>9 DEF Idle, Quietly, Step, Publish, Kinds, Living, Alive
  <2> QED BY <2>1, FewerLive
<1>10. CASE \E l \in Loop : Wake(l)
  <2>1. Living' \subseteq Living /\ starting' = starting
    BY <1>10 DEF Wake, Quietly, Step, Kinds, Living, Alive
  <2> QED BY <2>1, FewerLive
<1>11. CASE \E l \in Loop : Exit(l)
  <2>1. Living' \subseteq Living /\ starting' = starting
    BY <1>11 DEF Exit, Quietly, Step, Publish, Kinds, Living, Alive
  <2> QED BY <2>1, FewerLive
<1>12. CASE \E l \in Loop : BootFail(l)
  <2>1. Living' \subseteq Living /\ starting' = starting
    BY <1>12 DEF BootFail, Quietly, Step, Kinds, Living, Alive
  <2> QED BY <2>1, FewerLive
<1>13. CASE \E l \in Loop : Hang(l)
  <2>1. Living' \subseteq Living /\ starting' = starting
    BY <1>13 DEF Hang, Quietly, Step, Kinds, Living, Alive
  <2> QED BY <2>1, FewerLive
<1>14. CASE \E l \in Loop : WaitOn(l)
  <2>1. Living' \subseteq Living /\ starting' = starting
    BY <1>14 DEF WaitOn, Quietly, Publish, Kinds, Living, Alive
  <2> QED BY <2>1, FewerLive
<1>15. CASE Start
  <2>1. Living' = Living /\ starting' = starting + 1
    BY <1>15 DEF Start, Living, Alive
  <2>2. starting + Cardinality(Living) < Cardinality(Loop)
    BY <1>15 DEF Start, Living
  <2> QED BY <2>1, <2>2, LivingFinite DEF Counted
<1>16. CASE Stop
  BY <1>16, FewerLive DEF Stop, pilot, Living, Alive
<1>17. CASE Die
  <2>1. Living' = {} /\ starting' = 0
    BY <1>17 DEF Die, Living, Alive
  <2>2. Cardinality(Living') = 0
    BY <2>1, FS_EmptySet
  <2> QED BY <2>1, <2>2, LivingFinite DEF Counted
<1>18. CASE CheckWell
  BY <1>18, FewerLive DEF CheckWell, Remember, pilot, Living, Alive
<1>19. CASE PageMuted
  BY <1>19, FewerLive DEF PageMuted, Remember, pilot, Living, Alive
<1>20. CASE PageSent
  BY <1>20, FewerLive DEF PageSent, Remember, pilot, Living, Alive
<1>21. CASE PageFails
  BY <1>21, FewerLive DEF PageFails, Remember, pilot, Living, Alive
<1>22. CASE GraceEnds
  BY <1>22, FewerLive DEF GraceEnds, pilot, Living, Alive
<1>23. CASE Restart
  BY <1>23, FewerLive DEF Restart, pilot, Living, Alive
<1>24. CASE Tick
  BY <1>24, FewerLive DEF Tick, pilot, Living, Alive
<1>25. CASE CalmDown
  BY <1>25, FewerLive DEF CalmDown, pilot, Living, Alive
<1> QED
  BY <1>1, <1>2, <1>3, <1>4, <1>5, <1>6, <1>7, <1>8, <1>9, <1>10, <1>11, <1>12, <1>13,
     <1>14, <1>15, <1>16, <1>17, <1>18, <1>19, <1>20, <1>21, <1>22, <1>23, <1>24, <1>25
     DEF Next, LoopSteps, Check

-----------------------------------------------------------------------------
Inv == Kinds /\ Counted /\ MuteInv /\ TwoInv /\ FarewellInv

LEMMA Invariance == Spec => []Inv
<1>1. Init => Inv
  BY InitKinds, InitThreads, InitMute, InitTwo DEF Inv
<1>2. Inv /\ [Next]_vars => Inv'
  BY KindsStep, ThreadsStep, MuteStep, TwoStep, FarewellStep DEF Inv
<1> QED BY <1>1, <1>2, PTL DEF Spec

\* The autopilot's flag, threads and heartbeat and the watchdog's memory keep
\* their types, and there are never more threads than started.
THEOREM TypeCorrect == Spec => []TypeOK
<1>1. Kinds /\ Counted => TypeOK
  <2> SUFFICES ASSUME Kinds, Counted PROVE TypeOK
    OBVIOUS
  <2>1. starting \in 0 .. Cardinality(Loop)
    BY LivingFinite DEF Counted
  <2>2. {grace, told, lost, overlap, calm} \subseteq BOOLEAN
    BY Zenon DEF Kinds
  <2> QED BY <2>1, <2>2 DEF Kinds, Counted, Living, TypeOK
<1> QED BY <1>1, Invariance, PTL DEF Inv

\* runner.py, cmd_watchdog, with notify.py and autopilot_state.py - while the
\* timeout is at least the shortest mute, no mute hides a new silence, and no
\* farewell of an old loop hides a running one unless two loops overlapped.
THEOREM SilenceIsNotMasked ==
  ASSUME MinTtl <= Timeout
  PROVE  Spec => []SilenceNotMasked
<1>1. Inv => SilenceNotMasked
  <2> SUFFICES ASSUME Inv PROVE SilenceNotMasked
    OBVIOUS
  <2>1. ASSUME Health = "stale", prev # "failing" PROVE ~Muted
    <3>1. beat.age > Timeout /\ beat.status \notin {"absent", "stopped", "failed"}
      BY <2>1 DEF Health
    <3>2. since < Ttl => beat.age <= since
      BY <2>1, <3>1 DEF Inv, MuteInv
    <3>3. Ttl <= Timeout
      BY SupervisionAssumption DEF SupervisionAssumption, Ttl
    <3>4. beat.age \in Nat /\ since \in Nat /\ Timeout \in Nat
      BY SupervisionAssumption, TtlIsNat DEF SupervisionAssumption, Inv, Kinds
    <3> QED BY <3>1, <3>2, <3>3, <3>4, TtlIsNat DEF Muted
  <2>2. ASSUME beat.status = "stopped", \E l \in Loop : loop[l] \notin {"none", "new", "exit"}
        PROVE  overlap
    BY <2>2 DEF Inv, FarewellInv
  <2> QED BY <2>1, <2>2 DEF SilenceNotMasked
<1> QED BY <1>1, Invariance, PTL

=============================================================================
