------------------------------- MODULE Sweep -------------------------------
(***************************************************************************)
(* One sweep of the auto pilot (run_auto_iteration of auto/orchestrator.py)  *)
(* and what it leaves behind for the next: recovery, the fail-stop on        *)
(* unresolved orders, exits, the gates on new buys, and the buys, one        *)
(* watchlist row after the other.                                           *)
(*                                                                         *)
(* A sweep decides from values it read earlier in the same sweep: the list  *)
(* of unresolved orders, the count of open positions, the statuses of rows. *)
(* Meanwhile fills arrive, the operator pulls the kill switch or approves    *)
(* an order from the dashboard, and a process may die.                      *)
(*                                                                         *)
(* OrderQueue shows that one account never has two live orders of a ticker  *)
(* and side, so a ticker's buy and its sell are one status each here.       *)
(***************************************************************************)
EXTENDS Integers, Sequences, FiniteSets

CONSTANTS
  Ticker,
  Watchlist,      \* the rows of the watchlist, in file order
  Moving,         \* names whose price and news move while held (a bound)
  Worker,         \* processes that run sweeps
  MaxPositions    \* max_positions

ASSUME SweepAssumption ==
  /\ IsFiniteSet(Ticker) /\ Ticker # {}
  /\ Watchlist \in Seq(Ticker)
  /\ Moving \subseteq Ticker
  /\ MaxPositions \in Nat \ {0}

VARIABLES
  buy,      \* the buy of each ticker, "held" while shares remain
  sell,     \* the exit of each held ticker
  due,      \* the price has reached an exit level of the position
  news,     \* severe bad news about a held name
  shut,     \* a buy younger than the cooldown or a rejection of today bars the name
  kill,     \* the kill-switch file exists
  pc,       \* the step each sweep has reached
  job,      \* the locals of each sweep
  fresh,    \* ghost: orders whose outcome was lost after the last snapshot
  raised,   \* ghost: a buy approval raised in the last sweep that bought
  calm      \* no call fails, no process dies, no market-wide gate closes any more

vars  == <<buy, sell, due, news, shut, kill, pc, job, fresh, raised, calm>>
ghost == <<fresh, raised>>
gates == <<shut, kill, calm>>

BuyStatus  == {"none", "pending", "submitting", "unknown", "submitted", "held"}
SellStatus == {"none", "pending", "submitting", "unknown", "submitted"}
Stage == {"recover", "stale", "manage", "gate", "rows", "approve", "send"}

JobRecord ==
  [i : 1 .. Len(Watchlist) + 1,          \* the next row
   open : Nat,                           \* open_count
   blocked : BOOLEAN,                    \* unresolved orders were found
   todo : SUBSET Ticker,                 \* held positions still to evaluate
   side : {"buy", "sell"},               \* the order being approved
   t : Ticker,                           \* its ticker
   back : {"manage", "rows"}]            \* where the sweep goes on after it

TypeOK ==
  /\ buy \in [Ticker -> BuyStatus]
  /\ sell \in [Ticker -> SellStatus]
  /\ due \in [Ticker -> BOOLEAN]
  /\ news \in [Ticker -> BOOLEAN]
  /\ shut \in [Ticker -> BOOLEAN]
  /\ {kill, raised, calm} \subseteq BOOLEAN
  /\ pc \in [Worker -> Stage]
  /\ job \in [Worker -> JobRecord]
  /\ fresh \subseteq Ticker \X {"buy", "sell"}
  /\ \A t \in Ticker : sell[t] # "none" => buy[t] = "held"

NoJob == [i |-> 1, open |-> 0, blocked |-> FALSE, todo |-> {}, side |-> "buy",
          t |-> CHOOSE t \in Ticker : TRUE, back |-> "manage"]

Init ==
  /\ buy = [t \in Ticker |-> "none"]
  /\ sell = [t \in Ticker |-> "none"]
  /\ due = [t \in Ticker |-> FALSE]
  /\ news = [t \in Ticker |-> FALSE]
  /\ shut = [t \in Ticker |-> FALSE]
  /\ kill = FALSE
  /\ pc = [w \in Worker |-> "recover"]
  /\ job = [w \in Worker |-> NoJob]
  /\ fresh = {} /\ raised = FALSE /\ calm = FALSE

-----------------------------------------------------------------------------
Unresolved ==
  {t \in Ticker : buy[t] \in {"submitting", "unknown"}} \X {"buy"}
    \union {t \in Ticker : sell[t] \in {"submitting", "unknown"}} \X {"sell"}

\* count_open_positions: intents, working orders and what is not sold out yet.
Open == {t \in Ticker : buy[t] # "none"}

Goto(w, stage) == pc' = [pc EXCEPT ![w] = stage] /\ UNCHANGED job

\* The sweep ends, or its process dies: the next begins, with nothing in hand.
NextSweep(w) ==
  /\ pc' = [pc EXCEPT ![w] = "recover"]
  /\ job' = [job EXCEPT ![w] = NoJob]

\* A rejected buy leaves no position and bars the ticker; a rejected sell
\* leaves the position as it was.
Reject(t, side) ==
  IF side = "buy"
  THEN /\ buy' = [buy EXCEPT ![t] = "none"]
       /\ shut' = [shut EXCEPT ![t] = TRUE]
       /\ UNCHANGED sell
  ELSE sell' = [sell EXCEPT ![t] = "none"] /\ UNCHANGED <<buy, shut>>

Write(t, side, status) ==
  IF side = "buy"
  THEN buy' = [buy EXCEPT ![t] = status] /\ UNCHANGED sell
  ELSE sell' = [sell EXCEPT ![t] = status] /\ UNCHANGED buy

Of(t, side) == IF side = "buy" THEN buy[t] ELSE sell[t]

-----------------------------------------------------------------------------
(* Before the gates: recovery, the snapshot of what stayed unresolved, stale *)
(* buys, and the exits.                                                     *)

Recover(w, t, side) ==
  /\ pc[w] = "recover"
  /\ <<t, side>> \in Unresolved
  /\ \/ Write(t, side, "submitted") /\ UNCHANGED shut
     \/ Reject(t, side)
  /\ fresh' = fresh \ {<<t, side>>}
  /\ UNCHANGED <<due, news, kill, pc, job, raised, calm>>

MutBlockers == {t \in Ticker : buy[t] = "unknown"} \X {"buy"}

\* unresolved_orders: both sides, and both the unanswered and the unsure.
Blockers == Unresolved

\* What is too old to replay, or fails again, stays unresolved.
Snapshot(w) ==
  /\ pc[w] = "recover"
  /\ calm => Unresolved = {}
  /\ pc' = [pc EXCEPT ![w] = "stale"]
  /\ job' = [job EXCEPT ![w].blocked = Blockers # {}]
  /\ fresh' = {}
  /\ UNCHANGED <<buy, sell, due, news, gates, raised>>

CancelStale(w, t) ==
  /\ pc[w] = "stale"
  /\ buy[t] = "submitted"
  /\ buy' = [buy EXCEPT ![t] = "none"]
  /\ shut' = [shut EXCEPT ![t] = FALSE]
  /\ UNCHANGED <<sell, due, news, kill, pc, job, ghost, calm>>

MutAfterStale == IF kill THEN "gate" ELSE "manage"

\* Exits come before every gate.
AfterStale == "manage"

StaleDone(w) ==
  /\ pc[w] = "stale"
  /\ pc' = [pc EXCEPT ![w] = AfterStale]
  /\ job' = [job EXCEPT ![w].todo = {t \in Ticker : buy[t] = "held"}]
  /\ UNCHANGED <<buy, sell, due, news, gates, ghost>>

\* The exit of a held position, enqueued pending and then approved.
ExitEnqueue(w, t, back) ==
  /\ sell[t] = "none" /\ buy[t] = "held"
  /\ sell' = [sell EXCEPT ![t] = "pending"]
  /\ pc' = [pc EXCEPT ![w] = "approve"]
  /\ job' = [job EXCEPT ![w].todo = @ \ {t}, ![w].side = "sell", ![w].t = t,
                        ![w].back = back]
  /\ UNCHANGED <<buy, due, news, gates, ghost>>

ManageSell(w, t) ==
  /\ pc[w] = "manage" /\ t \in job[w].todo
  /\ due[t]
  /\ ExitEnqueue(w, t, "manage")

\* Nothing due, a sell in flight, or a step of the evaluation failed.
ManageSkip(w, t) ==
  /\ pc[w] = "manage" /\ t \in job[w].todo
  /\ calm => ~(due[t] /\ sell[t] = "none" /\ buy[t] = "held")
  /\ job' = [job EXCEPT ![w].todo = @ \ {t}]
  /\ UNCHANGED <<buy, sell, due, news, gates, pc, ghost>>

ManageDone(w) ==
  /\ pc[w] = "manage" /\ job[w].todo = {}
  /\ Goto(w, "gate")
  /\ UNCHANGED <<buy, sell, due, news, gates, ghost>>

-----------------------------------------------------------------------------
(* The gates, and the watchlist rows *)

MutGateOpen(w) == ~job[w].blocked /\ Cardinality(Open) < MaxPositions

GateOpen(w) == ~kill /\ ~job[w].blocked /\ Cardinality(Open) < MaxPositions

Gate(w) ==
  /\ pc[w] = "gate"
  /\ IF GateOpen(w)
     THEN /\ pc' = [pc EXCEPT ![w] = "rows"]
          /\ job' = [job EXCEPT ![w].open = Cardinality(Open)]
          /\ raised' = FALSE
     ELSE NextSweep(w) /\ UNCHANGED raised
  /\ UNCHANGED <<buy, sell, due, news, gates, fresh>>

More(w) == job[w].i <= Len(Watchlist) /\ job[w].open < MaxPositions

RowsDone(w) ==
  /\ pc[w] = "rows" /\ ~More(w)
  /\ NextSweep(w)
  /\ UNCHANGED <<buy, sell, due, news, gates, ghost>>

\* Severe news about a name that is held, no exit in flight, no bar on the row.
Condemned(t) == news[t] /\ buy[t] = "held" /\ sell[t] = "none" /\ ~shut[t]

\* The market is closed, the regime bearish, the day's loss limit reached, the
\* name protected, barred or untradable, there is no signal, no cash or no size,
\* or the evaluation raised.
RowSkip(w) ==
  /\ pc[w] = "rows" /\ More(w)
  /\ calm => ~Condemned(Watchlist[job[w].i])
  /\ job' = [job EXCEPT ![w].i = @ + 1]
  /\ UNCHANGED <<buy, sell, due, news, gates, pc, ghost>>

\* find_held_buy finds the name: severe news forces its exit, whatever the
\* signal; but the row must have come through every gate on new buys.
RowForcedExit(w) ==
  LET t == Watchlist[job[w].i] IN
  /\ pc[w] = "rows" /\ More(w)
  /\ Condemned(t)
  /\ sell' = [sell EXCEPT ![t] = "pending"]
  /\ pc' = [pc EXCEPT ![w] = "approve"]
  /\ job' = [job EXCEPT ![w].i = @ + 1, ![w].side = "sell", ![w].t = t,
                        ![w].back = "rows"]
  /\ UNCHANGED <<buy, due, news, gates, ghost>>

\* find_held_buy finds nothing, and the row is bought.
RowBuy(w) ==
  LET t == Watchlist[job[w].i] IN
  /\ pc[w] = "rows" /\ More(w)
  /\ ~shut[t]
  /\ buy[t] = "none"
  /\ buy' = [buy EXCEPT ![t] = "pending"]
  /\ shut' = [shut EXCEPT ![t] = TRUE]
  /\ pc' = [pc EXCEPT ![w] = "approve"]
  /\ job' = [job EXCEPT ![w].i = @ + 1, ![w].side = "buy", ![w].t = t,
                        ![w].back = "rows"]
  /\ UNCHANGED <<sell, due, news, kill, ghost, calm>>

-----------------------------------------------------------------------------
(* ApprovalQueue.approve, by the sweep *)

Return(w, opened) ==
  /\ pc' = [pc EXCEPT ![w] = job[w].back]
  /\ job' = [job EXCEPT ![w].open = @ + opened, ![w].side = NoJob.side,
                        ![w].t = NoJob.t, ![w].back = NoJob.back]

Submit(w) ==
  /\ pc[w] = "approve"
  /\ Of(job[w].t, job[w].side) = "pending"
  /\ Write(job[w].t, job[w].side, "submitting")
  /\ Goto(w, "send")
  /\ UNCHANGED <<due, news, gates, ghost>>

\* Somebody approved it from the dashboard: approve raises, nothing is counted.
SubmitRefused(w) ==
  /\ pc[w] = "approve"
  /\ Of(job[w].t, job[w].side) # "pending"
  /\ Return(w, 0)
  /\ raised' = (raised \/ job[w].side = "buy")
  /\ UNCHANGED <<buy, sell, due, news, gates, fresh>>

MutOpened(side) == 0

\* open_count grows with a submitted buy only.
Opened(side) == IF side = "buy" THEN 1 ELSE 0

SendOk(w) ==
  /\ pc[w] = "send"
  /\ Write(job[w].t, job[w].side, "submitted")
  /\ Return(w, Opened(job[w].side))
  /\ UNCHANGED <<due, news, gates, ghost>>

SendRejected(w) ==
  /\ pc[w] = "send"
  /\ calm => job[w].side = "buy"
  /\ Reject(job[w].t, job[w].side)
  /\ Return(w, 0)
  /\ UNCHANGED <<due, news, kill, ghost, calm>>

\* The outcome is lost: the row stays unknown and approve raises.
SendLost(w) ==
  /\ ~calm
  /\ pc[w] = "send"
  /\ Write(job[w].t, job[w].side, "unknown")
  /\ Return(w, 0)
  /\ fresh' = fresh \union {<<job[w].t, job[w].side>>}
  /\ raised' = (raised \/ job[w].side = "buy")
  /\ UNCHANGED <<due, news, gates>>

Crash(w) ==
  /\ ~calm
  /\ pc[w] # "recover"
  /\ NextSweep(w)
  /\ UNCHANGED <<buy, sell, due, news, gates, ghost>>

-----------------------------------------------------------------------------
(* The rest of the world *)

\* The broker's answer for a submitted order, by whoever syncs.
BuyFills(t) ==
  /\ buy[t] = "submitted"
  /\ buy' = [buy EXCEPT ![t] = "held"]
  /\ UNCHANGED <<sell, due, news, gates, pc, job, ghost>>

BuyDies(t) ==
  /\ buy[t] = "submitted"
  /\ buy' = [buy EXCEPT ![t] = "none"]
  /\ shut' = [shut EXCEPT ![t] = FALSE]
  /\ UNCHANGED <<sell, due, news, kill, pc, job, ghost, calm>>

SellFills(t) ==
  /\ sell[t] = "submitted"
  /\ buy' = [buy EXCEPT ![t] = "none"]
  /\ sell' = [sell EXCEPT ![t] = "none"]
  /\ due' = [due EXCEPT ![t] = FALSE]
  /\ news' = [news EXCEPT ![t] = FALSE]
  /\ UNCHANGED <<shut, kill, pc, job, ghost, calm>>

SellDies(t) ==
  /\ ~calm
  /\ sell[t] = "submitted"
  /\ sell' = [sell EXCEPT ![t] = "none"]
  /\ UNCHANGED <<buy, due, news, gates, pc, job, ghost>>

\* The dashboard approves a pending order nobody is approving.
OperatorApproves(t, side) ==
  /\ Of(t, side) = "pending"
  /\ \/ Write(t, side, "submitted") /\ UNCHANGED shut
     \/ (calm => side = "buy") /\ Reject(t, side)
  /\ UNCHANGED <<due, news, kill, pc, job, ghost, calm>>

PriceMoves(t) ==
  /\ t \in Moving /\ buy[t] = "held" /\ ~due[t]
  /\ due' = [due EXCEPT ![t] = TRUE]
  /\ UNCHANGED <<buy, sell, news, gates, pc, job, ghost>>

BadNews(t) ==
  /\ t \in Moving /\ buy[t] = "held" /\ ~news[t]
  /\ news' = [news EXCEPT ![t] = TRUE]
  /\ UNCHANGED <<buy, sell, due, gates, pc, job, ghost>>

TimePasses(t) ==
  /\ shut[t]
  /\ shut' = [shut EXCEPT ![t] = FALSE]
  /\ UNCHANGED <<buy, sell, due, news, kill, pc, job, ghost, calm>>

KillSwitch ==
  /\ kill' = ~kill
  /\ UNCHANGED <<buy, sell, due, news, shut, pc, job, ghost, calm>>

\* The last failure is behind, and the market is open and bullish.
CalmDown ==
  /\ ~calm
  /\ calm' = TRUE
  /\ UNCHANGED <<buy, sell, due, news, shut, kill, pc, job, ghost>>

-----------------------------------------------------------------------------
Before(w) ==
  \/ \E t \in Ticker, side \in {"buy", "sell"} : Recover(w, t, side)
  \/ Snapshot(w)
  \/ (\E t \in Ticker : CancelStale(w, t)) \/ StaleDone(w)
  \/ (\E t \in Ticker : ManageSell(w, t) \/ ManageSkip(w, t)) \/ ManageDone(w)

Rows(w) ==
  \/ Gate(w) \/ RowsDone(w) \/ RowSkip(w)
  \/ RowForcedExit(w) \/ RowBuy(w)

Approve(w) ==
  \/ Submit(w) \/ SubmitRefused(w)
  \/ SendOk(w) \/ SendRejected(w) \/ SendLost(w)

World ==
  \/ \E t \in Ticker :
       \/ BuyFills(t) \/ BuyDies(t) \/ SellFills(t) \/ SellDies(t)
       \/ OperatorApproves(t, "buy") \/ OperatorApproves(t, "sell")
       \/ PriceMoves(t) \/ BadNews(t) \/ TimePasses(t)
  \/ KillSwitch \/ CalmDown

Next ==
  \/ \E w \in Worker : Before(w) \/ Rows(w) \/ Approve(w) \/ Crash(w)
  \/ World

Spec == Init /\ [][Next]_vars

\* Failures stop at some point, and then the outer loop runs sweep after sweep,
\* a sell the venue took is executed, and a row that only an operator can move
\* is moved (an exit left pending by a crash between enqueue and approve).
Fairness ==
  /\ WF_vars(CalmDown)
  /\ \A w \in Worker : WF_vars(Before(w) \/ Rows(w) \/ Approve(w))
  /\ \A t \in Ticker : WF_vars(SellFills(t)) /\ WF_vars(OperatorApproves(t, "sell"))

FairSpec == Spec /\ Fairness

-----------------------------------------------------------------------------
(* Properties *)

\* max_positions holds across sweeps, crashes, recoveries and dashboard
\* approvals, unless the approval of a buy raised in the last sweep that bought.
CapUnlessRaised == raised \/ Cardinality(Open) <= MaxPositions

\* No buy is created beside an order that was already unresolved when the sweep
\* took its snapshot, whichever process left it so and however it died.
OldUnknownBlocks ==
  [][\A t \in Ticker : buy[t] = "none" /\ buy'[t] = "pending" => Unresolved \subseteq fresh]_vars

\* Once the kill switch stays on, some sweep is the last that sends a buy.
KillStopsBuys == <>[]kill => <>[](\A w \in Worker : pc[w] = "send" => job[w].side = "sell")

\* A position whose exit is due gets sold, whatever the kill switch, unresolved
\* orders, or a full book say about new buys.
ExitsDespiteGates == \A t \in Moving : due[t] ~> (buy[t] # "held")

=============================================================================
