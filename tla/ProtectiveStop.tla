--------------------------- MODULE ProtectiveStop ---------------------------
(***************************************************************************)
(* The venue-side stop of one held position (auto/protective_stops.py) and  *)
(* the exit ladder that shares the position with it (manage_open_positions, *)
(* trigger_forced_exit and reconcile_queue_with_broker of                   *)
(* auto/position_manager.py).                                               *)
(*                                                                         *)
(* The venue sells the whole position when its stop fires; the bot sells    *)
(* for every other reason and takes the stop down first.  A call of the     *)
(* venue may be refused, may fail, or may succeed with its answer lost, and *)
(* the process may die between any two steps: what survives is the queue    *)
(* row, rewritten whole from the copy that the pass read.                   *)
(***************************************************************************)
EXTENDS Integers, FiniteSets

CONSTANTS
  Worker,      \* processes that evaluate exits (bot auto, bot monitor)
  Stop,        \* conditional order ids; one nobody can name any more is reused
  MaxLevel,    \* stop levels are 1 .. MaxLevel, the hard stop being the lowest
  Shares,      \* the shares bought
  Refused,     \* the requests (level, quantity) the venue refuses for good
  NoStop       \* the null stop id

Level   == 1 .. MaxLevel
Request == Level \X (1 .. Shares)

ASSUME StopAssumption ==
  /\ MaxLevel \in Nat \ {0}
  /\ Shares \in Nat \ {0}
  /\ IsFiniteSet(Stop)
  /\ NoStop \notin Stop
  /\ Refused \subseteq Request

VARIABLES
  row,      \* the buy's queue row: the armed or intended stop, and the trail
  exit,     \* the bot's own sells of the position
  stop,     \* the venue's conditional orders
  window,   \* the venue's memory of client order ids: request -> stop
  shares,   \* the shares of the position the account still holds
  low,      \* the price has reached the effective stop
  pc,       \* the step each worker's pass has reached
  job,      \* the locals of each worker's pass
  hole,     \* ghost: a pending create outlived the idempotency window
  calm      \* no call fails and no process dies any more

vars == <<row, exit, stop, window, shares, low, pc, job, hole, calm>>
worker == <<pc, job>>
world  == <<shares, low, hole, calm>>
venue  == <<stop, window, world>>

RowRecord ==
  [id : Stop \union {NoStop},        \* protective_stop_id
   level : 0 .. MaxLevel,            \* protective_stop_price, 0 for none
   qty : 0 .. Shares,                \* protective_stop_quantity
   trail : Level]                    \* the effective stop

ExitRecord ==
  [working : 0 .. Shares,            \* a sell in flight
   sold : Nat,                       \* filled by the bot's sells
   closed : BOOLEAN]                 \* marked externally closed

StopRecord ==
  [state : {"none", "watching", "ordered", "completed", "cancelled"},
   qty : 0 .. Shares]

Stage == {"idle", "create", "store", "check", "decide", "sync", "rearm",
          "intent", "release", "forget", "sell", "close"}

JobRecord ==
  [row : RowRecord,                  \* the copy of the row
   held : 0 .. Shares,               \* the shares the queue says are held
   sell : 0 .. Shares,               \* the shares it decided to sell
   then : Stage,                     \* where to go when the create has an id
   new : Stop \union {NoStop}]       \* the id a create returned

TypeOK ==
  /\ row \in RowRecord
  /\ exit \in ExitRecord
  /\ stop \in [Stop -> StopRecord]
  /\ window \in [Request -> Stop \union {NoStop}]
  /\ shares \in 0 .. Shares
  /\ low \in BOOLEAN
  /\ pc \in [Worker -> Stage]
  /\ job \in [Worker -> JobRecord]
  /\ hole \in BOOLEAN
  /\ calm \in BOOLEAN

Bare  == [id |-> NoStop, level |-> 0, qty |-> 0, trail |-> 1]
NoJob == [row |-> Bare, held |-> 0, sell |-> 0, then |-> "idle", new |-> NoStop]

Init ==
  /\ row = Bare
  /\ exit = [working |-> 0, sold |-> 0, closed |-> FALSE]
  /\ stop = [s \in Stop |-> [state |-> "none", qty |-> 0]]
  /\ window = [k \in Request |-> NoStop]
  /\ shares = Shares
  /\ low = FALSE
  /\ pc = [w \in Worker |-> "idle"]
  /\ job = [w \in Worker |-> NoJob]
  /\ hole = FALSE
  /\ calm = FALSE

-----------------------------------------------------------------------------
(* What the queue and the venue say *)

Remaining == IF exit.closed \/ exit.sold >= Shares THEN 0 ELSE Shares - exit.sold

ScaledOut == exit.sold > 0

MutPending(r) == FALSE

\* A create was intended, and possibly sent, but its id was never stored.
Pending(r) == r.id = NoStop /\ r.level > 0 /\ r.qty > 0

Key(r) == <<r.level, r.qty>>

Forgotten(r) == [r EXCEPT !.id = NoStop, !.level = 0, !.qty = 0]

Working(s) == stop[s].state \in {"watching", "ordered"}

MutEngaged(s) == Working(s)

\* stop_engaged: it has fired, and its own exit exists or is being created.
Engaged(s) == stop[s].state = "ordered"

MutDead(s) == stop[s].state \in {"none", "completed"}

Dead(s) == stop[s].state \in {"none", "completed", "cancelled"}

Goto(w, stage) ==
  IF stage = "idle"
  THEN pc' = [pc EXCEPT ![w] = "idle"] /\ job' = [job EXCEPT ![w] = NoJob]
  ELSE pc' = [pc EXCEPT ![w] = stage] /\ UNCHANGED job

\* update: the whole row is written from the copy, and the pass goes on with it.
Persist(w, r, stage) ==
  /\ row' = r
  /\ pc' = [pc EXCEPT ![w] = stage]
  /\ job' = [job EXCEPT ![w].row = r]

\* _forget: a failed write is only logged, and the pass goes on without the stop.
ForgetStop(w, stage) ==
  LET r == Forgotten(job[w].row) IN
  /\ \E written \in {TRUE, calm} : row' = IF written THEN r ELSE row
  /\ pc' = [pc EXCEPT ![w] = stage]
  /\ job' = [job EXCEPT ![w].row = r]

Begin(w, stage, sell) ==
  /\ pc[w] = "idle"
  /\ Remaining > 0 /\ exit.working = 0
  /\ pc' = [pc EXCEPT ![w] = stage]
  /\ job' = [job EXCEPT ![w] = [NoJob EXCEPT !.row = row, !.held = Remaining,
                                              !.sell = sell, !.then = "check"]]
  /\ UNCHANGED <<row, exit, venue>>

-----------------------------------------------------------------------------
(* The three ways into a pass: the ladder, a forced exit on news, and the   *)
(* reconciliation with the holdings the broker reports.                    *)

Manage(w) == Begin(w, IF Pending(row) THEN "create" ELSE "check", 0)

\* trigger_forced_exit asks neither for the stop's status nor for the holdings.
ForceExit(w) == Begin(w, "release", Remaining)

Reconcile(w) == shares = 0 /\ Begin(w, "release", 0)

-----------------------------------------------------------------------------
(* resolve_pending_stop, and the create of sync_protective_stop             *)

Named(s) ==
  \/ row.id = s
  \/ \E k \in Request : window[k] = s
  \/ \E w \in Worker : s \in {job[w].new, job[w].row.id}

Free == {s \in Stop : ~Working(s) /\ ~Named(s)}

\* The venue acts once per client order id, while it remembers it.
Arm(k) ==
  IF window[k] # NoStop THEN UNCHANGED <<stop, window>>
  ELSE LET s == CHOOSE s \in Free : TRUE IN
       /\ Free # {}
       /\ stop' = [stop EXCEPT ![s] = [state |-> "watching", qty |-> k[2]]]
       /\ window' = [window EXCEPT ![k] = s]

AfterRelease(w) == IF job[w].sell > 0 THEN "sell" ELSE "close"

MutAbandon(w) == AfterRelease(w)

\* A release that failed: a sell is abandoned, but a close is written regardless.
Abandon(w) == IF job[w].sell > 0 THEN "idle" ELSE "close"

\* The ladder goes on after a failed create; sync leaves it to the next pass.
AfterFailure(w) ==
  CASE job[w].then = "check"   -> "check"
    [] job[w].then = "release" -> Abandon(w)
    [] OTHER                   -> "idle"

CreateOk(w) ==
  LET k == Key(job[w].row) IN
  /\ pc[w] = "create"
  /\ k \notin Refused
  /\ Arm(k)
  /\ pc' = [pc EXCEPT ![w] = "store"]
  /\ job' = [job EXCEPT ![w].new = window'[k]]
  /\ UNCHANGED <<row, exit, world>>

CreateLost(w) ==
  LET k == Key(job[w].row) IN
  /\ ~calm
  /\ pc[w] = "create"
  /\ k \notin Refused
  /\ Arm(k)
  /\ Goto(w, AfterFailure(w))
  /\ UNCHANGED <<row, exit, world>>

CreateFail(w) ==
  /\ pc[w] = "create"
  /\ ~calm \/ Key(job[w].row) \in Refused
  /\ Goto(w, AfterFailure(w))
  /\ UNCHANGED <<row, exit, venue>>

Store(w) ==
  /\ pc[w] = "store"
  /\ row' = [job[w].row EXCEPT !.id = job[w].new]
  /\ pc' = [pc EXCEPT ![w] = job[w].then]
  /\ job' = [job EXCEPT ![w] =
       IF job[w].then = "idle" THEN NoJob
       ELSE [@ EXCEPT !.row = [job[w].row EXCEPT !.id = job[w].new], !.new = NoStop]]
  /\ UNCHANGED <<exit, venue>>

-----------------------------------------------------------------------------
(* manage_open_positions: stop_engaged, then _evaluate_exit                 *)

CheckOk(w) ==
  LET s == job[w].row.id IN
  /\ pc[w] = "check"
  /\ Goto(w, IF s # NoStop /\ Engaged(s) THEN "idle" ELSE "decide")
  /\ UNCHANGED <<row, exit, venue>>

\* It fails closed: an unknown status suspends the ladder.
CheckFail(w) ==
  /\ ~calm
  /\ pc[w] = "check"
  /\ job[w].row.id # NoStop
  /\ Goto(w, "idle")
  /\ UNCHANGED <<row, exit, venue>>

\* No exit is due: the runner's trail may rise, and the stop is synced.
Hold(w) ==
  /\ pc[w] = "decide"
  /\ ~low
  /\ \E t \in Level :
       /\ t = job[w].row.trail \/ (ScaledOut /\ t > job[w].row.trail)
       /\ IF t = job[w].row.trail THEN Goto(w, "sync") /\ UNCHANGED row
          ELSE Persist(w, [job[w].row EXCEPT !.trail = t], "sync")
  /\ UNCHANGED <<exit, venue>>

\* An exit is due: everything at a stop, the larger half at the first target.
\* No holdings at the broker means an external close; fewer clamp the sell.
Leave(w, q) ==
  /\ pc[w] = "decide"
  /\ \/ q = job[w].held
     \/ ~low /\ ~ScaledOut /\ job[w].held > 1 /\ q = (job[w].held + 1) \div 2
  /\ \E answered \in {TRUE, calm} :
       job' = [job EXCEPT ![w].sell = IF answered /\ shares < q THEN shares ELSE q]
  /\ pc' = [pc EXCEPT ![w] = "release"]
  /\ UNCHANGED <<row, exit, venue>>

-----------------------------------------------------------------------------
(* release_protective_stop: resolve, cancel, forget. *)

\* resolve_pending_stop inside release and sync.
Resolve(w) ==
  /\ pc[w] \in {"release", "sync"}
  /\ Pending(job[w].row)
  /\ pc' = [pc EXCEPT ![w] = "create"]
  /\ job' = [job EXCEPT ![w].then = pc[w]]
  /\ UNCHANGED <<row, exit, venue>>

ReleaseNothing(w) ==
  /\ pc[w] = "release"
  /\ job[w].row.id = NoStop /\ ~Pending(job[w].row)
  /\ Goto(w, AfterRelease(w))
  /\ UNCHANGED <<row, exit, venue>>

\* A stop that is already gone counts as cancelled; a fired one cannot be.
Cancel(s) ==
  /\ ~Engaged(s)
  /\ stop' = IF stop[s].state = "watching" THEN [stop EXCEPT ![s].state = "cancelled"] ELSE stop
  /\ UNCHANGED <<window, world>>

ReleaseOk(w) ==
  /\ pc[w] = "release"
  /\ job[w].row.id # NoStop
  /\ Cancel(job[w].row.id)
  /\ Goto(w, "forget")
  /\ UNCHANGED <<row, exit>>

ReleaseFail(w) ==
  /\ pc[w] = "release"
  /\ job[w].row.id # NoStop
  /\ ~calm \/ Engaged(job[w].row.id)
  /\ Goto(w, Abandon(w))
  /\ UNCHANGED <<row, exit>>
  /\ UNCHANGED venue \/ Cancel(job[w].row.id)      \* not sent, or answer lost

Forget(w) ==
  /\ pc[w] = "forget"
  /\ ForgetStop(w, AfterRelease(w))
  /\ UNCHANGED <<exit, venue>>

\* _submit_exit: enqueue refuses beside a working sell, and approve may fail.
Sell(w) ==
  /\ pc[w] = "sell"
  /\ exit.working = 0
  /\ exit' = [exit EXCEPT !.working = job[w].sell]
  /\ Goto(w, "idle")
  /\ UNCHANGED <<row, venue>>

SellFail(w) ==
  /\ ~calm
  /\ pc[w] = "sell"
  /\ Goto(w, "idle")
  /\ UNCHANGED <<row, exit, venue>>

\* mark_externally_closed
Close(w) ==
  /\ pc[w] = "close"
  /\ exit' = IF Remaining > 0 THEN [exit EXCEPT !.closed = TRUE] ELSE exit
  /\ Goto(w, "idle")
  /\ UNCHANGED <<row, venue>>

-----------------------------------------------------------------------------
(* sync_protective_stop *)

\* Local memory is compared with the venue before anything is decided.
SyncStatus(w) ==
  LET r == job[w].row IN
  /\ pc[w] = "sync"
  /\ ~Pending(r)
  /\ IF r.id # NoStop /\ Dead(r.id)
     THEN ForgetStop(w, "rearm")
     ELSE Goto(w, "rearm") /\ UNCHANGED row
  /\ UNCHANGED <<exit, venue>>

SyncStatusFail(w) ==
  /\ ~calm
  /\ pc[w] = "sync"
  /\ job[w].row.id # NoStop
  /\ Goto(w, "idle")
  /\ UNCHANGED <<row, exit, venue>>

Matches(r, held) == r.id # NoStop /\ r.qty = held /\ r.level = r.trail

Rearm(w) ==
  LET r == job[w].row IN
  /\ pc[w] = "rearm"
  /\ \/ /\ Matches(r, job[w].held)
        /\ Goto(w, "idle")
        /\ UNCHANGED <<stop, window, world>>
     \/ /\ ~Matches(r, job[w].held) /\ r.id # NoStop
        /\ Cancel(r.id)
        /\ Goto(w, "intent")
     \/ /\ r.id = NoStop
        /\ Goto(w, "intent")
        /\ UNCHANGED <<stop, window, world>>
  /\ UNCHANGED <<row, exit>>

\* The old stop stays armed, or its cancellation is not known.
RearmFail(w) ==
  LET r == job[w].row IN
  /\ pc[w] = "rearm"
  /\ r.id # NoStop /\ ~Matches(r, job[w].held)
  /\ ~calm \/ Engaged(r.id)
  /\ Goto(w, "idle")
  /\ UNCHANGED <<row, exit>>
  /\ UNCHANGED venue \/ Cancel(r.id)

\* The write-ahead intent: what the create will ask for, with no id yet.
Intend(r, held) == [r EXCEPT !.id = NoStop, !.level = r.trail, !.qty = held]

Intent(w) ==
  LET r == Intend(job[w].row, job[w].held) IN
  /\ pc[w] = "intent"
  /\ row' = r
  /\ pc' = [pc EXCEPT ![w] = "create"]
  /\ job' = [job EXCEPT ![w].row = r, ![w].then = "idle"]
  /\ UNCHANGED <<exit, venue>>

-----------------------------------------------------------------------------
(* A process dies; nothing is left of its pass. *)

Crash(w) ==
  /\ ~calm
  /\ pc[w] # "idle"
  /\ Goto(w, "idle")
  /\ UNCHANGED <<row, exit, venue>>

-----------------------------------------------------------------------------
(* The venue and the market.  Shares that leave the account by the stop, by *)
(* the bot's sell or by the operator's hand are counted once in shares.     *)

Less(n, m) == IF n > m THEN n - m ELSE 0

Fire(s) ==
  /\ stop[s].state = "watching"
  /\ stop' = [stop EXCEPT ![s].state = "ordered"]
  /\ UNCHANGED <<row, exit, window, world, worker>>

Complete(s) ==
  /\ stop[s].state = "ordered"
  /\ stop' = [stop EXCEPT ![s].state = "completed"]
  /\ shares' = Less(shares, stop[s].qty)
  /\ UNCHANGED <<row, exit, window, low, hole, calm, worker>>

\* It expires, or the operator cancels it by hand.
Expire(s) ==
  /\ ~calm
  /\ stop[s].state = "watching"
  /\ stop' = [stop EXCEPT ![s].state = "cancelled"]
  /\ UNCHANGED <<row, exit, window, world, worker>>

\* The venue forgets a client order id after ten minutes.  If that id's create
\* is still unresolved, a replay will arm a second stop: modelled once.
WindowExpires(k) ==
  LET open == /\ window[k] # NoStop /\ Working(window[k])
              /\ \/ Pending(row) /\ Key(row) = k
                 \/ \E w \in Worker : pc[w] \in {"create", "store"} /\ Key(job[w].row) = k
  IN  /\ window[k] # NoStop
      /\ open => ~hole
      /\ window' = [window EXCEPT ![k] = NoStop]
      /\ hole' = (hole \/ open)
      /\ UNCHANGED <<row, exit, stop, shares, low, calm, worker>>

SellFills ==
  /\ exit.working > 0
  /\ exit' = [exit EXCEPT !.working = 0, !.sold = @ + exit.working]
  /\ shares' = Less(shares, exit.working)
  /\ UNCHANGED <<row, stop, window, low, hole, calm, worker>>

SellRejected ==
  /\ exit.working > 0
  /\ ~calm \/ shares < exit.working
  /\ exit' = [exit EXCEPT !.working = 0]
  /\ UNCHANGED <<row, venue, worker>>

OperatorSells ==
  /\ shares > 0
  /\ shares' = 0
  /\ UNCHANGED <<row, exit, stop, window, low, hole, calm, worker>>

PriceFalls ==
  /\ ~low
  /\ low' = TRUE
  /\ UNCHANGED <<row, exit, stop, window, shares, hole, calm, worker>>

\* The last failure is behind.
CalmDown ==
  /\ ~calm
  /\ calm' = TRUE
  /\ UNCHANGED <<row, exit, stop, window, shares, low, hole, worker>>

-----------------------------------------------------------------------------
Call(w) ==
  \/ Manage(w) \/ ForceExit(w) \/ Reconcile(w)
  \/ CreateOk(w) \/ CreateLost(w) \/ CreateFail(w) \/ Store(w)
  \/ CheckOk(w) \/ CheckFail(w)
  \/ Hold(w) \/ (\E q \in 1 .. Shares : Leave(w, q))
  \/ Resolve(w) \/ ReleaseNothing(w) \/ ReleaseOk(w) \/ ReleaseFail(w) \/ Forget(w)
  \/ Sell(w) \/ SellFail(w) \/ Close(w)
  \/ SyncStatus(w) \/ SyncStatusFail(w) \/ Rearm(w) \/ RearmFail(w) \/ Intent(w)
  \/ Crash(w)

Environment ==
  \/ \E s \in Stop : Fire(s) \/ Complete(s) \/ Expire(s)
  \/ \E k \in Request : WindowExpires(k)
  \/ SellFills \/ SellRejected \/ OperatorSells \/ PriceFalls \/ CalmDown

Next == (\E w \in Worker : Call(w)) \/ Environment

Spec == Init /\ [][Next]_vars

\* Failures stop at some point, and then every process goes on with its pass and
\* starts the ladder again and again: a forced exit cannot keep it out for ever.
\* The venue executes what has fired or was sold, and forgets the ids it was sent.
Fairness ==
  /\ WF_vars(CalmDown)
  /\ \A w \in Worker : WF_vars(Call(w)) /\ SF_vars(Manage(w))
  /\ \A s \in Stop : WF_vars(Complete(s))
  /\ \A k \in Request : WF_vars(WindowExpires(k))
  /\ WF_vars(SellFills \/ SellRejected)

FairSpec == Spec /\ Fairness

-----------------------------------------------------------------------------
(* Properties *)

\* Some process, or the queue row, can still find the stop and take it down.
Tracked(s) ==
  \/ row.id = s
  \/ Pending(row) /\ window[Key(row)] = s
  \/ \E w \in Worker : pc[w] = "store" /\ job[w].new = s /\ row = job[w].row

\* Every venue write is resumable: whatever answer is lost and wherever the
\* process dies, a working stop can be reached from the row, until the venue
\* forgets the client order id of a create that is still unresolved.
NoOrphanStop == \A s \in Stop : Working(s) /\ ~hole => Tracked(s)

\* "At most one seller" (the module's docstring): no stop works at the venue
\* beside the bot's own sell.  It holds while one process evaluates exits; with
\* bot monitor beside bot auto it does not (the run MonitorBesideAuto).
NoSellBesideStop == exit.working > 0 /\ ~hole => \A s \in Stop : ~Working(s)

\* A position that is really held is protected again and again, even when the
\* venue answers a re-arm with the dead stop it remembers.
KeepsArming == []<>(\/ Remaining = 0 \/ shares = 0 \/ low \/ exit.working > 0 \/ hole
                    \/ row.id # NoStop /\ Working(row.id))

\* Once the price is at the stop, the position is sold or found closed, through
\* any finite run of failed calls and crashes, if the venue does not refuse the
\* stop itself for good.
LowExits == low ~> (Remaining = 0)

=============================================================================
