----------------------------- MODULE OrderQueue -----------------------------
(***************************************************************************)
(* The approval queue (alpha_bot/approval/queue.py): a JSON file of order   *)
(* rows that several processes and threads -- the auto sweep, the live     *)
(* monitor, the web handlers, the CLI -- read and rewrite, together with   *)
(* the venue the orders are sent to.                                       *)
(*                                                                         *)
(* Every read-modify-write of the file runs inside _orders_transaction (a  *)
(* thread lock, an exclusive flock and an atomic os.replace), so it is one *)
(* action here.  Every broker call runs outside that lock, so a method     *)
(* that calls the broker is several actions, and anything may happen       *)
(* between them.                                                           *)
(***************************************************************************)
EXTENDS Integers, FiniteSets

CONSTANTS
  Row,          \* the order ids that may be drawn
  Key,          \* the (market, ticker) pairs
  Account,      \* the broker account instances
  Worker,       \* the threads and processes that call the queue
  MaxQty,       \* the largest order quantity
  BuyQty,       \* the quantities buys are enqueued with
  Unbound,      \* the account of a row enqueued without a broker
  NoRow         \* the value of an empty link, and of an idle worker's target

ASSUME QueueAssumption ==
  /\ MaxQty \in Nat \ {0}
  /\ BuyQty \subseteq 1 .. MaxQty
  /\ Key # {}
  /\ IsFiniteSet(Row)
  /\ Unbound \notin Account
  /\ NoRow \notin Row

VARIABLES
  row,     \* the queue file: one record per order id
  venue,   \* what the venue knows of each order id, and one mark no program reads
  pc,      \* the step each worker's call has reached
  job      \* the locals of each worker's call

vars == <<row, venue, pc, job>>

-----------------------------------------------------------------------------
(* Statuses *)

Unresolved == {"submitting", "unknown"}
Polled     == {"submitted", "partially_filled"}
Active     == {"pending"} \union Unresolved \union Polled
Held       == {"filled", "partially_filled", "partially_filled_cancelled"}
Dead       == {"rejected", "cancelled"}
Gone       == {"absent", "archived"}   \* not in the queue file
Status     == Active \union Held \union Dead \union Gone

Side == {"buy", "sell"}
Qty  == 1 .. MaxQty

RowRecord ==
  [status : Status, side : Side, key : Key, acct : Account \union {Unbound},
   qty : Qty, filled : 0 .. MaxQty,
   ref : BOOLEAN,                   \* broker_order_id is known
   ext : BOOLEAN,                   \* synthetic row of mark_externally_closed
   partial : SUBSET Row,            \* partial_exit_ids
   exit : Row \union {NoRow}]       \* exit_order_id

VenueRecord ==
  [state : {"none", "wire", "open", "filled", "cancelled", "rejected"},
   filled : 0 .. MaxQty,
   asked : BOOLEAN,                 \* a cancel request was accepted
   overruled : BOOLEAN]             \* a call wrote it off without asking the venue

Step == {"idle", "send", "wait", "replay", "cancel", "cancelWrite",
         "held", "linkPartial", "linkExit"}

JobRecord ==
  [id : Row \union {NoRow},           \* the row the call is about
   acct : Account \union {Unbound},   \* the account of the broker it was given
   snap : RowRecord,                  \* the copy of the row it read
   held : 0 .. MaxQty,                \* the shares it found still held
   sell : Row \union {NoRow}]         \* the exit it enqueued

Blank ==
  [status |-> "absent", side |-> "buy", key |-> CHOOSE k \in Key : TRUE,
   acct |-> Unbound, qty |-> 1, filled |-> 0, ref |-> FALSE, ext |-> FALSE,
   partial |-> {}, exit |-> NoRow]

NoJob == [id |-> NoRow, acct |-> Unbound, snap |-> Blank, held |-> 0, sell |-> NoRow]

TypeOK ==
  /\ row \in [Row -> RowRecord]
  /\ venue \in [Row -> VenueRecord]
  /\ pc \in [Worker -> Step]
  /\ job \in [Worker -> JobRecord]

Init ==
  /\ row = [r \in Row |-> Blank]
  /\ venue = [r \in Row |-> [state |-> "none", filled |-> 0, asked |-> FALSE,
                              overruled |-> FALSE]]
  /\ pc = [w \in Worker |-> "idle"]
  /\ job = [w \in Worker |-> NoJob]

-----------------------------------------------------------------------------
(* Reading the queue *)

InQueue(r) == row[r].status \notin Gone

Belongs(r, a) == row[r].acct = a

Links(b) == {s \in row[b].partial \union {row[b].exit} : s # NoRow /\ InQueue(s)}

\* What a linked sell takes off the position; a filled row that predates
\* filled_quantity counts for its whole request.
SoldBy(s) ==
  IF row[s].status = "filled" /\ row[s].filled = 0 THEN row[s].qty ELSE row[s].filled

\* The shares of a buy that its linked sells have sold, as the queue sees it.
SoldShares(b) ==
  {share \in Row \X Qty : share[1] \in Links(b) /\ share[2] <= SoldBy(share[1])}

Remaining(b) ==
  LET sold == Cardinality(SoldShares(b))
  IN  IF sold < row[b].filled THEN row[b].filled - sold ELSE 0

LinkedSellWorking(b) == \E s \in Links(b) : row[s].status \in Active

MutOverlaps(a1, a2) == a1 = a2

\* Unbound intents overlap every account, bound rows only their own.
Overlaps(a1, a2) == a1 = Unbound \/ a2 = Unbound \/ a1 = a2

MutBlocks(r, k, s, a) ==
  /\ row[r].key = k
  /\ row[r].side = s
  /\ Overlaps(row[r].acct, a)
  /\ row[r].status \in {"pending"} \union Polled \union Held

\* A row that makes enqueue refuse a new order for the key and side.
Blocks(r, k, s, a) ==
  /\ row[r].key = k
  /\ row[r].side = s
  /\ Overlaps(row[r].acct, a)
  /\ \/ row[r].status \in Active
     \/ /\ s = "buy"
        /\ row[r].status \in Held
        /\ Remaining(r) > 0 \/ LinkedSellWorking(r)

NewRow(k, s, a, q) ==
  [Blank EXCEPT !.status = "pending", !.side = s, !.key = k, !.acct = a, !.qty = q]

CanEnqueue(r, k, s, a) ==
  /\ row[r].status = "absent"
  /\ \A r2 \in Row : ~Blocks(r2, k, s, a)

Idle(w) == pc' = [pc EXCEPT ![w] = "idle"] /\ job' = [job EXCEPT ![w] = NoJob]

\* A call about row r for account a starts, with the snapshot it has read.
Start(w, step, r, a, snap, held) ==
  /\ pc' = [pc EXCEPT ![w] = step]
  /\ job' = [job EXCEPT ![w] =
       [id |-> r, acct |-> a, snap |-> snap, held |-> held, sell |-> NoRow]]

-----------------------------------------------------------------------------
(* enqueue, called with a broker (a in Account) or without one (Unbound)   *)

Enqueue(r, k, s, a, q) ==
  /\ CanEnqueue(r, k, s, a)
  /\ row' = [row EXCEPT ![r] = NewRow(k, s, a, q)]
  /\ UNCHANGED <<venue, pc, job>>

-----------------------------------------------------------------------------
(* approve: the row is marked submitting under the lock, the broker is      *)
(* called outside it, and the outcome is written under the lock again.     *)

MutApprovableTwice(r, a) ==
  row[r].status \in {"pending", "submitting"} /\ Overlaps(row[r].acct, a)

Approvable(r, a) == row[r].status = "pending" /\ Overlaps(row[r].acct, a)

ApproveBegin(w, r, a) ==
  /\ pc[w] = "idle"
  /\ Approvable(r, a)
  /\ row' = [row EXCEPT ![r].status = "submitting", ![r].acct = a]
  /\ Start(w, "send", r, a, Blank, 0)
  /\ UNCHANGED venue

\* The request leaves for the venue, which acts once per client order id.
Request(r) ==
  venue' = IF venue[r].state = "none" THEN [venue EXCEPT ![r].state = "wire"] ELSE venue

ApproveSend(w) ==
  /\ pc[w] = "send"
  /\ Request(job[w].id)
  /\ pc' = [pc EXCEPT ![w] = "wait"]
  /\ UNCHANGED <<row, job>>

Accepted(r) == venue[r].state \in {"open", "filled", "cancelled"}
Refused(r)  == venue[r].state = "rejected"

\* The outcome replaces the status whatever it has become meanwhile.
ApproveEnd(w) ==
  LET r == job[w].id IN
  /\ pc[w] = "wait"
  /\ \/ /\ Accepted(r)
        /\ row' = [row EXCEPT ![r].status = "submitted", ![r].ref = TRUE,
                              ![r].acct = job[w].acct]
     \/ /\ Refused(r)
        /\ row' = [row EXCEPT ![r].status = "rejected", ![r].acct = job[w].acct]
  /\ Idle(w)
  /\ UNCHANGED venue

MutFailedStatus == "rejected"

\* A process may refuse an order by itself: live orders switched off, or the
\* high-value guard (TossBroker._submit_order).  The row is rejected all the
\* same, and the mark overruled tells the properties that nobody asked the venue.
WriteOff(r) == venue' = [venue EXCEPT ![r].overruled = TRUE]

ApproveRefused(w) ==
  LET r == job[w].id IN
  /\ pc[w] = "send"
  /\ row' = [row EXCEPT ![r].status = "rejected", ![r].acct = job[w].acct]
  /\ WriteOff(r)
  /\ Idle(w)

\* A network exception proves nothing about the order, so it is unknown.
FailedStatus == "unknown"

ApproveFail(w) ==
  /\ pc[w] \in {"send", "wait"}
  /\ row' = [row EXCEPT ![job[w].id].status = FailedStatus,
                        ![job[w].id].acct = job[w].acct]
  /\ Idle(w)
  /\ UNCHANGED venue

-----------------------------------------------------------------------------
(* sync_with_broker: one transaction polls every working row of the        *)
(* account.  A poll that raises leaves its row alone.                      *)

Pollable(r, a) == row[r].status \in Polled /\ Belongs(r, a) /\ row[r].ref

\* The venue's view in the queue's words: TossBroker.get_order_fill.
FillStatus(r) ==
  CASE venue[r].state = "filled" -> "filled"
    [] venue[r].state = "cancelled" ->
         IF venue[r].filled > 0 THEN "partially_filled_cancelled" ELSE "cancelled"
    [] OTHER -> IF venue[r].filled > 0 THEN "partially_filled" ELSE "submitted"

MaxOf(m, n) == IF m < n THEN n ELSE m

MutMergeFillFirst(r) ==
  [row[r] EXCEPT !.status = FillStatus(r), !.filled = IF @ > 0 THEN @ ELSE venue[r].filled]

MutMergeFillAdds(r) ==
  [row[r] EXCEPT !.status = FillStatus(r), !.filled = @ + venue[r].filled]

MergeFill(r) ==
  LET confirmed == MaxOf(row[r].filled, venue[r].filled)
      status == CASE FillStatus(r) \in {"filled", "cancelled",
                                        "partially_filled_cancelled"} -> FillStatus(r)
                  [] OTHER -> IF confirmed > 0 THEN "partially_filled" ELSE "submitted"
  IN  [row[r] EXCEPT !.status = status, !.filled = confirmed]

Sync(a) ==
  /\ \E polled \in SUBSET {r \in Row : Pollable(r, a)} :
       row' = [r \in Row |-> IF r \in polled THEN MergeFill(r) ELSE row[r]]
  /\ UNCHANGED <<venue, pc, job>>

-----------------------------------------------------------------------------
(* recover_unresolved_orders: an unresolved row is replayed through the     *)
(* venue's idempotency, outside the lock, and the answer is written only   *)
(* if the row is still unresolved.  All replays of the model fall inside   *)
(* the venue's idempotency window.                                         *)

RecoverBegin(w, r, a) ==
  /\ pc[w] = "idle"
  /\ row[r].status \in Unresolved
  /\ Belongs(r, a)
  /\ Request(r)
  /\ Start(w, "replay", r, a, Blank, 0)
  /\ UNCHANGED row

StillUnresolved(r) == row[r].status \in Unresolved

RecoverEnd(w) ==
  LET r == job[w].id IN
  /\ pc[w] = "replay"
  /\ Accepted(r) \/ Refused(r)
  /\ row' = IF ~StillUnresolved(r) \/ ~Belongs(r, job[w].acct) THEN row
            ELSE IF Accepted(r)
            THEN [row EXCEPT ![r].status = "submitted", ![r].ref = TRUE]
            ELSE [row EXCEPT ![r].status = "rejected"]
  /\ Idle(w)
  /\ UNCHANGED venue

\* The replay is refused by the process itself, so the row is written off
\* whatever became of the first submission.  Nothing was sent, and the row is
\* still as unresolved as when it was read: one step.
RecoverRefused(r, a) ==
  /\ StillUnresolved(r)
  /\ Belongs(r, a)
  /\ row' = [row EXCEPT ![r].status = "rejected"]
  /\ WriteOff(r)
  /\ UNCHANGED <<pc, job>>

-----------------------------------------------------------------------------
(* cancel_stale_orders: working limit buys (every buy of this code is a     *)
(* limit order) are cancelled from a snapshot, which is then written back  *)
(* whole.  The venue answers a repeated cancel with success.               *)

CancelBegin(w, r, a) ==
  /\ pc[w] = "idle"
  /\ row[r].side = "buy"
  /\ Pollable(r, a)
  /\ Start(w, "cancel", r, a, row[r], 0)
  /\ UNCHANGED <<row, venue>>

CancelSend(w) ==
  LET r == job[w].id IN
  /\ pc[w] = "cancel"
  /\ venue[r].state \in {"open", "cancelled"}
  /\ venue' = [venue EXCEPT ![r].asked = TRUE]
  /\ \/ pc' = [pc EXCEPT ![w] = "cancelWrite"] /\ UNCHANGED job
     \/ Idle(w)                     \* the answer is lost, the row left alone
  /\ UNCHANGED row

CancelledStatus(snap) ==
  IF snap.filled > 0 THEN "partially_filled_cancelled" ELSE "cancelled"

CancelWrite(w) ==
  LET snap == job[w].snap IN
  /\ pc[w] = "cancelWrite"
  /\ row' = [row EXCEPT ![job[w].id] = [snap EXCEPT !.status = CancelledStatus(snap)]]
  /\ Idle(w)
  /\ UNCHANGED venue

-----------------------------------------------------------------------------
(* The callers of update: position management takes a snapshot of a held    *)
(* buy, may write it back with new stop bookkeeping any number of times,   *)
(* and may enqueue a sell for it, which it then links with update.         *)

HoldBegin(w, b, a) ==
  /\ pc[w] = "idle"
  /\ row[b].side = "buy"
  /\ row[b].status \in Held
  /\ Belongs(b, a)
  /\ Remaining(b) > 0
  /\ ~LinkedSellWorking(b)
  /\ Start(w, "held", b, a, row[b], Remaining(b))
  /\ UNCHANGED <<row, venue>>

\* update() after a trail ratchet or a protective-stop change.
HoldRewrite(w) ==
  /\ pc[w] = "held"
  /\ row' = [row EXCEPT ![job[w].id] = job[w].snap]
  /\ UNCHANGED <<venue, pc, job>>

ExitEnqueue(w, s, q, step) ==
  LET snap == job[w].snap IN
  /\ pc[w] = "held"
  /\ \/ /\ step = "linkPartial"      \* the larger half, once
        /\ job[w].held > 1
        /\ q = (job[w].held + 1) \div 2
        /\ \A p \in snap.partial : row[p].filled = 0
     \/ /\ step = "linkExit"         \* all, or the fewer the broker holds
        /\ q <= job[w].held
  /\ CanEnqueue(s, snap.key, "sell", job[w].acct)
  /\ row' = [row EXCEPT ![s] = NewRow(snap.key, "sell", job[w].acct, q)]
  /\ pc' = [pc EXCEPT ![w] = step]
  /\ job' = [job EXCEPT ![w].sell = s]
  /\ UNCHANGED venue

ExitLink(w) ==
  LET snap == job[w].snap
      s    == job[w].sell
  IN
  /\ \/ /\ pc[w] = "linkPartial"
        /\ row' = [row EXCEPT ![job[w].id] =
                     [snap EXCEPT !.partial = snap.partial \union {s}]]
     \/ /\ pc[w] = "linkExit"
        /\ row' = [row EXCEPT ![job[w].id] = [snap EXCEPT !.exit = s]]
  /\ Idle(w)
  /\ UNCHANGED venue

\* mark_externally_closed: a synthetic filled sell closes the position that
\* the broker no longer reports.  It replaces the link to the last exit.
MarkClosed(w, s) ==
  LET b == job[w].id IN
  /\ pc[w] = "held"
  /\ InQueue(b)
  /\ Belongs(b, job[w].acct)
  /\ Remaining(b) > 0
  /\ row[s].status = "absent"
  /\ row' = [row EXCEPT
       ![b].exit = s,
       ![s] = [NewRow(row[b].key, "sell", row[b].acct, Remaining(b)) EXCEPT
                 !.status = "filled", !.filled = Remaining(b),
                 !.ref = TRUE, !.ext = TRUE]]
  /\ Idle(w)
  /\ UNCHANGED venue

-----------------------------------------------------------------------------
(* archive_closed_orders: settled groups leave the queue file.  A group     *)
(* must have been quiet for seven days: no call lasts that long, and no    *)
(* day order is still open at the venue, so neither is an old row's state. *)

Quiet(r) ==
  /\ \A w \in Worker :
       r \notin {job[w].id, job[w].sell, job[w].snap.exit} \union job[w].snap.partial
  /\ venue[r].state \notin {"wire", "open"}

MutReferenced(r) == FALSE

Referenced(r) ==
  \E b \in Row : InQueue(b) /\ row[b].side = "buy" /\ r \in row[b].partial \union {row[b].exit}

GroupClosed(b) ==
  /\ row[b].side = "buy"
  /\ \/ /\ row[b].status \in Dead
        /\ row[b].filled = 0
        /\ Links(b) = {}
     \/ /\ row[b].status \in Held
        /\ Remaining(b) = 0
        /\ ~LinkedSellWorking(b)

InertSell(s) ==
  /\ row[s].side = "sell"
  /\ row[s].status \in Dead
  /\ row[s].filled = 0
  /\ ~Referenced(s)

Group(r) == {r} \union (IF row[r].side = "buy" THEN Links(r) ELSE {})

Archive ==
  /\ \E heads \in SUBSET {r \in Row : InQueue(r) /\ (GroupClosed(r) \/ InertSell(r))} :
       LET moved == UNION {Group(r) : r \in heads} IN
       /\ \A r \in moved : Quiet(r)
       /\ row' = [r \in Row |-> IF r \in moved THEN [row[r] EXCEPT !.status = "archived"]
                                               ELSE row[r]]
  /\ UNCHANGED <<venue, pc, job>>

-----------------------------------------------------------------------------
(* A worker's process dies, or its call raises and returns, with nothing    *)
(* more written.                                                           *)

Crash(w) ==
  /\ pc[w] # "idle"
  /\ Idle(w)
  /\ UNCHANGED <<row, venue>>

-----------------------------------------------------------------------------
(* The venue.  A request on the wire may be decided late or never; an open  *)
(* order may fill, and a cancel only asks: it lands later, and the order   *)
(* may fill before it does.                                                *)

VenueDecide(r, state) ==
  /\ venue[r].state = "wire"
  /\ venue' = [venue EXCEPT ![r].state = state]
  /\ UNCHANGED <<row, pc, job>>

VenueFill(r) ==
  /\ venue[r].state = "open"
  /\ venue' = [venue EXCEPT
       ![r].filled = @ + 1,
       ![r].state = IF venue[r].filled + 1 = row[r].qty THEN "filled" ELSE "open"]
  /\ UNCHANGED <<row, pc, job>>

VenueCancel(r) ==
  /\ venue[r].state = "open"
  /\ venue' = [venue EXCEPT ![r].state = "cancelled"]
  /\ UNCHANGED <<row, pc, job>>

-----------------------------------------------------------------------------
Next ==
  \/ \E r \in Row, k \in Key, a \in Account \union {Unbound}, q \in BuyQty :
       Enqueue(r, k, "buy", a, q)
  \/ \E a \in Account : Sync(a)
  \/ \E r \in Row, a \in Account : RecoverRefused(r, a)
  \/ Archive
  \/ \E w \in Worker, r \in Row, a \in Account :
       \/ ApproveBegin(w, r, a)
       \/ RecoverBegin(w, r, a)
       \/ CancelBegin(w, r, a)
       \/ HoldBegin(w, r, a)
  \/ \E w \in Worker :
       \/ ApproveSend(w) \/ ApproveEnd(w) \/ ApproveFail(w) \/ ApproveRefused(w)
       \/ RecoverEnd(w)
       \/ CancelSend(w) \/ CancelWrite(w)
       \/ HoldRewrite(w) \/ ExitLink(w)
       \/ Crash(w)
  \/ \E w \in Worker, s \in Row :
       \/ \E q \in Qty, step \in {"linkPartial", "linkExit"} : ExitEnqueue(w, s, q, step)
       \/ MarkClosed(w, s)
  \/ \E r \in Row :
       \/ VenueDecide(r, "open") \/ VenueDecide(r, "rejected")
       \/ VenueFill(r) \/ VenueCancel(r)

Spec == Init /\ [][Next]_vars

-----------------------------------------------------------------------------
(* Properties *)

Created(r) == row[r].status # "absent" /\ ~row[r].ext

\* The order can still trade: the venue has not finished with it, nobody has
\* had a cancel of it accepted, and no call wrote it off without asking the
\* venue.  (An order overruled like that may still trade: RejectedNeverTrades.)
Live(r) ==
  /\ Created(r)
  /\ venue[r].state \in {"none", "wire", "open"}
  /\ ~venue[r].asked
  /\ ~venue[r].overruled

\* An order that can still trade is never written off, except by a call whose
\* own settings refused it: its row keeps an active status, so sync, recovery
\* and the fail-stop of the sweep all still see it, whatever crashes, lost
\* answers and overlapping calls have happened (approve's "unknown" outcome,
\* recover_unresolved_orders, update).
LiveTracked == \A r \in Row : Live(r) => row[r].status \in Active

\* enqueue's promise: two orders that can still trade, and that no call wrote
\* off by itself, never have the same key and side in accounts that overlap, so
\* no interleaving of the processes buys or sells the same thing twice at once.
OneLiveOrder ==
  \A r1, r2 \in Row :
    /\ Live(r1) /\ Live(r2) /\ r1 # r2
    /\ row[r1].key = row[r2].key /\ row[r1].side = row[r2].side
    => ~Overlaps(row[r1].acct, row[r2].acct)

\* Two calls never submit the same row: the submitting mark written before
\* the broker call stops a second approval.
OneSubmitter ==
  \A w1, w2 \in Worker :
    pc[w1] \in {"send", "wait"} /\ pc[w2] \in {"send", "wait"} /\ job[w1].id = job[w2].id
    => w1 = w2

\* The queue never believes in shares the venue did not trade, even after a
\* stale snapshot was written back over the row.
NoGhostFill == \A r \in Row : row[r].ext \/ row[r].filled <= venue[r].filled

\* A sell whose row is terminal carries exactly the shares the venue sold:
\* the remaining quantity of its buy is computed from it for ever after (but
\* for a sell that a call's own settings wrote off).
SettledSellExact ==
  \A r \in Row :
    /\ Created(r) /\ ~venue[r].overruled
    /\ row[r].side = "sell" /\ row[r].status \in (Held \ Polled) \union Dead
    => row[r].filled = venue[r].filled

\* "The broker definitively rejected an order before it could execute"
\* (BrokerOrderRejected): a rejected row has no order the venue has accepted.
RejectedNeverTrades ==
  \A r \in Row : row[r].status = "rejected" => venue[r].state \notin {"open", "filled"}

\* A row bound to an account stays with it: no approval, recovery, sync or
\* stale write moves an order to another account.
AccountStable ==
  [][\A r \in Row : row[r].acct # Unbound => row'[r].acct = row[r].acct]_vars

\* The archive takes whole stories: while a buy is in the queue, so is every
\* sell it links to, and an archived order is finished at the venue.
ArchiveWhole ==
  \A r \in Row :
    /\ row[r].status = "archived" => ~Live(r)
    /\ InQueue(r) => \A s \in row[r].partial \union {row[r].exit} :
                       s # NoRow => row[s].status # "archived"

-----------------------------------------------------------------------------
(* The queue implements OrderSlots. *)

SlotsOf(r) ==
  (IF row[r].acct = Unbound THEN Account ELSE {row[r].acct})
    \X {row[r].key} \X {row[r].side}

Slots == INSTANCE OrderSlots WITH
  Slot  <- Account \X Key \X Side,
  holds <- [r \in Row |-> IF Live(r) THEN SlotsOf(r) ELSE {}],
  used  <- {r \in Row : Created(r)}

\* Whatever the processes do, orders behave like exclusive slots that are
\* claimed once, on creation, and only ever given up: when the venue is done
\* with the order, has accepted its cancel, or a call wrote it off by itself.
ImplementsSlots == Slots!Spec

=============================================================================
