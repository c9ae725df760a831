-------------------------- MODULE OrderQueueProofs --------------------------
(***************************************************************************)
(* Proofs about OrderQueue for every set of orders, keys, accounts and      *)
(* workers.  LiveTracked and OneLiveOrder are not inductive: they rest on   *)
(* what each worker's unfinished call may still write over a row, which     *)
(* JobInv states, and on how far a row may lag its venue order, RowInv.     *)
(***************************************************************************)
EXTENDS OrderQueue, FiniteSetTheorems, TLAPS

Settled == (Held \ Polled) \union Dead

\* The venue has finished with the order, a cancel of it was accepted, or a
\* call wrote it off by itself.
Over(r) ==
  venue[r].state \in {"filled", "cancelled", "rejected"} \/ venue[r].asked \/ venue[r].overruled

RowInv(r) ==
  /\ row[r].status = "absent" =>
       row[r] = Blank /\ venue[r].state = "none" /\ ~venue[r].asked /\ ~venue[r].overruled
  /\ row[r].ext =>
       row[r].side = "sell" /\ row[r].status \in {"filled", "archived"}
                            /\ venue[r].state = "none" /\ ~venue[r].asked
  /\ ~row[r].ext /\ venue[r].state = "none" =>
       row[r].status \in {"absent", "pending", "rejected", "archived"} \union Unresolved
  /\ Created(r) /\ ~Over(r) => row[r].status \in Active
  /\ venue[r].state = "open" => venue[r].filled < row[r].qty
  /\ venue[r].state \in {"none", "wire", "rejected"} => venue[r].filled = 0
  /\ ~row[r].ext => row[r].filled <= venue[r].filled
  /\ venue[r].asked => row[r].side = "buy"
  /\ Created(r) /\ ~venue[r].overruled /\ row[r].side = "sell" /\ row[r].status \in Settled =>
       row[r].filled = venue[r].filled

HasSnap(w) == pc[w] \in {"cancel", "cancelWrite", "held", "linkPartial", "linkExit"}

\* The snapshot a call holds agrees with the row on all that never changes,
\* and writes the order off only if the venue is over with it.
SnapInv(w) ==
  LET r == job[w].id
      snap == job[w].snap
  IN  /\ snap.side = "buy" /\ row[r].side = "buy"
      /\ snap.key = row[r].key
      /\ snap.qty = row[r].qty
      /\ snap.acct = row[r].acct
      /\ ~snap.ext
      /\ snap.status \in Held \union Polled
      /\ snap.status \notin Active => Over(r)
      /\ snap.filled <= venue[r].filled
      /\ venue[r].state # "none"
      /\ pc[w] = "cancelWrite" => venue[r].asked
      /\ pc[w] \in {"linkPartial", "linkExit"} =>
           job[w].sell \in Row /\ row[job[w].sell].status # "absent"

JobInv(w) ==
  /\ pc[w] # "idle" =>
       /\ job[w].id \in Row
       /\ job[w].acct \in Account
       /\ row[job[w].id].acct = job[w].acct
       /\ Created(job[w].id)
       /\ row[job[w].id].status # "pending"
  /\ pc[w] = "wait" => venue[job[w].id].state # "none"
  /\ HasSnap(w) => SnapInv(w)

IndInv ==
  /\ TypeOK
  /\ \A r \in Row : RowInv(r)
  /\ \A w \in Worker : JobInv(w)
  /\ OneLiveOrder
  /\ OneSubmitter

-----------------------------------------------------------------------------
(* What every step but the creation of an order does to each order.        *)

Progress(r) ==
  /\ row[r].status # "absent" =>
       /\ row'[r].status # "absent"
       /\ row'[r].side = row[r].side
       /\ row'[r].key = row[r].key
       /\ row'[r].qty = row[r].qty
       /\ row'[r].ext = row[r].ext
  /\ row[r].status \notin {"absent", "pending"} => row'[r].status # "pending"
  /\ row[r].acct # Unbound => row'[r].acct = row[r].acct
  /\ Over(r) => Over(r)'
  /\ venue[r].asked => venue'[r].asked
  /\ venue[r].overruled => venue'[r].overruled
  /\ venue[r].filled <= venue'[r].filled
  /\ venue[r].state # "none" => venue'[r].state # "none"

NoneCreated == \A r \in Row : row[r].status = "absent" => ~Created(r)'

Preserved == IndInv' /\ NoneCreated /\ \A r \in Row : Progress(r)

SameRow(r)  == row'[r] = row[r] /\ venue'[r] = venue[r]
MovedRow(r) == Progress(r) /\ RowInv(r)' /\ (row[r].status = "absent" => ~Created(r)')

SameJob(w)  == pc'[w] = pc[w] /\ job'[w] = job[w]
MovedJob(w) ==
  /\ JobInv(w)'
  /\ pc'[w] \in {"send", "wait"} => pc[w] \in {"send", "wait"} /\ job'[w].id = job[w].id

\* Outside its creation and its end, a live order is one that is not over.
LEMMA LiveIsNotOver ==
  ASSUME TypeOK, NEW r \in Row
  PROVE  Live(r) <=> Created(r) /\ ~Over(r)
BY DEF TypeOK, VenueRecord, Live, Over

\* What is left of a holding fits the quantities of the queue.
LEMMA RemainingType ==
  ASSUME TypeOK, NEW b \in Row
  PROVE  Remaining(b) \in 0 .. MaxQty
<1> DEFINE sold == Cardinality(SoldShares(b))
<1>1. IsFiniteSet(SoldShares(b))
  <2>1. IsFiniteSet(Row \X Qty)
    <3>1. IsFiniteSet(Qty)
      BY QueueAssumption, FS_Interval DEF Qty
    <3> QED
      BY <3>1, QueueAssumption, FS_Product
  <2> QED BY <2>1, FS_Subset DEF SoldShares
<1>2. sold \in Nat
  BY <1>1, FS_CardinalityType
<1>3. row[b].filled \in 0 .. MaxQty
  BY DEF TypeOK, RowRecord
<1> QED
  BY <1>2, <1>3, QueueAssumption DEF Remaining

\* A step that creates no order and lets every order progress keeps the slots
\* apart: no order comes back to life.
LEMMA LiveOnlyShrinks ==
  ASSUME IndInv, TypeOK', NoneCreated, \A r \in Row : Progress(r)
  PROVE  OneLiveOrder'
<1> SUFFICES ASSUME NEW r1 \in Row, NEW r2 \in Row,
                    Live(r1)', Live(r2)', r1 # r2,
                    row'[r1].key = row'[r2].key, row'[r1].side = row'[r2].side
             PROVE  ~Overlaps(row'[r1].acct, row'[r2].acct)
  BY DEF OneLiveOrder
<1>1. ASSUME NEW r \in Row, Live(r)'
      PROVE  /\ Live(r)
             /\ row'[r].key = row[r].key /\ row'[r].side = row[r].side
             /\ row[r].acct # Unbound => row'[r].acct = row[r].acct
  BY <1>1 DEF IndInv, TypeOK, VenueRecord, NoneCreated, Progress, Live, Over, Created
<1>2. ~Overlaps(row[r1].acct, row[r2].acct)
  BY <1>1 DEF IndInv, OneLiveOrder
<1> QED
  BY <1>1, <1>2 DEF Overlaps

\* A call that a step leaves alone keeps what it knows of its row.
LEMMA JobKept ==
  ASSUME IndInv, \A r \in Row : Progress(r),
         NEW w \in Worker, pc'[w] = pc[w], job'[w] = job[w], TypeOK'
  PROVE  JobInv(w)'
<1> DEFINE r == job[w].id
<1> SUFFICES ASSUME pc[w] # "idle" PROVE JobInv(w)'
  BY DEF JobInv, HasSnap
<1>1. JobInv(w) /\ r \in Row /\ Progress(r) /\ row[r].acct # Unbound
  BY QueueAssumption DEF IndInv, JobInv
<1>2. /\ row'[r].acct = job[w].acct /\ Created(r)' /\ row'[r].status # "pending"
      /\ row'[r].side = row[r].side /\ row'[r].key = row[r].key /\ row'[r].qty = row[r].qty
      /\ venue[r].filled <= venue'[r].filled
  BY <1>1 DEF JobInv, Progress, Created
<1>3. ASSUME HasSnap(w) PROVE SnapInv(w)'
  <2>1. SnapInv(w)
    BY <1>1, <1>3 DEF JobInv
  <2>2. /\ job[w].snap.filled \in Int /\ venue[r].filled \in Int
        /\ venue'[r].filled \in Int
    BY <1>1 DEF IndInv, TypeOK, JobRecord, RowRecord, VenueRecord
  <2>3. job[w].snap.filled <= venue'[r].filled
    BY <1>2, <2>1, <2>2 DEF SnapInv
  <2>4. pc[w] \in {"linkPartial", "linkExit"} => row'[job[w].sell].status # "absent"
    BY <2>1 DEF SnapInv, Progress
  <2>5. Over(r) => Over(r)'
    BY <1>1 DEF Progress
  <2> QED
    BY <1>1, <1>2, <2>1, <2>3, <2>4, <2>5 DEF SnapInv, Progress, Over
<1> QED
  BY <1>1, <1>2, <1>3 DEF JobInv, HasSnap, Progress

\* An order whose record a step leaves alone keeps its invariant.
LEMMA FramedRow ==
  ASSUME IndInv, NEW r \in Row, SameRow(r) \/ MovedRow(r)
  PROVE  Progress(r) /\ RowInv(r)'
<1>1. CASE MovedRow(r)
  BY <1>1 DEF MovedRow
<1>2. CASE SameRow(r)
  <2>1. venue[r].filled \in Int
    BY DEF IndInv, TypeOK, VenueRecord
  <2>2. Progress(r)
    BY <1>2, <2>1 DEF SameRow, Progress, Over
  <2>3. RowInv(r)'
    BY <1>2 DEF IndInv, SameRow, RowInv, Over, Created
  <2> QED BY <2>2, <2>3
<1> QED BY <1>1, <1>2

\* So it is enough to look at the orders and the calls that a step changes.
LEMMA Framed ==
  ASSUME IndInv, TypeOK',
         \A r \in Row : SameRow(r) \/ MovedRow(r),
         \A w \in Worker : SameJob(w) \/ MovedJob(w)
  PROVE  Preserved
<1>1. ASSUME NEW r \in Row PROVE Progress(r) /\ RowInv(r)'
  BY FramedRow
<1>2. NoneCreated
  BY DEF SameRow, MovedRow, NoneCreated, Created
<1>3. OneLiveOrder'
  BY <1>1, <1>2, LiveOnlyShrinks
<1>4. ASSUME NEW w \in Worker PROVE JobInv(w)'
  BY <1>1, JobKept DEF SameJob, MovedJob
<1>5. OneSubmitter'
  BY DEF IndInv, OneSubmitter, SameJob, MovedJob
<1> QED
  BY <1>1, <1>2, <1>3, <1>4, <1>5 DEF Preserved, IndInv

LEMMA NoJobType == NoJob \in JobRecord /\ Blank \in RowRecord
<1>1. Blank \in RowRecord
  BY QueueAssumption DEF Blank, RowRecord, Status, Side, Qty, Gone
<1> QED
  BY <1>1, QueueAssumption DEF NoJob, JobRecord

\* A call that ends leaves nothing to keep.
LEMMA IdleJob ==
  ASSUME IndInv, NEW w \in Worker, Idle(w)
  PROVE  \A w2 \in Worker : SameJob(w2) \/ MovedJob(w2)
<1>1. MovedJob(w)
  BY DEF Idle, MovedJob, JobInv, HasSnap, IndInv, TypeOK
<1> QED
  BY <1>1 DEF Idle, SameJob, IndInv, TypeOK

\* The initial state satisfies the invariant.
LEMMA InitIndInv == Init => IndInv
<1> SUFFICES ASSUME Init PROVE IndInv
  OBVIOUS
<1>3. TypeOK
  BY NoJobType, QueueAssumption DEF Init, TypeOK, VenueRecord, Step
<1>4. ASSUME NEW r \in Row PROVE RowInv(r)
  BY DEF Init, RowInv, Blank, Created, Over, Settled, Held, Polled, Dead
<1>5. ASSUME NEW w \in Worker PROVE JobInv(w)
  BY DEF Init, JobInv, HasSnap
<1>6. OneLiveOrder
  BY DEF Init, OneLiveOrder, Live, Created, Blank
<1>7. OneSubmitter
  BY DEF Init, OneSubmitter
<1> QED
  BY <1>3, <1>4, <1>5, <1>6, <1>7 DEF IndInv

-----------------------------------------------------------------------------
(* The venue *)

LEMMA VenueDecideStep ==
  ASSUME IndInv, NEW r \in Row, NEW s \in {"open", "rejected"}, VenueDecide(r, s)
  PROVE  Preserved
<1>1. TypeOK'
  BY DEF IndInv, TypeOK, VenueDecide, VenueRecord
<1>2. venue'[r] = [venue[r] EXCEPT !.state = s] /\ venue[r] \in VenueRecord /\ row[r] \in RowRecord
  BY DEF VenueDecide, IndInv, TypeOK
<1>3. MovedRow(r)
  <2>1. Progress(r)
    BY <1>2 DEF VenueDecide, Progress, Over, VenueRecord
  <2>2. RowInv(r)'
    BY <1>2 DEF VenueDecide, IndInv, RowInv, Over, Created, VenueRecord, RowRecord, Qty,
      Settled, Active, Held, Polled, Dead, Unresolved
  <2> QED BY <2>1, <2>2 DEF MovedRow, Created, VenueDecide
<1>4. \A r2 \in Row : SameRow(r2) \/ MovedRow(r2)
  BY <1>3 DEF VenueDecide, SameRow, IndInv, TypeOK
<1>5. \A w \in Worker : SameJob(w) \/ MovedJob(w)
  BY DEF VenueDecide, SameJob
<1> QED
  BY <1>1, <1>4, <1>5, Framed

LEMMA VenueFillStep ==
  ASSUME IndInv, NEW r \in Row, VenueFill(r)
  PROVE  Preserved
<1>1. venue[r] \in VenueRecord /\ row[r] \in RowRecord
  BY DEF IndInv, TypeOK
<1>2. RowInv(r) /\ venue[r].filled < row[r].qty
  BY DEF IndInv, RowInv, VenueFill
<1>3. venue[r].filled + 1 \in 0 .. MaxQty
  BY <1>1, <1>2, QueueAssumption DEF RowRecord, VenueRecord, Qty
<1>4. TypeOK'
  <2> DEFINE filled == venue[r].filled + 1
             v == [venue[r] EXCEPT !.filled = filled,
                                   !.state = IF filled = row[r].qty THEN "filled" ELSE "open"]
  <2>1. v \in VenueRecord
    BY <1>1, <1>3 DEF VenueRecord
  <2>2. venue' = [venue EXCEPT ![r] = v]
    BY <1>1 DEF VenueFill, VenueRecord, IndInv, TypeOK
  <2> HIDE DEF v
  <2>3. venue' \in [Row -> VenueRecord]
    BY <2>1, <2>2 DEF IndInv, TypeOK
  <2> QED BY <2>3 DEF IndInv, TypeOK, VenueFill
<1>5. /\ venue'[r].filled = venue[r].filled + 1
      /\ venue'[r].state = IF venue[r].filled + 1 = row[r].qty THEN "filled" ELSE "open"
      /\ venue'[r].asked = venue[r].asked /\ venue'[r].overruled = venue[r].overruled
      /\ row' = row /\ venue[r].state = "open" /\ venue[r].filled \in Nat
      /\ row[r].qty \in Nat
  BY <1>1, QueueAssumption DEF IndInv, TypeOK, VenueFill, VenueRecord, RowRecord, Qty
<1>6. MovedRow(r)
  <2>1. Progress(r)
    BY <1>5 DEF Progress, Over
  <2>2. row[r].status # "absent" /\ ~row[r].ext
    BY <1>2 DEF VenueFill, RowInv
  <2>3. Created(r) /\ ~venue[r].overruled /\ row[r].side = "sell" => row[r].status \notin Settled
    BY <1>2, <2>2 DEF VenueFill, RowInv, Over, Settled, Active, Held, Polled, Dead, Unresolved
  <2>4. RowInv(r)'
    <3>1. row[r].filled <= venue'[r].filled
      BY <1>1, <1>2, <1>5, <2>2 DEF RowInv, RowRecord
    <3>2. venue'[r].state = "open" => venue'[r].filled < row[r].qty
      BY <1>2, <1>5
    <3> QED
      BY <1>2, <1>5, <2>2, <2>3, <3>1, <3>2 DEF RowInv, Over, Created
  <2> QED BY <2>1, <2>2, <2>4 DEF MovedRow
<1>7. \A r2 \in Row : SameRow(r2) \/ MovedRow(r2)
  BY <1>6 DEF VenueFill, SameRow, IndInv, TypeOK
<1>8. \A w \in Worker : SameJob(w) \/ MovedJob(w)
  BY DEF VenueFill, SameJob
<1> QED
  BY <1>4, <1>7, <1>8, Framed

LEMMA VenueCancelStep ==
  ASSUME IndInv, NEW r \in Row, VenueCancel(r)
  PROVE  Preserved
<1>1. TypeOK'
  BY DEF IndInv, TypeOK, VenueCancel, VenueRecord
<1>2. venue'[r] = [venue[r] EXCEPT !.state = "cancelled"] /\ venue[r] \in VenueRecord
  BY DEF VenueCancel, IndInv, TypeOK
<1>3. MovedRow(r)
  <2>1. Progress(r)
    BY <1>2 DEF VenueCancel, Progress, Over, VenueRecord
  <2>2. RowInv(r)'
    BY <1>2 DEF VenueCancel, IndInv, RowInv, Over, Created, VenueRecord
  <2> QED BY <2>1, <2>2 DEF MovedRow, Created, VenueCancel
<1>4. \A r2 \in Row : SameRow(r2) \/ MovedRow(r2)
  BY <1>3 DEF VenueCancel, SameRow, IndInv, TypeOK
<1>5. \A w \in Worker : SameJob(w) \/ MovedJob(w)
  BY DEF VenueCancel, SameJob
<1> QED
  BY <1>1, <1>4, <1>5, Framed

-----------------------------------------------------------------------------
(* Steps that only move a call on *)

LEMMA CrashStep ==
  ASSUME IndInv, NEW w \in Worker, Crash(w)
  PROVE  Preserved
<1>1. TypeOK'
  BY NoJobType DEF IndInv, TypeOK, Crash, Idle, Step
<1>2. \A r \in Row : SameRow(r) \/ MovedRow(r)
  BY DEF Crash, SameRow
<1>3. \A w2 \in Worker : SameJob(w2) \/ MovedJob(w2)
  BY IdleJob DEF Crash
<1> QED
  BY <1>1, <1>2, <1>3, Framed

LEMMA CancelBeginStep ==
  ASSUME IndInv, NEW w \in Worker, NEW r \in Row, NEW a \in Account, CancelBegin(w, r, a)
  PROVE  Preserved
<1>1. TypeOK'
  BY QueueAssumption DEF IndInv, TypeOK, CancelBegin, Start, Step, JobRecord
<1>2. RowInv(r) /\ row[r] \in RowRecord
  BY DEF IndInv, TypeOK
<1>3. MovedJob(w)
  <2>1. pc'[w] = "cancel" /\ job'[w].id = r /\ job'[w].acct = a /\ job'[w].snap = row[r]
    BY DEF CancelBegin, Start, IndInv, TypeOK
  <2>2. SnapInv(w)'
    BY <1>2, <2>1 DEF CancelBegin, Pollable, SnapInv, RowInv, Polled, Held, Active,
      Unresolved
  <2>3. Created(r)' /\ row'[r].acct = a /\ row'[r].status # "pending"
    BY <1>2 DEF CancelBegin, Pollable, Belongs, Created, RowInv, Polled
  <2> QED
    BY <2>1, <2>2, <2>3 DEF MovedJob, JobInv
<1>4. \A r2 \in Row : SameRow(r2) \/ MovedRow(r2)
  BY DEF CancelBegin, SameRow
<1>5. \A w2 \in Worker : SameJob(w2) \/ MovedJob(w2)
  BY <1>3 DEF CancelBegin, Start, SameJob, IndInv, TypeOK
<1> QED
  BY <1>1, <1>4, <1>5, Framed

LEMMA HoldBeginStep ==
  ASSUME IndInv, NEW w \in Worker, NEW r \in Row, NEW a \in Account, HoldBegin(w, r, a)
  PROVE  Preserved
<1>1. TypeOK'
  BY RemainingType, QueueAssumption DEF IndInv, TypeOK, HoldBegin, Start, Step, JobRecord
<1>2. RowInv(r) /\ row[r] \in RowRecord
  BY DEF IndInv, TypeOK
<1>3. MovedJob(w)
  <2>1. pc'[w] = "held" /\ job'[w].id = r /\ job'[w].acct = a /\ job'[w].snap = row[r]
    BY DEF HoldBegin, Start, IndInv, TypeOK
  <2>2. SnapInv(w)'
    BY <1>2, <2>1 DEF HoldBegin, SnapInv, RowInv, Over, Created, Polled, Held, Active,
      Unresolved
  <2>3. Created(r)' /\ row'[r].acct = a /\ row'[r].status # "pending"
    BY <1>2 DEF HoldBegin, Belongs, Created, RowInv, Held
  <2> QED
    BY <2>1, <2>2, <2>3 DEF MovedJob, JobInv
<1>4. \A r2 \in Row : SameRow(r2) \/ MovedRow(r2)
  BY DEF HoldBegin, SameRow
<1>5. \A w2 \in Worker : SameJob(w2) \/ MovedJob(w2)
  BY <1>3 DEF HoldBegin, Start, SameJob, IndInv, TypeOK
<1> QED
  BY <1>1, <1>4, <1>5, Framed

\* cancel: an accepted cancel changes only what the venue knows of a buy.
LEMMA CancelSendStep ==
  ASSUME IndInv, NEW w \in Worker, CancelSend(w)
  PROVE  Preserved
<1>0. PICK r \in Row : r = job[w].id
  BY DEF CancelSend, IndInv, JobInv
<1>1. pc[w] = "cancel" /\ JobInv(w) /\ SnapInv(w) /\ r = job[w].id /\ job[w] \in JobRecord
  BY <1>0 DEF CancelSend, IndInv, TypeOK, JobInv, HasSnap
<1>2. TypeOK'
  <2>1. venue' \in [Row -> VenueRecord]
    <3>1. venue[r] \in VenueRecord /\ venue \in [Row -> VenueRecord]
      BY DEF IndInv, TypeOK
    <3>2. [venue[r] EXCEPT !.asked = TRUE] \in VenueRecord
      BY <3>1 DEF VenueRecord
    <3>3. venue' = [venue EXCEPT ![r] = [venue[r] EXCEPT !.asked = TRUE]]
      BY <1>1, <3>1 DEF CancelSend, VenueRecord
    <3> QED BY <3>1, <3>2, <3>3
  <2> QED
    BY <2>1, NoJobType DEF IndInv, TypeOK, CancelSend, Step, Idle
<1>3. /\ venue'[r].asked /\ venue'[r].state = venue[r].state
      /\ venue'[r].filled = venue[r].filled /\ venue[r].filled \in Int
      /\ venue'[r].overruled = venue[r].overruled
      /\ row' = row /\ venue[r].state \in {"open", "cancelled"}
  <2>1. venue' = [venue EXCEPT ![r].asked = TRUE] /\ venue[r] \in VenueRecord
    BY <1>1 DEF CancelSend, IndInv, TypeOK
  <2> QED
    BY <1>1, <2>1 DEF CancelSend, IndInv, TypeOK, VenueRecord
<1>4. MovedRow(r)
  <2>1. RowInv(r) /\ Created(r) /\ row[r].side = "buy"
    BY <1>1 DEF IndInv, JobInv, SnapInv
  <2>2. Progress(r)
    BY <1>3 DEF Progress, Over
  <2>3. row[r].status # "absent" /\ ~row[r].ext
    BY <2>1 DEF Created
  <2>4. RowInv(r)'
    BY <1>3, <2>1, <2>3 DEF RowInv, Over, Created
  <2> QED BY <1>3, <2>1, <2>2, <2>4 DEF MovedRow, Created
<1>5. \A r2 \in Row : SameRow(r2) \/ MovedRow(r2)
  BY <1>0, <1>3, <1>4 DEF CancelSend, SameRow, IndInv, TypeOK
<1>6. \A w2 \in Worker : SameJob(w2) \/ MovedJob(w2)
  <2>1. CASE Idle(w)
    BY <2>1, IdleJob
  <2>2. CASE pc' = [pc EXCEPT ![w] = "cancelWrite"] /\ UNCHANGED job
    <3>1. pc'[w] = "cancelWrite" /\ job'[w] = job[w]
      BY <2>2 DEF IndInv, TypeOK
    <3>2. SnapInv(w)'
      BY <1>1, <1>3, <3>1 DEF SnapInv, Over
    <3>3. MovedJob(w)
      BY <1>1, <1>3, <3>1, <3>2 DEF MovedJob, JobInv, Created
    <3> QED
      BY <2>2, <3>3 DEF SameJob, IndInv, TypeOK
  <2> QED BY <2>1, <2>2 DEF CancelSend
<1> QED
  BY <1>2, <1>5, <1>6, Framed

-----------------------------------------------------------------------------
(* Requests *)

\* A request changes at most whether the venue has heard of the order.
LEMMA RequestMoves ==
  ASSUME IndInv, NEW r \in Row, Created(r), row[r].status # "pending",
         Request(r), row' = row
  PROVE  /\ venue' \in [Row -> VenueRecord]
         /\ venue'[r].state # "none"
         /\ \A r2 \in Row : SameRow(r2) \/ MovedRow(r2)
<1>1. venue \in [Row -> VenueRecord] /\ RowInv(r)
  BY DEF IndInv, TypeOK
<1>2. CASE venue[r].state # "none"
  BY <1>1, <1>2 DEF Request, SameRow
<1>3. CASE venue[r].state = "none"
  <2>1. venue' = [venue EXCEPT ![r].state = "wire"]
    BY <1>3 DEF Request
  <2>2. /\ venue'[r].state = "wire" /\ venue'[r].asked = venue[r].asked
        /\ venue'[r].overruled = venue[r].overruled
        /\ venue'[r].filled = venue[r].filled /\ venue[r].filled \in Int
        /\ venue' \in [Row -> VenueRecord]
    BY <1>1, <2>1 DEF VenueRecord
  <2>3. Progress(r)
    BY <1>3, <2>2 DEF Progress, Over
  <2>4. RowInv(r)'
    BY <1>1, <1>3, <2>2 DEF RowInv, Over, Created
  <2>5. MovedRow(r)
    BY <2>3, <2>4 DEF MovedRow, Created
  <2> QED
    BY <1>1, <2>1, <2>2, <2>5 DEF SameRow
<1> QED BY <1>2, <1>3

LEMMA ApproveSendStep ==
  ASSUME IndInv, NEW w \in Worker, ApproveSend(w)
  PROVE  Preserved
<1>0. PICK r \in Row : r = job[w].id
  BY DEF ApproveSend, IndInv, JobInv
<1>1. /\ pc[w] = "send" /\ JobInv(w) /\ r = job[w].id
      /\ Created(r) /\ row[r].status # "pending" /\ Request(r) /\ row' = row
  BY <1>0 DEF ApproveSend, IndInv, JobInv
<1>2. TypeOK' /\ venue'[r].state # "none" /\ \A r2 \in Row : SameRow(r2) \/ MovedRow(r2)
  <2>1. pc' \in [Worker -> Step]
    BY DEF IndInv, TypeOK, ApproveSend, Step
  <2> QED
    BY <1>1, <2>1, RequestMoves DEF IndInv, TypeOK, ApproveSend
<1>3. MovedJob(w)
  BY <1>1, <1>2 DEF ApproveSend, IndInv, TypeOK, MovedJob, JobInv, HasSnap, Created
<1>4. \A w2 \in Worker : SameJob(w2) \/ MovedJob(w2)
  BY <1>3 DEF ApproveSend, SameJob, IndInv, TypeOK
<1> QED
  BY <1>2, <1>4, Framed

LEMMA RecoverBeginStep ==
  ASSUME IndInv, NEW w \in Worker, NEW r \in Row, NEW a \in Account, RecoverBegin(w, r, a)
  PROVE  Preserved
<1>1. Created(r) /\ row[r].status # "pending" /\ row[r].acct = a
  BY DEF IndInv, RowInv, RecoverBegin, Belongs, Created, Unresolved
<1>2. TypeOK' /\ \A r2 \in Row : SameRow(r2) \/ MovedRow(r2)
  <2>1. pc' \in [Worker -> Step] /\ job' \in [Worker -> JobRecord]
    BY NoJobType, QueueAssumption DEF IndInv, TypeOK, RecoverBegin, Start, Step, JobRecord
  <2> QED
    BY <1>1, <2>1, RequestMoves DEF IndInv, TypeOK, RecoverBegin
<1>3. pc'[w] = "replay" /\ job'[w].id = r /\ job'[w].acct = a /\ row' = row
  BY DEF RecoverBegin, Start, IndInv, TypeOK
<1>4. MovedJob(w)
  BY <1>1, <1>3 DEF MovedJob, JobInv, HasSnap, Created
<1>5. \A w2 \in Worker : SameJob(w2) \/ MovedJob(w2)
  BY <1>4 DEF RecoverBegin, Start, SameJob, IndInv, TypeOK
<1> QED
  BY <1>2, <1>5, Framed

-----------------------------------------------------------------------------
(* Writes of a row *)

\* What the new record of a created order must satisfy, seen from its venue.
Writable(r, rec) ==
  /\ rec.side = row[r].side /\ rec.key = row[r].key /\ rec.qty = row[r].qty
  /\ rec.ext = row[r].ext
  /\ row[r].acct # Unbound => rec.acct = row[r].acct
  /\ rec.status \notin {"absent", "pending"}
  /\ venue[r].state = "none" => rec.status \in {"rejected"} \union Unresolved
  /\ ~Over(r) => rec.status \in Active
  /\ rec.filled <= venue[r].filled
  /\ rec.side = "sell" /\ rec.status \in Settled /\ ~venue[r].overruled =>
       rec.filled = venue[r].filled

LEMMA RowWritten ==
  ASSUME IndInv, NEW r \in Row, NEW rec, Created(r), Writable(r, rec),
         row'[r] = rec, venue' = venue
  PROVE  MovedRow(r)
<1>1. RowInv(r) /\ row[r].status # "absent" /\ ~row[r].ext /\ venue[r].filled \in Int
  BY DEF IndInv, TypeOK, VenueRecord, Created
<1>2. Progress(r)
  BY <1>1 DEF Progress, Writable, Over
<1>3. RowInv(r)'
  BY <1>1 DEF RowInv, Writable, Over, Created
<1> QED
  BY <1>1, <1>2, <1>3 DEF MovedRow

\* A call that writes its own row and ends.
LEMMA WriteAndEnd ==
  ASSUME IndInv, NEW w \in Worker, NEW r \in Row, NEW rec \in RowRecord,
         Created(r), Writable(r, rec),
         row' = [row EXCEPT ![r] = rec], venue' = venue, Idle(w)
  PROVE  Preserved
<1>1. TypeOK'
  BY NoJobType DEF IndInv, TypeOK, Idle, Step
<1>2. row'[r] = rec
  BY DEF IndInv, TypeOK
<1>3. MovedRow(r)
  BY <1>2, RowWritten
<1>4. \A r2 \in Row : SameRow(r2) \/ MovedRow(r2)
  BY <1>3 DEF SameRow, IndInv, TypeOK
<1>5. \A w2 \in Worker : SameJob(w2) \/ MovedJob(w2)
  BY IdleJob
<1> QED
  BY <1>1, <1>4, <1>5, Framed

LEMMA ApproveEndStep ==
  ASSUME IndInv, NEW w \in Worker, ApproveEnd(w)
  PROVE  Preserved
<1>0. PICK r \in Row : r = job[w].id
  BY DEF ApproveEnd, IndInv, JobInv
<1>1. /\ Created(r) /\ row[r].acct = job[w].acct /\ RowInv(r) /\ row[r] \in RowRecord
      /\ venue[r].filled \in Int
  BY <1>0 DEF ApproveEnd, IndInv, TypeOK, JobInv, VenueRecord
<1>2. CASE Accepted(r) /\ row' = [row EXCEPT ![r].status = "submitted", ![r].ref = TRUE,
                                             ![r].acct = job[w].acct]
  <2> DEFINE rec == [row[r] EXCEPT !.status = "submitted", !.ref = TRUE]
  <2>1. rec \in RowRecord
    BY <1>1 DEF RowRecord, Status, Active, Polled
  <2>2. Writable(r, rec)
    BY <1>1, <1>2 DEF Writable, Accepted, RowInv, Created, RowRecord, Active, Polled,
      Settled, Held, Dead
  <2>3. row' = [row EXCEPT ![r] = rec]
    BY <1>1, <1>2 DEF IndInv, TypeOK, RowRecord
  <2> QED
    BY <1>1, <2>1, <2>2, <2>3, WriteAndEnd DEF ApproveEnd
<1>3. CASE Refused(r) /\ row' = [row EXCEPT ![r].status = "rejected", ![r].acct = job[w].acct]
  <2> DEFINE rec == [row[r] EXCEPT !.status = "rejected"]
  <2>1. rec \in RowRecord
    BY <1>1 DEF RowRecord, Status, Dead
  <2>2. row[r].filled = venue[r].filled
    BY <1>1, <1>3, QueueAssumption DEF Refused, RowInv, Created, RowRecord
  <2>3. Writable(r, rec)
    BY <1>1, <1>3, <2>2 DEF Writable, Refused, RowInv, Created, Over, RowRecord
  <2>4. row' = [row EXCEPT ![r] = rec]
    BY <1>1, <1>3 DEF IndInv, TypeOK, RowRecord
  <2> QED
    BY <1>1, <2>1, <2>3, <2>4, WriteAndEnd DEF ApproveEnd
<1> QED
  BY <1>0, <1>2, <1>3 DEF ApproveEnd

LEMMA ApproveFailStep ==
  ASSUME IndInv, NEW w \in Worker, ApproveFail(w)
  PROVE  Preserved
<1>0. PICK r \in Row : r = job[w].id
  BY DEF ApproveFail, IndInv, JobInv
<1>1. Created(r) /\ row[r].acct = job[w].acct /\ RowInv(r) /\ row[r] \in RowRecord
  BY <1>0 DEF ApproveFail, IndInv, TypeOK, JobInv
<1> DEFINE rec == [row[r] EXCEPT !.status = "unknown"]
<1>2. rec \in RowRecord
  BY <1>1 DEF RowRecord, Status, Active, Unresolved
<1>3. Writable(r, rec)
  BY <1>1 DEF Writable, RowInv, Created, RowRecord, Active, Unresolved, Settled, Held, Dead
<1>4. row' = [row EXCEPT ![r] = rec]
  BY <1>0, <1>1 DEF ApproveFail, FailedStatus, IndInv, TypeOK, RowRecord
<1> QED
  BY <1>1, <1>2, <1>3, <1>4, WriteAndEnd DEF ApproveFail

\* A call that refuses an order by itself writes it off; the venue is not asked.
LEMMA WrittenOff ==
  ASSUME IndInv, NEW r \in Row, Created(r), row[r].status # "pending",
         row' = [row EXCEPT ![r] = [row[r] EXCEPT !.status = "rejected"]],
         WriteOff(r)
  PROVE  /\ row' \in [Row -> RowRecord] /\ venue' \in [Row -> VenueRecord]
         /\ \A r2 \in Row : SameRow(r2) \/ MovedRow(r2)
<1>1. /\ row[r] \in RowRecord /\ venue[r] \in VenueRecord /\ RowInv(r)
      /\ row \in [Row -> RowRecord] /\ venue \in [Row -> VenueRecord]
  BY DEF IndInv, TypeOK
<1> DEFINE rec == [row[r] EXCEPT !.status = "rejected"]
           ven == [venue[r] EXCEPT !.overruled = TRUE]
<1>2. rec \in RowRecord /\ ven \in VenueRecord
  BY <1>1 DEF RowRecord, VenueRecord, Status, Dead
<1>3. /\ rec.status = "rejected" /\ rec.side = row[r].side /\ rec.key = row[r].key
      /\ rec.qty = row[r].qty /\ rec.ext = row[r].ext /\ rec.acct = row[r].acct
      /\ rec.filled = row[r].filled
  BY <1>1 DEF RowRecord
<1>4. /\ ven.overruled /\ ven.state = venue[r].state /\ ven.filled = venue[r].filled
      /\ ven.asked = venue[r].asked /\ venue[r].filled \in Int
  BY <1>1 DEF VenueRecord
<1>5. venue' = [venue EXCEPT ![r] = ven]
  BY <1>1 DEF WriteOff, VenueRecord
<1> HIDE DEF rec, ven
<1>6. row' = [row EXCEPT ![r] = rec]
  BY DEF rec
<1>7. row'[r] = rec /\ venue'[r] = ven
  BY <1>1, <1>5, <1>6
<1>8. Progress(r)
  BY <1>3, <1>4, <1>7 DEF Progress, Over
<1>9. RowInv(r)'
  BY <1>1, <1>3, <1>4, <1>7 DEF RowInv, Over, Created
<1>10. MovedRow(r)
  BY <1>3, <1>7, <1>8, <1>9 DEF MovedRow, Created
<1> QED
  BY <1>1, <1>2, <1>5, <1>6, <1>10 DEF SameRow

LEMMA ApproveRefusedStep ==
  ASSUME IndInv, NEW w \in Worker, ApproveRefused(w)
  PROVE  Preserved
<1>0. PICK r \in Row : r = job[w].id
  BY DEF ApproveRefused, IndInv, JobInv
<1>1. /\ Created(r) /\ row[r].acct = job[w].acct /\ row[r].status # "pending"
      /\ row[r] \in RowRecord /\ WriteOff(r) /\ Idle(w)
  BY <1>0 DEF ApproveRefused, IndInv, TypeOK, JobInv
<1>2. row' = [row EXCEPT ![r] = [row[r] EXCEPT !.status = "rejected"]]
  BY <1>0, <1>1 DEF ApproveRefused, IndInv, TypeOK, RowRecord
<1>3. /\ row' \in [Row -> RowRecord] /\ venue' \in [Row -> VenueRecord]
      /\ \A r2 \in Row : SameRow(r2) \/ MovedRow(r2)
  BY <1>1, <1>2, WrittenOff
<1>4. TypeOK'
  BY <1>1, <1>3, NoJobType DEF IndInv, TypeOK, Idle, Step
<1> QED
  BY <1>1, <1>3, <1>4, IdleJob, Framed

LEMMA RecoverRefusedStep ==
  ASSUME IndInv, NEW r \in Row, NEW a \in Account, RecoverRefused(r, a)
  PROVE  Preserved
<1>1. Created(r) /\ row[r].status # "pending" /\ row[r] \in RowRecord /\ WriteOff(r)
  BY DEF RecoverRefused, StillUnresolved, Unresolved, IndInv, TypeOK, RowInv, Created
<1>2. row' = [row EXCEPT ![r] = [row[r] EXCEPT !.status = "rejected"]]
  BY <1>1 DEF RecoverRefused, IndInv, TypeOK, RowRecord
<1>3. /\ row' \in [Row -> RowRecord] /\ venue' \in [Row -> VenueRecord]
      /\ \A r2 \in Row : SameRow(r2) \/ MovedRow(r2)
  BY <1>1, <1>2, WrittenOff
<1>4. TypeOK'
  BY <1>3 DEF IndInv, TypeOK, RecoverRefused
<1>5. \A w \in Worker : SameJob(w) \/ MovedJob(w)
  BY DEF RecoverRefused, SameJob
<1> QED
  BY <1>3, <1>4, <1>5, Framed

LEMMA RecoverEndStep ==
  ASSUME IndInv, NEW w \in Worker, RecoverEnd(w)
  PROVE  Preserved
<1>0. PICK r \in Row : r = job[w].id
  BY DEF RecoverEnd, IndInv, JobInv
<1>1. /\ Created(r) /\ RowInv(r) /\ row[r] \in RowRecord /\ venue[r].filled \in Int
  BY <1>0 DEF RecoverEnd, IndInv, TypeOK, JobInv, VenueRecord
<1>2. CASE row' = row
  <2>1. TypeOK'
    BY <1>2, NoJobType DEF RecoverEnd, IndInv, TypeOK, Idle, Step
  <2>2. \A r2 \in Row : SameRow(r2) \/ MovedRow(r2)
    BY <1>2 DEF RecoverEnd, SameRow
  <2>3. \A w2 \in Worker : SameJob(w2) \/ MovedJob(w2)
    BY IdleJob DEF RecoverEnd
  <2> QED
    BY <2>1, <2>2, <2>3, Framed
<1>3. CASE Accepted(r) /\ row' = [row EXCEPT ![r].status = "submitted", ![r].ref = TRUE]
  <2> DEFINE rec == [row[r] EXCEPT !.status = "submitted", !.ref = TRUE]
  <2>1. rec \in RowRecord
    BY <1>1 DEF RowRecord, Status, Active, Polled
  <2>2. Writable(r, rec)
    BY <1>1, <1>3 DEF Writable, Accepted, RowInv, Created, RowRecord, Active, Polled,
      Settled, Held, Dead
  <2>3. row' = [row EXCEPT ![r] = rec]
    BY <1>1, <1>3 DEF IndInv, TypeOK, RowRecord
  <2> QED
    BY <1>1, <2>1, <2>2, <2>3, WriteAndEnd DEF RecoverEnd
<1>4. CASE Refused(r) /\ row' = [row EXCEPT ![r].status = "rejected"]
  <2> DEFINE rec == [row[r] EXCEPT !.status = "rejected"]
  <2>1. rec \in RowRecord
    BY <1>1 DEF RowRecord, Status, Dead
  <2>2. row[r].filled = venue[r].filled
    BY <1>1, <1>4, QueueAssumption DEF Refused, RowInv, Created, RowRecord
  <2>3. Writable(r, rec)
    BY <1>1, <1>4, <2>2 DEF Writable, Refused, RowInv, Created, Over, RowRecord
  <2>4. row' = [row EXCEPT ![r] = rec]
    BY <1>1, <1>4 DEF IndInv, TypeOK, RowRecord
  <2> QED
    BY <1>1, <2>1, <2>3, <2>4, WriteAndEnd DEF RecoverEnd
<1> QED
  BY <1>0, <1>2, <1>3, <1>4 DEF RecoverEnd

\* The snapshot a call took before a broker call may still be written back.
LEMMA SnapWritable ==
  ASSUME IndInv, NEW w \in Worker, HasSnap(w),
         NEW r \in Row, r = job[w].id,
         NEW rec \in RowRecord,
         rec.side = job[w].snap.side, rec.key = job[w].snap.key,
         rec.qty = job[w].snap.qty, rec.acct = job[w].snap.acct,
         rec.ext = job[w].snap.ext, rec.filled = job[w].snap.filled,
         \/ rec.status = job[w].snap.status
         \/ rec.status \in {"cancelled", "partially_filled_cancelled"} /\ venue[r].asked
  PROVE  Created(r) /\ Writable(r, rec)
<1>1. JobInv(w) /\ SnapInv(w) /\ Created(r) /\ RowInv(r)
  BY DEF IndInv, JobInv, HasSnap
<1>2. rec.ext = row[r].ext
  BY <1>1 DEF IndInv, TypeOK, SnapInv, Created, RowRecord
<1> QED
  BY <1>1, <1>2 DEF SnapInv, Writable, Over, Active, Held, Polled, Dead, Settled, Unresolved

LEMMA CancelWriteStep ==
  ASSUME IndInv, NEW w \in Worker, CancelWrite(w)
  PROVE  Preserved
<1>0. PICK r \in Row : r = job[w].id
  BY DEF CancelWrite, IndInv, JobInv
<1>1. HasSnap(w) /\ job[w].snap \in RowRecord /\ venue[r].asked
  BY <1>0 DEF CancelWrite, IndInv, TypeOK, JobRecord, JobInv, HasSnap, SnapInv
<1> DEFINE rec == [job[w].snap EXCEPT !.status = CancelledStatus(job[w].snap)]
<1>2. rec \in RowRecord
  BY <1>1 DEF RowRecord, CancelledStatus, Status, Dead, Held
<1>3. Created(r) /\ Writable(r, rec)
  BY <1>0, <1>1, <1>2, SnapWritable DEF CancelledStatus, RowRecord
<1>4. row' = [row EXCEPT ![r] = rec]
  BY <1>0 DEF CancelWrite
<1> QED
  BY <1>2, <1>3, <1>4, WriteAndEnd DEF CancelWrite

LEMMA HoldRewriteStep ==
  ASSUME IndInv, NEW w \in Worker, HoldRewrite(w)
  PROVE  Preserved
<1>0. PICK r \in Row : r = job[w].id
  BY DEF HoldRewrite, IndInv, JobInv
<1>1. PICK rec \in RowRecord : HasSnap(w) /\ rec = job[w].snap
  BY DEF HoldRewrite, IndInv, TypeOK, JobRecord, HasSnap
<1>2. Created(r) /\ Writable(r, rec)
  BY <1>0, <1>1, SnapWritable
<1>3. row' = [row EXCEPT ![r] = rec]
  BY <1>0, <1>1 DEF HoldRewrite
<1>4. TypeOK' /\ row'[r] = rec
  BY <1>1, <1>3 DEF IndInv, TypeOK, HoldRewrite
<1>5. MovedRow(r)
  BY <1>2, <1>4, RowWritten DEF HoldRewrite
<1>6. \A r2 \in Row : SameRow(r2) \/ MovedRow(r2)
  BY <1>3, <1>5 DEF HoldRewrite, SameRow, IndInv, TypeOK
<1>7. \A w2 \in Worker : SameJob(w2) \/ MovedJob(w2)
  BY DEF HoldRewrite, SameJob
<1> QED
  BY <1>4, <1>6, <1>7, Framed

LEMMA ExitLinkStep ==
  ASSUME IndInv, NEW w \in Worker, ExitLink(w)
  PROVE  Preserved
<1>0. PICK r \in Row : r = job[w].id
  BY DEF ExitLink, IndInv, JobInv
<1> DEFINE s == job[w].sell
           snap == job[w].snap
<1>1. HasSnap(w) /\ snap \in RowRecord /\ s \in Row
  BY DEF ExitLink, IndInv, TypeOK, JobRecord, JobInv, HasSnap, SnapInv
<1>2. PICK rec \in {[snap EXCEPT !.partial = snap.partial \union {s}], [snap EXCEPT !.exit = s]} :
        row' = [row EXCEPT ![r] = rec]
  BY <1>0 DEF ExitLink
<1>3. rec \in RowRecord
  BY <1>1, <1>2 DEF RowRecord
<1>4. /\ rec.side = snap.side /\ rec.key = snap.key /\ rec.qty = snap.qty
      /\ rec.acct = snap.acct /\ rec.ext = snap.ext /\ rec.filled = snap.filled
      /\ rec.status = snap.status
  BY <1>1, <1>2 DEF RowRecord
<1>5. Created(r) /\ Writable(r, rec)
  BY <1>0, <1>1, <1>3, <1>4, SnapWritable
<1> QED
  BY <1>2, <1>3, <1>5, WriteAndEnd DEF ExitLink

\* sync_with_broker: a terminal answer is terminal at the venue.
LEMMA SyncStep ==
  ASSUME IndInv, NEW a \in Account, Sync(a)
  PROVE  Preserved
<1>1. PICK polled \in SUBSET {r \in Row : Pollable(r, a)} :
        row' = [r \in Row |-> IF r \in polled THEN MergeFill(r) ELSE row[r]]
  BY DEF Sync
<1>2. ASSUME NEW r \in polled
      PROVE  MergeFill(r) \in RowRecord /\ Created(r) /\ Writable(r, MergeFill(r))
  <2>1. /\ r \in Row /\ row[r].status \in Polled /\ RowInv(r) /\ Created(r)
        /\ row[r] \in RowRecord /\ venue[r] \in VenueRecord
    BY <1>2 DEF Pollable, IndInv, TypeOK, RowInv, Created, Polled
  <2>2. MaxOf(row[r].filled, venue[r].filled) = venue[r].filled
    BY <2>1, QueueAssumption DEF MaxOf, RowInv, Created, RowRecord, VenueRecord
  <2> DEFINE st == MergeFill(r).status
  <2>3. /\ MergeFill(r).side = row[r].side /\ MergeFill(r).key = row[r].key
        /\ MergeFill(r).qty = row[r].qty /\ MergeFill(r).ext = row[r].ext
        /\ MergeFill(r).acct = row[r].acct /\ MergeFill(r).filled = venue[r].filled
    BY <2>1, <2>2 DEF MergeFill, RowRecord
  <2>4. /\ st \in {"filled", "cancelled", "partially_filled_cancelled", "partially_filled",
                   "submitted"}
        /\ st \in {"filled", "cancelled", "partially_filled_cancelled"} => Over(r)
    BY <2>1 DEF MergeFill, FillStatus, RowRecord, Over
  <2>5. MergeFill(r) \in RowRecord
    BY <2>1, <2>2, <2>4 DEF MergeFill, RowRecord, VenueRecord, Status, Active, Polled, Held, Dead
  <2>6. venue[r].state # "none" /\ venue[r].filled \in Int
    BY <2>1 DEF RowInv, Created, Polled, Unresolved, VenueRecord
  <2>7. Writable(r, MergeFill(r))
    BY <2>3, <2>4, <2>6 DEF Writable, Active, Polled
  <2> QED BY <2>1, <2>5, <2>7
<1>3. TypeOK'
  BY <1>1, <1>2 DEF IndInv, TypeOK, Sync
<1>4. \A r \in Row : SameRow(r) \/ MovedRow(r)
  <2>1. ASSUME NEW r \in polled PROVE MovedRow(r)
    <3>1. r \in Row /\ row'[r] = MergeFill(r) /\ venue' = venue
      BY <1>1, <2>1 DEF Sync
    <3> QED BY <1>2, <3>1, RowWritten
  <2> QED
    BY <1>1, <2>1 DEF Sync, SameRow
<1>5. \A w \in Worker : SameJob(w) \/ MovedJob(w)
  BY DEF Sync, SameJob
<1> QED
  BY <1>3, <1>4, <1>5, Framed

\* archive_closed_orders: what a closed group moves is over at the venue.
LEMMA ArchiveStep ==
  ASSUME IndInv, Archive
  PROVE  Preserved
<1>1. PICK heads \in SUBSET {r \in Row : InQueue(r) /\ (GroupClosed(r) \/ InertSell(r))} :
        LET moved == UNION {Group(r) : r \in heads} IN
        /\ \A r \in moved : Quiet(r)
        /\ row' = [r \in Row |-> IF r \in moved THEN [row[r] EXCEPT !.status = "archived"]
                                                ELSE row[r]]
  BY DEF Archive
<1> DEFINE moved == UNION {Group(r) : r \in heads}
<1>2. ASSUME NEW r \in moved
      PROVE  r \in Row /\ row[r].status \in Held \union Dead /\ Quiet(r)
  <2>1. PICK b \in heads : r \in Group(b)
    BY <1>2
  <2>2. b \in Row /\ InQueue(b) /\ row[b] \in RowRecord /\ (GroupClosed(b) \/ InertSell(b))
    BY DEF IndInv, TypeOK
  <2>3. CASE r = b
    BY <1>1, <1>2, <2>2, <2>3 DEF GroupClosed, InertSell
  <2>4. CASE r # b
    <3>1. row[b].side = "buy" /\ r \in Links(b)
      BY <2>1, <2>4 DEF Group
    <3>2. r \in Row /\ InQueue(r) /\ row[r] \in RowRecord
      BY <2>2, <3>1 DEF Links, IndInv, TypeOK, RowRecord
    <3>3. row[r].status \notin Active
      BY <2>2, <3>1 DEF GroupClosed, InertSell, LinkedSellWorking
    <3> QED
      BY <1>1, <1>2, <3>2, <3>3 DEF RowRecord, Status, InQueue
  <2> QED BY <2>3, <2>4
<1>3. row' = [r \in Row |-> IF r \in moved THEN [row[r] EXCEPT !.status = "archived"]
                                             ELSE row[r]]
  BY <1>1
<1>4. TypeOK'
  <2>1. ASSUME NEW r \in Row PROVE [row[r] EXCEPT !.status = "archived"] \in RowRecord
    BY DEF IndInv, TypeOK, RowRecord, Status, Gone
  <2>2. row' \in [Row -> RowRecord]
    BY <1>3, <2>1 DEF IndInv, TypeOK
  <2> QED
    BY <2>2 DEF IndInv, TypeOK, Archive
<1>5. ASSUME NEW r \in moved PROVE MovedRow(r)
  <2>1. /\ r \in Row /\ row[r] \in RowRecord /\ row[r].status \in Held \union Dead
        /\ RowInv(r) /\ venue[r] \in VenueRecord
        /\ venue[r].state \notin {"wire", "open"}
    BY <1>2 DEF IndInv, TypeOK, Quiet
  <2>2. /\ row'[r] = [row[r] EXCEPT !.status = "archived"] /\ venue' = venue
        /\ venue[r].filled \in Int
    BY <1>3, <1>5, <2>1 DEF Archive, VenueRecord
  <2>3. Progress(r)
    BY <2>1, <2>2 DEF Progress, Over, RowRecord, Held, Dead
  <2>4. ~row[r].ext => Over(r)
    BY <2>1 DEF RowInv, Over, Created, Active, Held, Polled, Dead, Unresolved, VenueRecord
  <2>5. RowInv(r)'
    BY <2>1, <2>2, <2>4 DEF RowInv, Over, Created, RowRecord, Settled, Held, Dead, Polled
  <2> QED
    BY <2>1, <2>3, <2>5 DEF MovedRow, Held, Dead
<1>6. \A r \in Row : SameRow(r) \/ MovedRow(r)
  BY <1>3, <1>5 DEF Archive, SameRow
<1>7. \A w \in Worker : SameJob(w) \/ MovedJob(w)
  BY DEF Archive, SameJob
<1> QED
  BY <1>4, <1>6, <1>7, Framed

\* mark_externally_closed: the synthetic sell was never an order at the venue.
LEMMA MarkClosedStep ==
  ASSUME IndInv, NEW w \in Worker, NEW s \in Row, MarkClosed(w, s)
  PROVE  Preserved
<1>0. PICK b \in Row : b = job[w].id
  BY DEF MarkClosed, IndInv, JobInv
<1> DEFINE closed == [row[b] EXCEPT !.exit = s]
           synth  == [NewRow(row[b].key, "sell", row[b].acct, Remaining(b)) EXCEPT
                        !.status = "filled", !.filled = Remaining(b),
                        !.ref = TRUE, !.ext = TRUE]
<1>1. /\ row[b] \in RowRecord /\ venue[b].filled \in Int /\ venue[s].filled \in Int
      /\ RowInv(b) /\ RowInv(s) /\ Created(b) /\ row[b].status # "pending"
      /\ row[s].status = "absent" /\ row[s] = Blank /\ s # b /\ row[b].status # "archived"
  BY <1>0 DEF MarkClosed, IndInv, TypeOK, VenueRecord, JobInv, RowInv, Created, InQueue, Gone
<1>2. Remaining(b) \in Qty /\ Remaining(b) \in 0 .. MaxQty
  BY <1>0, RemainingType, QueueAssumption DEF MarkClosed, IndInv, Qty
<1>3. closed \in RowRecord
  BY <1>1 DEF RowRecord
<1>4. synth \in RowRecord
  BY <1>1, <1>2 DEF NewRow, Blank, RowRecord, Status, Held, Side
<1>5. row' = [row EXCEPT ![b] = closed, ![s] = synth] /\ venue' = venue
  BY <1>0, <1>1 DEF MarkClosed, IndInv, TypeOK
<1>6. row'[b] = closed /\ row'[s] = synth
  BY <1>1, <1>5 DEF IndInv, TypeOK
<1>7. TypeOK'
  BY <1>3, <1>4, <1>5, NoJobType DEF MarkClosed, IndInv, TypeOK, Idle, Step
<1>8. MovedRow(b)
  <2>1. Writable(b, closed)
    BY <1>1 DEF Writable, RowInv, Created, RowRecord
  <2> QED
    BY <1>1, <1>5, <1>6, <2>1, RowWritten
<1>9. MovedRow(s)
  <2>1. /\ synth.status = "filled" /\ synth.ext /\ synth.side = "sell"
        /\ Blank.acct = Unbound /\ venue[s].state = "none" /\ ~venue[s].asked
    BY <1>1 DEF NewRow, Blank, RowInv
  <2>2. Progress(s)
    BY <1>1, <1>5, <1>6, <2>1 DEF Progress, Over
  <2>3. venue[s].filled = 0
    BY <1>1, <2>1 DEF RowInv
  <2>4. RowInv(s)'
    BY <1>5, <1>6, <2>1, <2>3 DEF RowInv, Over, Created
  <2> QED
    BY <1>6, <2>1, <2>2, <2>4 DEF MovedRow, Created
<1>10. \A r \in Row : SameRow(r) \/ MovedRow(r)
  BY <1>5, <1>8, <1>9 DEF SameRow, IndInv, TypeOK
<1>11. \A w2 \in Worker : SameJob(w2) \/ MovedJob(w2)
  BY IdleJob DEF MarkClosed
<1> QED
  BY <1>7, <1>10, <1>11, Framed

-----------------------------------------------------------------------------
(* The steps that create an order, and the one that takes it up *)

Extended == IndInv' /\ \A r \in Row : Progress(r)

\* enqueue: a live order of the same slots would be active, and so would block.
LEMMA OrderCreated ==
  ASSUME IndInv, NEW r \in Row, NEW k \in Key, NEW d \in Side,
         NEW a \in Account \union {Unbound}, NEW q \in Qty,
         CanEnqueue(r, k, d, a), row' = [row EXCEPT ![r] = NewRow(k, d, a, q)],
         venue' = venue
  PROVE  /\ row' \in [Row -> RowRecord]
         /\ \A r2 \in Row : Progress(r2) /\ RowInv(r2)'
         /\ OneLiveOrder'
         /\ row'[r].status # "absent"
<1> DEFINE rec == NewRow(k, d, a, q)
<1>1. rec \in RowRecord
  BY NoJobType DEF NewRow, RowRecord, Status, Active
<1>2. /\ rec.status = "pending" /\ rec.side = d /\ rec.key = k /\ rec.acct = a
      /\ rec.qty = q /\ rec.filled = 0 /\ ~rec.ext
  BY DEF NewRow, Blank
<1>3. /\ row[r].status = "absent" /\ row[r].acct = Unbound /\ RowInv(r)
      /\ row'[r] = rec /\ row' \in [Row -> RowRecord] /\ venue[r].filled = 0
  BY <1>1 DEF CanEnqueue, IndInv, TypeOK, RowInv, Blank
<1>4. ASSUME NEW r2 \in Row, r2 # r PROVE row'[r2] = row[r2]
  BY <1>4 DEF IndInv, TypeOK
<1>5. ASSUME NEW r2 \in Row PROVE Progress(r2)
  <2>1. venue[r2].filled \in Int
    BY DEF IndInv, TypeOK, VenueRecord
  <2> QED
    BY <1>2, <1>3, <1>4, <2>1 DEF Progress, Over
<1>6. ASSUME NEW r2 \in Row PROVE RowInv(r2)'
  <2>1. CASE r2 = r
    BY <1>2, <1>3, <2>1 DEF RowInv, Over, Created, Active, Settled, Held, Dead
  <2>2. CASE r2 # r
    BY <1>4, <2>2 DEF IndInv, RowInv, Over, Created
  <2> QED BY <2>1, <2>2
<1>7. OneLiveOrder'
  <2> SUFFICES ASSUME NEW r1 \in Row, NEW r2 \in Row,
                      Live(r1)', Live(r2)', r1 # r2,
                      row'[r1].key = row'[r2].key, row'[r1].side = row'[r2].side
               PROVE  ~Overlaps(row'[r1].acct, row'[r2].acct)
    BY DEF OneLiveOrder
  <2>1. ASSUME NEW r3 \in Row, Live(r3)', r3 # r
        PROVE  Live(r3) /\ row[r3].status \in Active
    <3>1. Live(r3)
      BY <1>4, <2>1 DEF Live, Created
    <3>2. RowInv(r3) /\ venue[r3] \in VenueRecord
      BY DEF IndInv, TypeOK
    <3> QED BY <3>1, <3>2 DEF RowInv, Live, Over
  <2>2. CASE r1 # r /\ r2 # r
    BY <1>4, <2>1, <2>2 DEF IndInv, OneLiveOrder
  <2>3. CASE r2 = r
    BY <1>2, <1>3, <1>4, <2>1, <2>3 DEF CanEnqueue, Blocks, Overlaps
  <2>4. CASE r1 = r
    BY <1>2, <1>3, <1>4, <2>1, <2>4 DEF CanEnqueue, Blocks, Overlaps
  <2> QED BY <2>2, <2>3, <2>4
<1> QED
  BY <1>2, <1>3, <1>5, <1>6, <1>7

LEMMA EnqueueStep ==
  ASSUME IndInv, NEW r \in Row, NEW k \in Key, NEW a \in Account \union {Unbound},
         NEW q \in BuyQty, Enqueue(r, k, "buy", a, q)
  PROVE  Extended
<1>1. /\ row' \in [Row -> RowRecord]
      /\ \A r2 \in Row : Progress(r2) /\ RowInv(r2)'
      /\ OneLiveOrder'
  BY OrderCreated, QueueAssumption DEF Enqueue, Side, Qty
<1>2. TypeOK'
  BY <1>1 DEF IndInv, TypeOK, Enqueue
<1>3. \A w \in Worker : JobInv(w)'
  BY <1>1, <1>2, JobKept DEF Enqueue
<1>4. OneSubmitter'
  BY DEF IndInv, OneSubmitter, Enqueue
<1> QED
  BY <1>1, <1>2, <1>3, <1>4 DEF Extended, IndInv

LEMMA ExitEnqueueStep ==
  ASSUME IndInv, NEW w \in Worker, NEW s \in Row, NEW q \in Qty,
         NEW step \in {"linkPartial", "linkExit"}, ExitEnqueue(w, s, q, step)
  PROVE  Extended
<1>0. PICK r \in Row : r = job[w].id
  BY DEF ExitEnqueue, IndInv, JobInv
<1>1. /\ pc[w] = "held" /\ JobInv(w) /\ SnapInv(w) /\ job[w] \in JobRecord
      /\ job[w].snap.key \in Key /\ job[w].acct \in Account
  BY DEF ExitEnqueue, IndInv, TypeOK, JobInv, HasSnap, JobRecord, RowRecord
<1>2. /\ row' \in [Row -> RowRecord]
      /\ \A r2 \in Row : Progress(r2) /\ RowInv(r2)'
      /\ OneLiveOrder'
      /\ row'[s].status # "absent"
  BY <1>1, OrderCreated DEF ExitEnqueue, Side
<1>3. job' = [job EXCEPT ![w].sell = s] /\ pc' = [pc EXCEPT ![w] = step] /\ venue' = venue
  BY DEF ExitEnqueue
<1>4. TypeOK'
  <2>1. job' \in [Worker -> JobRecord]
    BY <1>1, <1>3 DEF IndInv, TypeOK, JobRecord
  <2> QED
    BY <1>2, <1>3, <2>1 DEF IndInv, TypeOK, Step
<1>5. /\ pc'[w] = step /\ job'[w].id = r /\ job'[w].acct = job[w].acct
      /\ job'[w].snap = job[w].snap /\ job'[w].sell = s
  BY <1>0, <1>1, <1>3 DEF IndInv, TypeOK, JobRecord
<1>6. /\ Progress(r) /\ Created(r) /\ row[r].acct = job[w].acct /\ row[r].acct # Unbound
      /\ row[r].status # "pending"
  BY <1>0, <1>1, <1>2, QueueAssumption DEF JobInv
<1>7. /\ row'[r].acct = row[r].acct /\ Created(r)' /\ row'[r].status # "pending"
      /\ row'[r].side = row[r].side /\ row'[r].key = row[r].key /\ row'[r].qty = row[r].qty
  BY <1>6 DEF Progress, Created
<1>8. SnapInv(w)'
  BY <1>0, <1>1, <1>2, <1>3, <1>5, <1>7 DEF SnapInv, Over
<1>9. JobInv(w)'
  BY <1>1, <1>5, <1>6, <1>7, <1>8 DEF JobInv
<1>10. ASSUME NEW w2 \in Worker PROVE JobInv(w2)'
  <2>1. CASE w2 = w BY <1>9, <2>1
  <2>2. CASE w2 # w
    <3>1. pc'[w2] = pc[w2] /\ job'[w2] = job[w2]
      BY <1>3, <2>2 DEF IndInv, TypeOK
    <3> QED BY <1>2, <1>4, <3>1, JobKept
  <2> QED BY <2>1, <2>2
<1>11. OneSubmitter'
  BY <1>3, <1>5 DEF IndInv, TypeOK, OneSubmitter
<1> QED
  BY <1>2, <1>4, <1>10, <1>11 DEF Extended, IndInv

\* approve: no other call is submitting the row, for it is still pending.
LEMMA ApproveBeginStep ==
  ASSUME IndInv, NEW w \in Worker, NEW r \in Row, NEW a \in Account, ApproveBegin(w, r, a)
  PROVE  IndInv' /\ NoneCreated /\ \A r2 \in Row : Progress(r2)
<1> DEFINE rec == [row[r] EXCEPT !.status = "submitting", !.acct = a]
<1>1. /\ row[r] \in RowRecord /\ RowInv(r) /\ row[r].status = "pending"
      /\ Overlaps(row[r].acct, a) /\ Created(r) /\ venue' = venue
  BY DEF ApproveBegin, Approvable, IndInv, TypeOK, RowInv, Created
<1>2. rec \in RowRecord /\ row' = [row EXCEPT ![r] = rec]
  BY <1>1 DEF ApproveBegin, IndInv, TypeOK, RowRecord, Status, Active, Unresolved
<1>3. Writable(r, rec)
  BY <1>1, QueueAssumption DEF Writable, Overlaps, RowInv, Created, RowRecord, Active,
    Unresolved, Settled, Held, Dead
<1>4. row'[r] = rec
  BY <1>2 DEF IndInv, TypeOK
<1>5. MovedRow(r)
  BY <1>1, <1>3, <1>4, RowWritten
<1>6. \A r2 \in Row : SameRow(r2) \/ MovedRow(r2)
  BY <1>1, <1>2, <1>5 DEF SameRow, IndInv, TypeOK
<1>7. TypeOK'
  BY <1>1, <1>2, NoJobType, QueueAssumption
  DEF ApproveBegin, Start, IndInv, TypeOK, Step, JobRecord
<1>8. pc'[w] = "send" /\ job'[w].id = r /\ job'[w].acct = a
  BY DEF ApproveBegin, Start, IndInv, TypeOK
<1>9. \A w2 \in Worker : w2 # w => SameJob(w2)
  BY DEF ApproveBegin, Start, IndInv, TypeOK, SameJob
<1>10. ASSUME NEW r2 \in Row PROVE Progress(r2) /\ RowInv(r2)'
  BY <1>6, FramedRow
<1>11. NoneCreated
  BY <1>6 DEF SameRow, MovedRow, NoneCreated, Created
<1>12. OneLiveOrder'
  BY <1>7, <1>10, <1>11, LiveOnlyShrinks
<1>13. ASSUME NEW w2 \in Worker PROVE JobInv(w2)'
  <2>1. CASE w2 = w
    <3>1. row'[r].acct = a /\ Created(r)' /\ row'[r].status # "pending"
      BY <1>1, <1>4 DEF Created, RowRecord
    <3> QED
      BY <1>8, <2>1, <3>1 DEF JobInv, HasSnap
  <2>2. CASE w2 # w
    BY <1>7, <1>9, <1>10, <2>2, JobKept DEF SameJob
  <2> QED BY <2>1, <2>2
<1>14. OneSubmitter'
  <2>1. ASSUME NEW w2 \in Worker, w2 # w, pc'[w2] \in {"send", "wait"} PROVE job'[w2].id # r
    BY <1>1, <1>9, <2>1 DEF SameJob, IndInv, JobInv
  <2> QED
    BY <1>8, <1>9, <2>1 DEF OneSubmitter, IndInv, SameJob
<1> QED
  BY <1>7, <1>10, <1>11, <1>12, <1>13, <1>14 DEF IndInv

-----------------------------------------------------------------------------
(* Every step of the system *)

\* A step that creates an order: one new row, nothing else of any row moves.
Creates(r, k, d, a, q) ==
  CanEnqueue(r, k, d, a) /\ row' = [row EXCEPT ![r] = NewRow(k, d, a, q)] /\ venue' = venue

\* Every step keeps the invariant, lets every order progress, and creates
\* either no order or just one, through the guard of enqueue.
LEMMA EveryStep ==
  ASSUME IndInv, [Next]_vars
  PROVE  /\ Extended
         /\ \/ NoneCreated
            \/ \E r \in Row, k \in Key, d \in Side, a \in Account \union {Unbound}, q \in Qty :
                 Creates(r, k, d, a, q)
<1> DEFINE Some == \E r \in Row, k \in Key, d \in Side, a \in Account \union {Unbound}, q \in Qty :
                      Creates(r, k, d, a, q)
           Goal == Extended /\ (NoneCreated \/ Some)
<1> SUFFICES Goal
  OBVIOUS
<1>1. ASSUME NEW r \in Row, NEW k \in Key, NEW a \in Account \union {Unbound},
             NEW q \in BuyQty, Enqueue(r, k, "buy", a, q)
      PROVE  Goal
  <2>1. "buy" \in Side /\ q \in Qty
    BY QueueAssumption DEF Side, Qty
  <2>2. Creates(r, k, "buy", a, q)
    BY <1>1 DEF Enqueue, Creates
  <2> QED
    BY <1>1, <2>1, <2>2, EnqueueStep
<1>2. ASSUME NEW w \in Worker, NEW s \in Row, NEW q \in Qty,
             NEW step \in {"linkPartial", "linkExit"}, ExitEnqueue(w, s, q, step)
      PROVE  Goal
  <2>1. "sell" \in Side /\ job[w].snap.key \in Key /\ job[w].acct \in Account \union {Unbound}
    BY DEF IndInv, TypeOK, JobRecord, RowRecord, Side
  <2>2. Creates(s, job[w].snap.key, "sell", job[w].acct, q)
    BY <1>2 DEF ExitEnqueue, Creates
  <2> QED
    BY <1>2, <2>1, <2>2, ExitEnqueueStep
<1>3. ASSUME UNCHANGED vars PROVE Goal
  <2>1. TypeOK'
    BY <1>3 DEF vars, IndInv, TypeOK
  <2>2. \A r \in Row : SameRow(r) \/ MovedRow(r)
    BY <1>3 DEF vars, SameRow
  <2>3. \A w \in Worker : SameJob(w) \/ MovedJob(w)
    BY <1>3 DEF vars, SameJob
  <2> QED
    BY <2>1, <2>2, <2>3, Framed DEF Preserved, Extended
<1>4. ASSUME NEW a \in Account, Sync(a) PROVE Goal
  BY <1>4, SyncStep DEF Preserved, Extended
<1>5. ASSUME Archive PROVE Goal
  BY <1>5, ArchiveStep DEF Preserved, Extended
<1>6. ASSUME NEW w \in Worker, NEW r \in Row, NEW a \in Account, ApproveBegin(w, r, a) PROVE Goal
  BY <1>6, ApproveBeginStep DEF Extended
<1>7. ASSUME NEW w \in Worker, NEW r \in Row, NEW a \in Account, RecoverBegin(w, r, a) PROVE Goal
  BY <1>7, RecoverBeginStep DEF Preserved, Extended
<1>8. ASSUME NEW w \in Worker, NEW r \in Row, NEW a \in Account, CancelBegin(w, r, a) PROVE Goal
  BY <1>8, CancelBeginStep DEF Preserved, Extended
<1>9. ASSUME NEW w \in Worker, NEW r \in Row, NEW a \in Account, HoldBegin(w, r, a) PROVE Goal
  BY <1>9, HoldBeginStep DEF Preserved, Extended
<1>10. ASSUME NEW w \in Worker, ApproveSend(w) PROVE Goal
  BY <1>10, ApproveSendStep DEF Preserved, Extended
<1>11. ASSUME NEW w \in Worker, ApproveEnd(w) PROVE Goal
  BY <1>11, ApproveEndStep DEF Preserved, Extended
<1>12. ASSUME NEW w \in Worker, ApproveFail(w) PROVE Goal
  BY <1>12, ApproveFailStep DEF Preserved, Extended
<1>13. ASSUME NEW w \in Worker, RecoverEnd(w) PROVE Goal
  BY <1>13, RecoverEndStep DEF Preserved, Extended
<1>14. ASSUME NEW w \in Worker, CancelSend(w) PROVE Goal
  BY <1>14, CancelSendStep DEF Preserved, Extended
<1>15. ASSUME NEW w \in Worker, CancelWrite(w) PROVE Goal
  BY <1>15, CancelWriteStep DEF Preserved, Extended
<1>16. ASSUME NEW w \in Worker, HoldRewrite(w) PROVE Goal
  BY <1>16, HoldRewriteStep DEF Preserved, Extended
<1>17. ASSUME NEW w \in Worker, ExitLink(w) PROVE Goal
  BY <1>17, ExitLinkStep DEF Preserved, Extended
<1>18. ASSUME NEW w \in Worker, Crash(w) PROVE Goal
  BY <1>18, CrashStep DEF Preserved, Extended
<1>19. ASSUME NEW w \in Worker, NEW s \in Row, MarkClosed(w, s) PROVE Goal
  BY <1>19, MarkClosedStep DEF Preserved, Extended
<1>20. ASSUME NEW r \in Row, NEW state \in {"open", "rejected"}, VenueDecide(r, state) PROVE Goal
  BY <1>20, VenueDecideStep DEF Preserved, Extended
<1>21. ASSUME NEW r \in Row, VenueFill(r) PROVE Goal
  BY <1>21, VenueFillStep DEF Preserved, Extended
<1>22. ASSUME NEW r \in Row, VenueCancel(r) PROVE Goal
  BY <1>22, VenueCancelStep DEF Preserved, Extended
<1>23. ASSUME NEW w \in Worker, ApproveRefused(w) PROVE Goal
  BY <1>23, ApproveRefusedStep DEF Preserved, Extended
<1>24. ASSUME NEW r \in Row, NEW a \in Account, RecoverRefused(r, a) PROVE Goal
  BY <1>24, RecoverRefusedStep DEF Preserved, Extended
<1> QED
  BY <1>1, <1>2, <1>3, <1>4, <1>5, <1>6, <1>7, <1>8, <1>9, <1>10, <1>11, <1>12,
    <1>13, <1>14, <1>15, <1>16, <1>17, <1>18, <1>19, <1>20, <1>21, <1>22, <1>23,
    <1>24 DEF Next

-----------------------------------------------------------------------------
(* Theorems *)

\* The inductive invariant holds in every reachable state.
THEOREM Invariance == Spec => []IndInv
<1>1. Init => IndInv
  BY InitIndInv
<1>2. IndInv /\ [Next]_vars => IndInv'
  BY EveryStep DEF Extended
<1> QED
  BY <1>1, <1>2, PTL DEF Spec

\* Every field of every row, venue order and call keeps to its range; fills never
\* exceed the largest order.
THEOREM TypeCorrect == Spec => []TypeOK
<1>1. IndInv => TypeOK
  BY DEF IndInv
<1> QED
  BY <1>1, Invariance, PTL

\* An order that can still trade is never written off by any interleaving of
\* approval, recovery, sync, stale writes, archive and crashes, but by a call
\* whose own settings refused it.
THEOREM LiveOrdersTracked == Spec => []LiveTracked
<1>1. IndInv => LiveTracked
  BY LiveIsNotOver DEF IndInv, RowInv, LiveTracked
<1> QED
  BY <1>1, Invariance, PTL

\* Two orders that can still trade, and that no call wrote off by itself, never
\* compete for one account, key and side.
THEOREM OneLiveOrderPerSlot == Spec => []OneLiveOrder
<1>1. IndInv => OneLiveOrder
  BY DEF IndInv
<1> QED
  BY <1>1, Invariance, PTL

\* No row is ever submitted by two calls at once.
THEOREM OneSubmitterPerRow == Spec => []OneSubmitter
<1>1. IndInv => OneSubmitter
  BY DEF IndInv
<1> QED
  BY <1>1, Invariance, PTL

\* The queue never counts a share that the venue did not trade.
THEOREM NoGhostFills == Spec => []NoGhostFill
<1>1. IndInv => NoGhostFill
  BY DEF IndInv, RowInv, NoGhostFill
<1> QED
  BY <1>1, Invariance, PTL

\* A settled sell that no call wrote off by itself carries exactly the shares
\* the venue sold.
THEOREM SettledSellsExact == Spec => []SettledSellExact
<1>1. IndInv => SettledSellExact
  BY DEF IndInv, RowInv, SettledSellExact, Settled
<1> QED
  BY <1>1, Invariance, PTL

\* Once bound, an order stays with its account.
THEOREM AccountsStable == Spec => AccountStable
<1>1. IndInv /\ [Next]_vars => \A r \in Row : row[r].acct # Unbound => row'[r].acct = row[r].acct
  BY EveryStep DEF Extended, Progress
<1> QED
  BY <1>1, Invariance, PTL DEF Spec, AccountStable

-----------------------------------------------------------------------------
(* The archive takes whole stories.  A link is what a row or an unfinished  *)
(* call's copy of it says; what makes a group safe to move is that no sell  *)
(* is ever named by two buys, and that no call is about an archived row.   *)

Linked(b, s) == s # NoRow /\ (s \in row[b].partial \/ s = row[b].exit)

InJob(w, s) ==
  /\ HasSnap(w) /\ s # NoRow
  /\ \/ s \in job[w].snap.partial
     \/ s = job[w].snap.exit
     \/ pc[w] \in {"linkPartial", "linkExit"} /\ s = job[w].sell

Names(b, s) == Linked(b, s) \/ \E w \in Worker : job[w].id = b /\ InJob(w, s)

LinkOK(b, s) ==
  /\ row[b].side = "buy" /\ row[b].status # "absent"
  /\ row[s].side = "sell" /\ row[s].status # "absent"
  /\ InQueue(b) => row[s].status # "archived"

\* A call is about a row of the queue.
OnJob(w) == pc[w] # "idle" => InQueue(job[w].id)

LinkInv ==
  /\ \A b, s \in Row : Names(b, s) => LinkOK(b, s)
  /\ \A b1, b2, s \in Row : Names(b1, s) /\ Names(b2, s) => b1 = b2
  /\ \A w \in Worker : OnJob(w)

\* The row does not leave the queue or come back to it.
Stays(r) ==
  /\ row'[r].status = "archived" => row[r].status = "archived"
  /\ InQueue(r)' => InQueue(r) \/ row[r].status = "absent"

\* A row, or a call, names at most what was named already, or the fresh sell s
\* that buy b adopts.
KnownRow(r, b, s) == \A t \in Row : Linked(r, t)' => Names(r, t) \/ (r = b /\ t = s)
KnownJob(w, b, s) ==
  \A t \in Row : InJob(w, t)' => Names(job'[w].id, t) \/ (job'[w].id = b /\ t = s)

\* Sell s has just been created for buy b.
Adopts(b, s) ==
  /\ b \in Row /\ s \in Row
  /\ row[b].side = "buy" /\ row[b].status # "absent"
  /\ row[s].status = "absent" /\ row'[s].side = "sell" /\ row'[s].status \notin Gone

\* If nothing is archived, it is enough that every name is an old one or that of
\* a sell created for the buy that now names it.
LEMMA LinksGrow ==
  ASSUME LinkInv, \A r \in Row : Progress(r) /\ Stays(r),
         NEW b, NEW s, Adopts(b, s) \/ (b = NoRow /\ s = NoRow),
         \A r \in Row : KnownRow(r, b, s),
         \A w \in Worker : KnownJob(w, b, s) /\ OnJob(w)'
  PROVE  LinkInv'
<1>1. ASSUME NEW r \in Row, NEW t \in Row, Names(r, t)'
      PROVE  Names(r, t) \/ (r = b /\ t = s)
  BY <1>1 DEF Names, KnownRow, KnownJob
<1>2. ASSUME NEW r \in Row, NEW t \in Row, Names(r, t) PROVE LinkOK(r, t)'
  <2>1. LinkOK(r, t)
    BY <1>2 DEF LinkInv
  <2>2. InQueue(r)' => InQueue(r)
    BY <2>1 DEF LinkOK, Stays
  <2> QED
    BY <2>1, <2>2 DEF LinkOK, Progress, Stays
<1>3. ASSUME Adopts(b, s) PROVE LinkOK(b, s)'
  BY <1>3 DEF Adopts, LinkOK, Progress, Gone
<1>4. ASSUME NEW r \in Row, Names(r, s), Adopts(b, s) PROVE FALSE
  BY <1>4 DEF LinkInv, LinkOK, Adopts
<1>5. \A r, t \in Row : Names(r, t)' => LinkOK(r, t)'
  BY <1>1, <1>2, <1>3, QueueAssumption
<1>6. \A b1, b2, t \in Row : Names(b1, t)' /\ Names(b2, t)' => b1 = b2
  BY <1>1, <1>4, QueueAssumption DEF LinkInv
<1> QED
  BY <1>5, <1>6 DEF LinkInv

LEMMA LinksKept ==
  ASSUME LinkInv, \A r \in Row : Progress(r) /\ Stays(r),
         \A r \in Row : KnownRow(r, NoRow, NoRow),
         \A w \in Worker : KnownJob(w, NoRow, NoRow) /\ OnJob(w)'
  PROVE  LinkInv'
BY LinksGrow

\* What a step leaves alone names what it named.
LEMMA SameKnown ==
  ASSUME NEW r \in Row, row'[r] = row[r], NEW b, NEW s
  PROVE  Stays(r) /\ KnownRow(r, b, s)
BY DEF Stays, InQueue, KnownRow, Linked, Names

LEMMA SameJobKnown ==
  ASSUME LinkInv, IndInv, \A r \in Row : Progress(r) /\ Stays(r),
         NEW w \in Worker, SameJob(w), NEW b, NEW s
  PROVE  KnownJob(w, b, s) /\ OnJob(w)'
<1>1. KnownJob(w, b, s)
  BY DEF SameJob, KnownJob, InJob, HasSnap, Names
<1>2. ASSUME pc[w] # "idle" PROVE InQueue(job[w].id)'
  <2>1. job[w].id \in Row /\ InQueue(job[w].id)
    BY <1>2 DEF LinkInv, OnJob, IndInv, JobInv
  <2>2. PICK r \in Row : r = job[w].id
    BY <2>1
  <2>3. InQueue(r) /\ row[r].status # "absent"
    BY <2>1, <2>2 DEF InQueue, Gone
  <2>4. InQueue(r)'
    BY <2>3 DEF InQueue, Gone, Progress, Stays
  <2>5. job'[w].id = r
    BY <2>2 DEF SameJob
  <2> QED
    BY <2>4, <2>5 DEF InQueue
<1>3. OnJob(w)'
  BY <1>2 DEF SameJob, OnJob
<1> QED
  BY <1>1, <1>3

LEMMA IdleKnown ==
  ASSUME NEW w \in Worker, pc'[w] = "idle", NEW b, NEW s
  PROVE  KnownJob(w, b, s) /\ OnJob(w)'
BY DEF KnownJob, InJob, HasSnap, OnJob

\* A call that ends.
LEMMA EndKnown ==
  ASSUME LinkInv, IndInv, \A r \in Row : Progress(r) /\ Stays(r),
         NEW w \in Worker, Idle(w), NEW b, NEW s
  PROVE  \A w2 \in Worker : KnownJob(w2, b, s) /\ OnJob(w2)'
<1>1. pc'[w] = "idle" /\ \A w2 \in Worker : w2 # w => SameJob(w2)
  BY DEF Idle, SameJob, IndInv, TypeOK
<1> QED
  BY <1>1, SameJobKnown, IdleKnown

\* A step of one call that names no more than its row or its copy did.
LEMMA OneCall ==
  ASSUME LinkInv, IndInv, \A r \in Row : Progress(r), row' = row,
         NEW w \in Worker, \A w2 \in Worker : w2 # w => SameJob(w2),
         KnownJob(w, NoRow, NoRow), OnJob(w)'
  PROVE  LinkInv'
<1>1. \A r \in Row : Stays(r) /\ KnownRow(r, NoRow, NoRow)
  BY SameKnown
<1> QED
  BY <1>1, SameJobKnown, LinksKept

\* A step that writes one row of the queue, which stays in the queue.
LEMMA OneWrite ==
  ASSUME LinkInv, IndInv, \A r \in Row : Progress(r),
         NEW r \in Row, InQueue(r), InQueue(r)', KnownRow(r, NoRow, NoRow),
         \A r2 \in Row : r2 # r => row'[r2] = row[r2],
         NEW w \in Worker, \A w2 \in Worker : w2 # w => SameJob(w2),
         KnownJob(w, NoRow, NoRow), OnJob(w)'
  PROVE  LinkInv'
<1>1. Stays(r)
  BY DEF Stays, InQueue, Gone
<1>2. \A r2 \in Row : Stays(r2) /\ KnownRow(r2, NoRow, NoRow)
  BY <1>1, SameKnown
<1> QED
  BY <1>2, SameJobKnown, LinksKept

\* A call that writes its row and ends.
LEMMA WriteEnds ==
  ASSUME LinkInv, IndInv, \A r \in Row : Progress(r),
         NEW w \in Worker, pc[w] # "idle", Idle(w),
         NEW r \in Row, r = job[w].id, KnownRow(r, NoRow, NoRow),
         NEW rec \in RowRecord, row' = [row EXCEPT ![r] = rec], rec.status \notin Gone
  PROVE  LinkInv'
<1>1. InQueue(r)
  BY DEF LinkInv, OnJob
<1>2. row'[r] = rec /\ \A r2 \in Row : r2 # r => row'[r2] = row[r2]
  BY DEF IndInv, TypeOK
<1>3. InQueue(r)'
  BY <1>2 DEF InQueue
<1>4. pc'[w] = "idle" /\ \A w2 \in Worker : w2 # w => SameJob(w2)
  BY DEF Idle, SameJob, IndInv, TypeOK
<1> QED
  BY <1>1, <1>2, <1>3, <1>4, IdleKnown, OneWrite

\* A status, fill or account written over the row leaves its links alone.
LEMMA SameLinks ==
  ASSUME NEW r \in Row, NEW rec, row'[r] = rec,
         rec.partial = row[r].partial, rec.exit = row[r].exit, NEW b, NEW s
  PROVE  KnownRow(r, b, s)
BY DEF KnownRow, Linked, Names

LEMMA ApproveBeginLinks ==
  ASSUME IndInv, LinkInv, \A r \in Row : Progress(r),
         NEW w \in Worker, NEW r \in Row, NEW a \in Account, ApproveBegin(w, r, a)
  PROVE  LinkInv'
<1>1. /\ row'[r].status = "submitting" /\ row'[r].partial = row[r].partial
      /\ row'[r].exit = row[r].exit /\ \A r2 \in Row : r2 # r => row'[r2] = row[r2]
  BY DEF ApproveBegin, IndInv, TypeOK, RowRecord
<1>2. KnownRow(r, NoRow, NoRow)
  BY <1>1, SameLinks
<1>3. InQueue(r) /\ InQueue(r)'
  BY <1>1 DEF ApproveBegin, Approvable, InQueue, Gone
<1>4. /\ pc'[w] = "send" /\ job'[w].id = r
      /\ \A w2 \in Worker : w2 # w => SameJob(w2)
  BY DEF ApproveBegin, Start, SameJob, IndInv, TypeOK
<1>5. KnownJob(w, NoRow, NoRow) /\ OnJob(w)'
  BY <1>3, <1>4 DEF KnownJob, InJob, HasSnap, OnJob, InQueue
<1> QED
  BY <1>1, <1>2, <1>3, <1>4, <1>5, OneWrite

LEMMA RecoverBeginLinks ==
  ASSUME IndInv, LinkInv, \A r \in Row : Progress(r),
         NEW w \in Worker, NEW r \in Row, NEW a \in Account, RecoverBegin(w, r, a)
  PROVE  LinkInv'
<1>1. /\ pc'[w] = "replay" /\ job'[w].id = r /\ row' = row /\ InQueue(r)
      /\ \A w2 \in Worker : w2 # w => SameJob(w2)
  BY DEF RecoverBegin, Start, SameJob, InQueue, Gone, Unresolved, IndInv, TypeOK
<1>2. KnownJob(w, NoRow, NoRow) /\ OnJob(w)'
  BY <1>1 DEF KnownJob, InJob, HasSnap, OnJob, InQueue
<1> QED
  BY <1>1, <1>2, OneCall

\* A call that copies its row names what the row names.
LEMMA CopyLinks ==
  ASSUME IndInv, LinkInv, \A r \in Row : Progress(r), row' = row,
         NEW w \in Worker, NEW r \in Row, InQueue(r), NEW a, NEW n,
         NEW step \in {"cancel", "held"}, Start(w, step, r, a, row[r], n)
  PROVE  LinkInv'
<1>1. /\ pc'[w] = step /\ job'[w].id = r /\ job'[w].snap = row[r]
      /\ \A w2 \in Worker : w2 # w => SameJob(w2)
  BY DEF Start, SameJob, IndInv, TypeOK
<1>2. KnownJob(w, NoRow, NoRow)
  BY <1>1 DEF KnownJob, InJob, Names, Linked
<1>3. OnJob(w)'
  BY <1>1 DEF OnJob, InQueue
<1> QED
  BY <1>1, <1>2, <1>3, OneCall

LEMMA CancelBeginLinks ==
  ASSUME IndInv, LinkInv, \A r \in Row : Progress(r),
         NEW w \in Worker, NEW r \in Row, NEW a \in Account, CancelBegin(w, r, a)
  PROVE  LinkInv'
BY CopyLinks DEF CancelBegin, Pollable, Polled, InQueue, Gone

LEMMA HoldBeginLinks ==
  ASSUME IndInv, LinkInv, \A r \in Row : Progress(r),
         NEW w \in Worker, NEW r \in Row, NEW a \in Account, HoldBegin(w, r, a)
  PROVE  LinkInv'
BY CopyLinks DEF HoldBegin, Held, InQueue, Gone

LEMMA ApproveSendLinks ==
  ASSUME IndInv, LinkInv, \A r \in Row : Progress(r),
         NEW w \in Worker, ApproveSend(w)
  PROVE  LinkInv'
<1>1. /\ pc[w] = "send" /\ pc'[w] = "wait" /\ job' = job /\ row' = row
      /\ \A w2 \in Worker : w2 # w => SameJob(w2)
  BY DEF ApproveSend, SameJob, IndInv, TypeOK
<1>2. KnownJob(w, NoRow, NoRow)
  BY <1>1 DEF KnownJob, InJob, HasSnap
<1>3. OnJob(w)'
  BY <1>1 DEF LinkInv, OnJob, InQueue
<1> QED
  BY <1>1, <1>2, <1>3, OneCall

LEMMA CancelSendLinks ==
  ASSUME IndInv, LinkInv, \A r \in Row : Progress(r),
         NEW w \in Worker, CancelSend(w)
  PROVE  LinkInv'
<1>1. /\ pc[w] = "cancel" /\ row' = row /\ \A w2 \in Worker : w2 # w => SameJob(w2)
  BY DEF CancelSend, Idle, SameJob, IndInv, TypeOK
<1>2. CASE pc' = [pc EXCEPT ![w] = "cancelWrite"] /\ UNCHANGED job
  <2>1. pc'[w] = "cancelWrite" /\ job' = job
    BY <1>2 DEF IndInv, TypeOK
  <2>2. KnownJob(w, NoRow, NoRow)
    BY <1>1, <2>1 DEF KnownJob, InJob, HasSnap, Names
  <2>3. OnJob(w)'
    BY <1>1, <2>1 DEF LinkInv, OnJob, InQueue
  <2> QED
    BY <1>1, <2>2, <2>3, OneCall
<1>3. CASE Idle(w)
  <2>1. pc'[w] = "idle"
    BY <1>3 DEF Idle, IndInv, TypeOK
  <2> QED
    BY <1>1, <2>1, IdleKnown, OneCall
<1> QED
  BY <1>2, <1>3 DEF CancelSend

LEMMA CrashLinks ==
  ASSUME IndInv, LinkInv, \A r \in Row : Progress(r),
         NEW w \in Worker, Crash(w)
  PROVE  LinkInv'
<1>1. pc'[w] = "idle" /\ row' = row /\ \A w2 \in Worker : w2 # w => SameJob(w2)
  BY DEF Crash, Idle, SameJob, IndInv, TypeOK
<1> QED
  BY <1>1, IdleKnown, OneCall

LEMMA ApproveEndLinks ==
  ASSUME IndInv, LinkInv, \A r \in Row : Progress(r),
         NEW w \in Worker, ApproveEnd(w)
  PROVE  LinkInv'
<1>0. PICK r \in Row : r = job[w].id
  BY DEF ApproveEnd, IndInv, JobInv
<1>1. row[r] \in RowRecord /\ row[r].acct = job[w].acct /\ pc[w] # "idle" /\ Idle(w)
  BY <1>0 DEF ApproveEnd, IndInv, TypeOK, JobInv
<1>2. ASSUME NEW rec \in {[row[r] EXCEPT !.status = "submitted", !.ref = TRUE],
                          [row[r] EXCEPT !.status = "rejected"]},
             row' = [row EXCEPT ![r] = rec]
      PROVE  LinkInv'
  <2>1. /\ rec \in RowRecord /\ rec.status \notin Gone
        /\ rec.partial = row[r].partial /\ rec.exit = row[r].exit
    BY <1>1 DEF RowRecord, Status, Active, Polled, Dead, Gone
  <2>2. row'[r] = rec
    BY <1>2 DEF IndInv, TypeOK
  <2> QED
    BY <1>0, <1>1, <1>2, <2>1, <2>2, SameLinks, WriteEnds
<1>3. CASE row' = [row EXCEPT ![r].status = "submitted", ![r].ref = TRUE,
                              ![r].acct = job[w].acct]
  <2>1. row' = [row EXCEPT ![r] = [row[r] EXCEPT !.status = "submitted", !.ref = TRUE]]
    BY <1>1, <1>3 DEF IndInv, TypeOK, RowRecord
  <2> QED
    BY <1>2, <2>1
<1>4. CASE row' = [row EXCEPT ![r].status = "rejected", ![r].acct = job[w].acct]
  <2>1. row' = [row EXCEPT ![r] = [row[r] EXCEPT !.status = "rejected"]]
    BY <1>1, <1>4 DEF IndInv, TypeOK, RowRecord
  <2> QED
    BY <1>2, <2>1
<1> QED
  BY <1>0, <1>3, <1>4 DEF ApproveEnd

LEMMA ApproveFailLinks ==
  ASSUME IndInv, LinkInv, \A r \in Row : Progress(r),
         NEW w \in Worker, ApproveFail(w)
  PROVE  LinkInv'
<1>0. PICK r \in Row : r = job[w].id
  BY DEF ApproveFail, IndInv, JobInv
<1>1. row[r] \in RowRecord /\ row[r].acct = job[w].acct /\ pc[w] # "idle" /\ Idle(w)
  BY <1>0 DEF ApproveFail, IndInv, TypeOK, JobInv
<1> DEFINE rec == [row[r] EXCEPT !.status = "unknown"]
<1>2. row' = [row EXCEPT ![r] = rec]
  BY <1>0, <1>1 DEF ApproveFail, FailedStatus, IndInv, TypeOK, RowRecord
<1>3. /\ rec \in RowRecord /\ rec.status \notin Gone
      /\ rec.partial = row[r].partial /\ rec.exit = row[r].exit
  BY <1>1 DEF RowRecord, Status, Active, Unresolved, Gone
<1> HIDE DEF rec
<1>4. row'[r] = rec
  BY <1>2 DEF IndInv, TypeOK
<1> QED
  BY <1>0, <1>1, <1>2, <1>3, <1>4, SameLinks, WriteEnds

LEMMA ApproveRefusedLinks ==
  ASSUME IndInv, LinkInv, \A r \in Row : Progress(r),
         NEW w \in Worker, ApproveRefused(w)
  PROVE  LinkInv'
<1>0. PICK r \in Row : r = job[w].id
  BY DEF ApproveRefused, IndInv, JobInv
<1>1. row[r] \in RowRecord /\ row[r].acct = job[w].acct /\ pc[w] # "idle" /\ Idle(w)
  BY <1>0 DEF ApproveRefused, IndInv, TypeOK, JobInv
<1> DEFINE rec == [row[r] EXCEPT !.status = "rejected"]
<1>2. row' = [row EXCEPT ![r] = rec]
  BY <1>0, <1>1 DEF ApproveRefused, IndInv, TypeOK, RowRecord
<1>3. /\ rec \in RowRecord /\ rec.status \notin Gone
      /\ rec.partial = row[r].partial /\ rec.exit = row[r].exit
  BY <1>1 DEF RowRecord, Status, Dead, Gone
<1> HIDE DEF rec
<1>4. row'[r] = rec
  BY <1>2 DEF IndInv, TypeOK
<1> QED
  BY <1>0, <1>1, <1>2, <1>3, <1>4, SameLinks, WriteEnds

LEMMA RecoverRefusedLinks ==
  ASSUME IndInv, LinkInv, \A r \in Row : Progress(r),
         NEW r \in Row, NEW a \in Account, RecoverRefused(r, a)
  PROVE  LinkInv'
<1>1. /\ row'[r].status = "rejected" /\ row'[r].partial = row[r].partial
      /\ row'[r].exit = row[r].exit /\ \A r2 \in Row : r2 # r => row'[r2] = row[r2]
  BY DEF RecoverRefused, IndInv, TypeOK, RowRecord
<1>2. KnownRow(r, NoRow, NoRow)
  BY <1>1, SameLinks
<1>3. Stays(r)
  BY <1>1 DEF RecoverRefused, StillUnresolved, Unresolved, Stays, InQueue, Gone
<1>4. \A r2 \in Row : Stays(r2) /\ KnownRow(r2, NoRow, NoRow)
  BY <1>1, <1>2, <1>3, SameKnown
<1>5. \A w \in Worker : SameJob(w)
  BY DEF RecoverRefused, SameJob
<1> QED
  BY <1>4, <1>5, SameJobKnown, LinksKept

LEMMA RecoverEndLinks ==
  ASSUME IndInv, LinkInv, \A r \in Row : Progress(r),
         NEW w \in Worker, RecoverEnd(w)
  PROVE  LinkInv'
<1>0. PICK r \in Row : r = job[w].id
  BY DEF RecoverEnd, IndInv, JobInv
<1>1. row[r] \in RowRecord
  BY DEF IndInv, TypeOK
<1>2. CASE row' = row
  <2>1. pc'[w] = "idle" /\ \A w2 \in Worker : w2 # w => SameJob(w2)
    BY DEF RecoverEnd, Idle, SameJob, IndInv, TypeOK
  <2> QED
    BY <1>2, <2>1, IdleKnown, OneCall
<1>3. ASSUME NEW rec \in {[row[r] EXCEPT !.status = "submitted", !.ref = TRUE],
                          [row[r] EXCEPT !.status = "rejected"]},
             row' = [row EXCEPT ![r] = rec]
      PROVE  LinkInv'
  <2>1. /\ rec \in RowRecord /\ rec.status \notin Gone
        /\ rec.partial = row[r].partial /\ rec.exit = row[r].exit
    <3>1. \A st \in {"submitted", "rejected"} : st \in Status /\ st \notin Gone
      BY DEF Status, Active, Polled, Dead, Unresolved, Gone
    <3>2. PICK st \in {"submitted", "rejected"}, ref \in BOOLEAN :
             rec = [row[r] EXCEPT !.status = st, !.ref = ref]
      <4>1. row[r].ref \in BOOLEAN
        BY <1>1 DEF RowRecord
      <4>2. [row[r] EXCEPT !.status = "rejected"]
              = [row[r] EXCEPT !.status = "rejected", !.ref = row[r].ref]
        BY <1>1 DEF RowRecord
      <4> QED BY <1>3, <4>1, <4>2, Zenon
    <3>3. rec \in RowRecord
      BY <1>1, <3>1, <3>2 DEF RowRecord
    <3>4. /\ rec.status = st /\ rec.partial = row[r].partial /\ rec.exit = row[r].exit
      BY <1>1, <3>2 DEF RowRecord
    <3> QED BY <3>1, <3>3, <3>4
  <2>2. row'[r] = rec
    BY <1>3 DEF IndInv, TypeOK
  <2> QED
    <3>1. pc[w] # "idle" /\ Idle(w)
      BY DEF RecoverEnd
    <3> QED BY <1>0, <1>3, <2>1, <2>2, <3>1, SameLinks, WriteEnds
<1>4. \/ row' = row
      \/ row' = [row EXCEPT ![r].status = "submitted", ![r].ref = TRUE]
      \/ row' = [row EXCEPT ![r].status = "rejected"]
  BY <1>0 DEF RecoverEnd
<1>5. ASSUME row' = [row EXCEPT ![r].status = "submitted", ![r].ref = TRUE]
      PROVE  row' = [row EXCEPT ![r] = [row[r] EXCEPT !.status = "submitted", !.ref = TRUE]]
  BY <1>1, <1>5 DEF IndInv, TypeOK, RowRecord
<1> QED
  BY <1>1, <1>2, <1>3, <1>4, <1>5

\* The copy a call writes back names nothing that the call did not name.
LEMMA SnapLinks ==
  ASSUME IndInv, NEW w \in Worker, HasSnap(w), NEW r \in Row, r = job[w].id,
         NEW rec, row'[r] = rec,
         \A t \in Row : t # NoRow /\ (t \in rec.partial \/ t = rec.exit) => InJob(w, t)
  PROVE  KnownRow(r, NoRow, NoRow)
BY DEF KnownRow, Linked, Names

LEMMA CancelWriteLinks ==
  ASSUME IndInv, LinkInv, \A r \in Row : Progress(r),
         NEW w \in Worker, CancelWrite(w)
  PROVE  LinkInv'
<1>0. PICK r \in Row : r = job[w].id
  BY DEF CancelWrite, IndInv, JobInv
<1>1. HasSnap(w) /\ job[w].snap \in RowRecord
  BY DEF CancelWrite, IndInv, TypeOK, JobRecord, HasSnap
<1>2. PICK rec : rec = [job[w].snap EXCEPT !.status = CancelledStatus(job[w].snap)]
  OBVIOUS
<1>3. /\ rec \in RowRecord /\ rec.status \notin Gone
      /\ rec.partial = job[w].snap.partial /\ rec.exit = job[w].snap.exit
  BY <1>1, <1>2 DEF RowRecord, CancelledStatus, Status, Dead, Held, Gone
<1>4. row' = [row EXCEPT ![r] = rec] /\ row'[r] = rec
  BY <1>0, <1>2 DEF CancelWrite, IndInv, TypeOK
<1>5. KnownRow(r, NoRow, NoRow)
  BY <1>0, <1>1, <1>3, <1>4, SnapLinks DEF InJob
<1> QED
  BY <1>0, <1>3, <1>4, <1>5, WriteEnds DEF CancelWrite

LEMMA ExitLinkLinks ==
  ASSUME IndInv, LinkInv, \A r \in Row : Progress(r),
         NEW w \in Worker, ExitLink(w)
  PROVE  LinkInv'
<1>0. PICK r \in Row : r = job[w].id
  BY DEF ExitLink, IndInv, JobInv
<1>1. PICK s, snap : s = job[w].sell /\ snap = job[w].snap
  OBVIOUS
<1>2. /\ HasSnap(w) /\ snap \in RowRecord /\ s \in Row /\ snap.status \notin Gone
      /\ pc[w] \in {"linkPartial", "linkExit"} /\ Idle(w)
  BY <1>1 DEF ExitLink, IndInv, TypeOK, JobRecord, JobInv, HasSnap, SnapInv, Held, Polled, Gone
<1>3. PICK rec \in {[snap EXCEPT !.partial = snap.partial \union {s}], [snap EXCEPT !.exit = s]} :
        row' = [row EXCEPT ![r] = rec]
  BY <1>0, <1>1 DEF ExitLink
<1>4. /\ rec \in RowRecord /\ rec.status = snap.status
      /\ rec.partial \subseteq snap.partial \union {s} /\ rec.exit \in {snap.exit, s}
  BY <1>2, <1>3 DEF RowRecord
<1>5. row'[r] = rec
  BY <1>3 DEF IndInv, TypeOK
<1>6. KnownRow(r, NoRow, NoRow)
  BY <1>0, <1>1, <1>2, <1>4, <1>5, SnapLinks DEF InJob
<1> QED
  BY <1>0, <1>2, <1>3, <1>4, <1>6, WriteEnds

LEMMA HoldRewriteLinks ==
  ASSUME IndInv, LinkInv, \A r \in Row : Progress(r),
         NEW w \in Worker, HoldRewrite(w)
  PROVE  LinkInv'
<1>0. PICK r \in Row : r = job[w].id
  BY DEF HoldRewrite, IndInv, JobInv
<1>1. PICK rec \in RowRecord : HasSnap(w) /\ rec = job[w].snap /\ rec.status \notin Gone
  BY DEF HoldRewrite, IndInv, TypeOK, JobRecord, JobInv, HasSnap, SnapInv, Held, Polled, Gone
<1>2. /\ row'[r] = rec /\ \A r2 \in Row : r2 # r => row'[r2] = row[r2]
  BY <1>0, <1>1 DEF HoldRewrite, IndInv, TypeOK
<1>3. KnownRow(r, NoRow, NoRow)
  BY <1>0, <1>1, <1>2, SnapLinks DEF InJob
<1>4. InQueue(r) /\ InQueue(r)'
  BY <1>0, <1>1, <1>2 DEF HoldRewrite, LinkInv, OnJob, InQueue
<1>5. \A w2 \in Worker : SameJob(w2)
  BY DEF HoldRewrite, SameJob
<1>6. Stays(r)
  BY <1>4 DEF Stays, InQueue, Gone
<1>7. \A r2 \in Row : Stays(r2) /\ KnownRow(r2, NoRow, NoRow)
  BY <1>2, <1>3, <1>6, SameKnown
<1> QED
  BY <1>5, <1>7, SameJobKnown, LinksKept

\* A new order names nothing; only a new exit is ever named, by the buy whose
\* holder created it.
LEMMA NewRowKnown ==
  ASSUME NEW r \in Row, row[r].status = "absent", row'[r].status # "archived",
         row'[r].partial = {}, row'[r].exit = NoRow, NEW b, NEW s
  PROVE  Stays(r) /\ KnownRow(r, b, s)
BY DEF Stays, KnownRow, Linked

LEMMA EnqueueLinks ==
  ASSUME IndInv, LinkInv, \A r \in Row : Progress(r),
         NEW r \in Row, NEW k \in Key, NEW a \in Account \union {Unbound},
         NEW q \in BuyQty, Enqueue(r, k, "buy", a, q)
  PROVE  LinkInv'
<1>1. /\ row[r].status = "absent" /\ row'[r].status = "pending"
      /\ row'[r].partial = {} /\ row'[r].exit = NoRow
      /\ \A r2 \in Row : r2 # r => row'[r2] = row[r2]
  BY DEF Enqueue, CanEnqueue, NewRow, Blank, IndInv, TypeOK
<1>2. \A r2 \in Row : Stays(r2) /\ KnownRow(r2, NoRow, NoRow)
  BY <1>1, NewRowKnown, SameKnown
<1>3. \A w \in Worker : SameJob(w)
  BY DEF Enqueue, SameJob
<1> QED
  BY <1>2, <1>3, SameJobKnown, LinksKept

LEMMA ExitEnqueueLinks ==
  ASSUME IndInv, LinkInv, \A r \in Row : Progress(r),
         NEW w \in Worker, NEW s \in Row, NEW q \in Qty,
         NEW step \in {"linkPartial", "linkExit"}, ExitEnqueue(w, s, q, step)
  PROVE  LinkInv'
<1>0. PICK b \in Row : b = job[w].id
  BY DEF ExitEnqueue, IndInv, JobInv
<1>1. /\ row[s].status = "absent" /\ row'[s].status = "pending" /\ row'[s].side = "sell"
      /\ row'[s].partial = {} /\ row'[s].exit = NoRow
      /\ \A r \in Row : r # s => row'[r] = row[r]
  BY DEF ExitEnqueue, CanEnqueue, NewRow, Blank, IndInv, TypeOK
<1>2. Adopts(b, s)
  <2>1. row[b].side = "buy" /\ row[b].status # "absent"
    BY <1>0 DEF ExitEnqueue, IndInv, JobInv, HasSnap, SnapInv, Created
  <2> QED
    BY <1>1, <2>1 DEF Adopts, Gone
<1>3. \A r \in Row : Stays(r) /\ KnownRow(r, b, s)
  BY <1>1, NewRowKnown, SameKnown
<1>4. /\ pc[w] = "held" /\ pc'[w] = step /\ job'[w].id = b /\ job'[w].sell = s
      /\ job'[w].snap = job[w].snap /\ \A w2 \in Worker : w2 # w => SameJob(w2)
  BY <1>0 DEF ExitEnqueue, SameJob, IndInv, TypeOK, JobRecord
<1>5. KnownJob(w, b, s)
  BY <1>0, <1>4 DEF KnownJob, InJob, HasSnap, Names
<1>6. OnJob(w)'
  <2>1. InQueue(b) /\ b # s
    BY <1>0, <1>1, <1>4 DEF LinkInv, OnJob, InQueue, Gone
  <2> QED
    BY <1>1, <1>4, <2>1 DEF OnJob, InQueue
<1>7. \A w2 \in Worker : KnownJob(w2, b, s) /\ OnJob(w2)'
  BY <1>3, <1>4, <1>5, <1>6, SameJobKnown
<1> QED
  BY <1>2, <1>3, <1>7, LinksGrow

LEMMA MarkClosedLinks ==
  ASSUME IndInv, LinkInv, \A r \in Row : Progress(r),
         NEW w \in Worker, NEW s \in Row, MarkClosed(w, s)
  PROVE  LinkInv'
<1>0. PICK b \in Row : b = job[w].id
  BY DEF MarkClosed, IndInv, JobInv
<1> DEFINE closed == [row[b] EXCEPT !.exit = s]
           synth  == [NewRow(row[b].key, "sell", row[b].acct, Remaining(b)) EXCEPT
                        !.status = "filled", !.filled = Remaining(b),
                        !.ref = TRUE, !.ext = TRUE]
<1>1. /\ row[b] \in RowRecord /\ row[b].side = "buy" /\ InQueue(b) /\ row[b].status # "absent"
      /\ row[s].status = "absent" /\ s # b
  BY <1>0 DEF MarkClosed, IndInv, TypeOK, JobInv, HasSnap, SnapInv, Created, InQueue, Gone
<1>2. row'[b] = closed /\ row'[s] = synth /\ \A r \in Row \ {b, s} : row'[r] = row[r]
  BY <1>0, <1>1 DEF MarkClosed, IndInv, TypeOK
<1>3. /\ row'[s].status = "filled" /\ row'[s].side = "sell"
      /\ row'[s].partial = {} /\ row'[s].exit = NoRow
  BY <1>2 DEF NewRow, Blank
<1>4. /\ row'[b].status = row[b].status /\ row'[b].partial = row[b].partial
      /\ row'[b].exit = s
  BY <1>1, <1>2 DEF RowRecord
<1>5. Adopts(b, s)
  BY <1>1, <1>3 DEF Adopts, Gone
<1>6. Stays(b) /\ KnownRow(b, b, s)
  BY <1>1, <1>4 DEF Stays, InQueue, KnownRow, Linked, Names
<1>7. \A r \in Row : Stays(r) /\ KnownRow(r, b, s)
  <2>1. Stays(s) /\ KnownRow(s, b, s)
    BY <1>1, <1>3, NewRowKnown
  <2>2. ASSUME NEW r \in Row \ {b, s} PROVE Stays(r) /\ KnownRow(r, b, s)
    BY <1>2, SameKnown
  <2> QED
    BY <1>6, <2>1, <2>2
<1>8. \A w2 \in Worker : KnownJob(w2, b, s) /\ OnJob(w2)'
  BY <1>7, EndKnown DEF MarkClosed
<1> QED
  BY <1>5, <1>7, <1>8, LinksGrow

LEMMA SyncLinks ==
  ASSUME IndInv, LinkInv, \A r \in Row : Progress(r),
         NEW a \in Account, Sync(a)
  PROVE  LinkInv'
<1>1. PICK polled \in SUBSET {r \in Row : Pollable(r, a)} :
        row' = [r \in Row |-> IF r \in polled THEN MergeFill(r) ELSE row[r]]
  BY DEF Sync
<1>2. ASSUME NEW r \in polled PROVE Stays(r) /\ KnownRow(r, NoRow, NoRow)
  <2>1. r \in Row /\ row[r] \in RowRecord /\ row[r].status \in Polled /\ row'[r] = MergeFill(r)
    BY <1>1, <1>2 DEF Pollable, IndInv, TypeOK
  <2>2. /\ MergeFill(r).partial = row[r].partial /\ MergeFill(r).exit = row[r].exit
        /\ MergeFill(r).status # "archived"
    BY <2>1 DEF MergeFill, FillStatus, RowRecord
  <2>3. Stays(r)
    BY <2>1, <2>2 DEF Stays, InQueue, Polled, Gone
  <2> QED
    BY <2>1, <2>2, <2>3, SameLinks
<1>3. \A r \in Row : Stays(r) /\ KnownRow(r, NoRow, NoRow)
  BY <1>1, <1>2, SameKnown
<1>4. \A w \in Worker : SameJob(w)
  BY DEF Sync, SameJob
<1> QED
  BY <1>3, <1>4, SameJobKnown, LinksKept

\* archive_closed_orders: a sell moves with the only buy that names it, or it is
\* a dead one that no buy of the queue names; and nobody is working on either.
LEMMA ArchiveLinks ==
  ASSUME IndInv, LinkInv, \A r \in Row : Progress(r), Archive
  PROVE  LinkInv'
<1>1. PICK heads \in SUBSET {r \in Row : InQueue(r) /\ (GroupClosed(r) \/ InertSell(r))} :
        LET moved == UNION {Group(r) : r \in heads} IN
        /\ \A r \in moved : Quiet(r)
        /\ row' = [r \in Row |-> IF r \in moved THEN [row[r] EXCEPT !.status = "archived"]
                                                ELSE row[r]]
  BY DEF Archive
<1>2. PICK moved : /\ moved = UNION {Group(r) : r \in heads}
                   /\ \A r \in moved : Quiet(r)
                   /\ row' = [r \in Row |-> IF r \in moved
                                            THEN [row[r] EXCEPT !.status = "archived"]
                                            ELSE row[r]]
  BY <1>1
<1>3. ASSUME NEW r \in Row
      PROVE  /\ row'[r].side = row[r].side /\ row'[r].partial = row[r].partial
             /\ row'[r].exit = row[r].exit
             /\ r \in moved => row'[r].status = "archived"
             /\ r \notin moved => row'[r] = row[r]
  BY <1>2 DEF IndInv, TypeOK, RowRecord
<1>4. pc' = pc /\ job' = job
  BY DEF Archive
<1>5. ASSUME NEW b \in Row, NEW s \in Row PROVE Names(b, s)' <=> Names(b, s)
  BY <1>3, <1>4 DEF Names, Linked, InJob, HasSnap
<1>6. ASSUME NEW w \in Worker, NEW s \in Row, InJob(w, s) PROVE s \notin moved
  BY <1>2, <1>6 DEF InJob, Quiet
<1>7. ASSUME NEW b \in Row, NEW s \in Row, Names(b, s), InQueue(b), s \in moved
      PROVE  b \in moved
  <2>1. PICK h \in heads : s \in Group(h)
    BY <1>2, <1>7
  <2>2. /\ h \in Row /\ InQueue(h) /\ (GroupClosed(h) \/ InertSell(h))
        /\ row[b].side = "buy" /\ row[s].side = "sell"
    BY <1>7 DEF LinkInv, LinkOK
  <2>3. Linked(b, s)
    BY <1>6, <1>7 DEF Names
  <2>4. CASE s = h
    BY <1>7, <2>2, <2>3, <2>4 DEF GroupClosed, InertSell, Referenced, Linked
  <2>5. CASE s # h
    <3>1. row[h].side = "buy" /\ s \in Links(h)
      BY <2>1, <2>5 DEF Group
    <3>2. Names(h, s)
      BY <3>1 DEF Links, Names, Linked
    <3>3. b = h
      BY <1>7, <2>2, <3>2 DEF LinkInv
    <3> QED
      BY <1>2, <2>1, <3>3 DEF Group
  <2> QED BY <2>4, <2>5
<1>8. ASSUME NEW b \in Row, NEW s \in Row, Names(b, s)' PROVE LinkOK(b, s)'
  <2>1. Names(b, s) /\ LinkOK(b, s)
    BY <1>5, <1>8 DEF LinkInv
  <2>2. b \notin moved => s \notin moved \/ ~InQueue(b)
    BY <1>7, <2>1
  <2> QED
    BY <1>3, <2>1, <2>2 DEF LinkOK, InQueue, Gone
<1>9. ASSUME NEW w \in Worker PROVE OnJob(w)'
  <2>1. CASE pc[w] = "idle"
    BY <1>4, <2>1 DEF OnJob
  <2>2. CASE pc[w] # "idle"
    <3>1. PICK r \in Row : r = job[w].id
      BY <2>2 DEF IndInv, JobInv
    <3>2. r \notin moved /\ InQueue(r)
      BY <1>2, <2>2, <3>1 DEF Quiet, LinkInv, OnJob
    <3> QED
      BY <1>3, <1>4, <3>1, <3>2 DEF OnJob, InQueue
  <2> QED BY <2>1, <2>2
<1> QED
  BY <1>5, <1>8, <1>9 DEF LinkInv

\* A step of the venue, or no step at all.
LEMMA QueueStill ==
  ASSUME IndInv, LinkInv, \A r \in Row : Progress(r), row' = row, pc' = pc, job' = job
  PROVE  LinkInv'
<1>1. \A r \in Row : Stays(r) /\ KnownRow(r, NoRow, NoRow)
  BY SameKnown
<1>2. \A w \in Worker : SameJob(w)
  BY DEF SameJob
<1> QED
  BY <1>1, <1>2, SameJobKnown, LinksKept

LEMMA EveryLink ==
  ASSUME IndInv, LinkInv, [Next]_vars
  PROVE  LinkInv'
<1>0. \A r \in Row : Progress(r)
  BY EveryStep DEF Extended
<1>1. ASSUME NEW r \in Row, NEW k \in Key, NEW a \in Account \union {Unbound},
             NEW q \in BuyQty, Enqueue(r, k, "buy", a, q)
      PROVE  LinkInv'
  BY <1>0, <1>1, EnqueueLinks
<1>2. ASSUME NEW a \in Account, Sync(a) PROVE LinkInv'
  BY <1>0, <1>2, SyncLinks
<1>3. ASSUME Archive PROVE LinkInv'
  BY <1>0, <1>3, ArchiveLinks
<1>4. ASSUME NEW w \in Worker, NEW r \in Row, NEW a \in Account,
             \/ ApproveBegin(w, r, a) \/ RecoverBegin(w, r, a)
             \/ CancelBegin(w, r, a) \/ HoldBegin(w, r, a)
      PROVE  LinkInv'
  BY <1>0, <1>4, ApproveBeginLinks, RecoverBeginLinks, CancelBeginLinks, HoldBeginLinks
<1>5. ASSUME NEW w \in Worker,
             \/ ApproveSend(w) \/ ApproveEnd(w) \/ ApproveFail(w) \/ RecoverEnd(w)
             \/ CancelSend(w) \/ CancelWrite(w) \/ HoldRewrite(w) \/ ExitLink(w)
             \/ Crash(w) \/ ApproveRefused(w)
      PROVE  LinkInv'
  BY <1>0, <1>5, ApproveSendLinks, ApproveEndLinks, ApproveFailLinks, RecoverEndLinks,
    ApproveRefusedLinks, CancelSendLinks, CancelWriteLinks, HoldRewriteLinks, ExitLinkLinks, CrashLinks
<1>6. ASSUME NEW w \in Worker, NEW s \in Row, NEW q \in Qty,
             NEW step \in {"linkPartial", "linkExit"}, ExitEnqueue(w, s, q, step)
      PROVE  LinkInv'
  BY <1>0, <1>6, ExitEnqueueLinks
<1>7. ASSUME NEW w \in Worker, NEW s \in Row, MarkClosed(w, s) PROVE LinkInv'
  BY <1>0, <1>7, MarkClosedLinks
<1>8. ASSUME row' = row, pc' = pc, job' = job PROVE LinkInv'
  BY <1>0, <1>8, QueueStill
<1>9. ASSUME NEW r \in Row, NEW state,
             VenueDecide(r, state) \/ VenueFill(r) \/ VenueCancel(r)
      PROVE  LinkInv'
  BY <1>8, <1>9 DEF VenueDecide, VenueFill, VenueCancel
<1>10. ASSUME UNCHANGED vars PROVE LinkInv'
  BY <1>8, <1>10 DEF vars
<1>11. ASSUME NEW r \in Row, NEW a \in Account, RecoverRefused(r, a) PROVE LinkInv'
  BY <1>0, <1>11, RecoverRefusedLinks
<1> QED
  BY <1>1, <1>2, <1>3, <1>4, <1>5, <1>6, <1>7, <1>9, <1>10, <1>11 DEF Next

\* Links are sound in every reachable state: a sell is named by one buy only, the
\* buy's row or a call's copy of it, and is never archived before that buy.
THEOREM LinksSound == Spec => []LinkInv
<1>1. Init => LinkInv
  BY DEF Init, Blank, NoJob, LinkInv, Names, Linked, InJob, HasSnap, OnJob
<1>2. IndInv /\ LinkInv /\ [Next]_vars => LinkInv'
  BY EveryLink
<1> QED
  BY <1>1, <1>2, Invariance, PTL DEF Spec

\* ArchiveWhole: while a buy is in the queue so is every sell it links to, and what
\* is archived can no longer trade, whatever stale copies are written back.
THEOREM ArchiveKeepsWholeStories == Spec => []ArchiveWhole
<1>1. IndInv /\ LinkInv => ArchiveWhole
  <2> SUFFICES ASSUME IndInv, LinkInv PROVE ArchiveWhole
    OBVIOUS
  <2>1. ASSUME NEW r \in Row, row[r].status = "archived" PROVE ~Live(r)
    <3>1. RowInv(r) /\ TypeOK
      BY DEF IndInv
    <3> QED
      BY <2>1, <3>1, LiveIsNotOver DEF RowInv, Active, Unresolved, Polled
  <2>2. ASSUME NEW r \in Row, InQueue(r), NEW s \in row[r].partial \union {row[r].exit},
               s # NoRow
        PROVE  row[s].status # "archived"
    <3>1. s \in Row
      BY <2>2 DEF IndInv, TypeOK, RowRecord
    <3> QED
      BY <2>2, <3>1 DEF LinkInv, LinkOK, Names, Linked
  <2> QED
    BY <2>1, <2>2 DEF ArchiveWhole
<1> QED
  BY <1>1, LinksSound, Invariance, PTL

-----------------------------------------------------------------------------
(* The queue implements OrderSlots. *)

Holds(r) == IF Live(r) THEN SlotsOf(r) ELSE {}

\* What the queue substitutes for the holdings of OrderSlots.
SlotsHeld == [r \in Row |-> IF Live(r) THEN SlotsOf(r) ELSE {}]

LEMMA SlotsType ==
  ASSUME TypeOK, NEW r \in Row
  PROVE  SlotsOf(r) \subseteq Account \X Key \X Side
<1>1. row[r].acct \in Account \union {Unbound} /\ row[r].key \in Key /\ row[r].side \in Side
  BY DEF TypeOK, RowRecord
<1> QED
  BY <1>1 DEF SlotsOf

\* An order that progresses keeps its slots or gives some of them up.
LEMMA SlotsShrink ==
  ASSUME IndInv, NEW r \in Row, Progress(r), Live(r)', ~(row[r].status = "absent"), TypeOK'
  PROVE  Live(r) /\ SlotsOf(r)' \subseteq SlotsOf(r)
<1>1. Live(r)
  BY DEF IndInv, TypeOK, VenueRecord, Progress, Live, Over, Created
<1>2. /\ row'[r].key = row[r].key /\ row'[r].side = row[r].side
      /\ row[r].acct # Unbound => row'[r].acct = row[r].acct
      /\ row'[r].acct \in Account \union {Unbound}
  BY DEF Progress, TypeOK, RowRecord
<1>3. SlotsOf(r)' \subseteq SlotsOf(r)
  BY <1>2, QueueAssumption DEF SlotsOf
<1> QED BY <1>1, <1>3

\* Rows that were not live before a creation stay so, but for the new one.
LEMMA YieldStep ==
  ASSUME IndInv, Extended, NoneCreated
  PROVE  Slots!Yield
<1>1. TypeOK /\ TypeOK'
  BY DEF IndInv, Extended
<1>2. \A r \in Row : Holds(r)' \subseteq Account \X Key \X Side
  BY <1>1, SlotsType DEF Holds, SlotsOf, TypeOK, RowRecord
<1>3. ASSUME NEW r \in Row PROVE Holds(r)' \subseteq Holds(r)
  <2>1. CASE Live(r)'
    <3>1. row[r].status # "absent"
      BY <2>1 DEF NoneCreated, Live
    <3> QED
      BY <1>1, <2>1, <3>1, SlotsShrink DEF Extended, Holds
  <2>2. CASE ~Live(r)'
    BY <2>2 DEF Holds
  <2> QED BY <2>1, <2>2
<1>4. \A r \in Row : Created(r)' <=> Created(r)
  BY DEF NoneCreated, Extended, Progress, Created
<1> QED
  BY <1>2, <1>3, <1>4 DEF Slots!Yield, Holds

LEMMA ClaimStep ==
  ASSUME IndInv, Extended,
         NEW r \in Row, NEW k \in Key, NEW d \in Side,
         NEW a \in Account \union {Unbound}, NEW q \in Qty, Creates(r, k, d, a, q)
  PROVE  \E S \in SUBSET (Account \X Key \X Side) : Slots!Claim(r, S)
<1> DEFINE S == (IF a = Unbound THEN Account ELSE {a}) \X {k} \X {d}
<1>1. /\ row'[r] = NewRow(k, d, a, q) /\ row[r].status = "absent" /\ venue' = venue
      /\ \A r2 \in Row : r2 # r => row'[r2] = row[r2]
      /\ venue[r].state = "none" /\ ~venue[r].asked /\ ~venue[r].overruled
  BY DEF Creates, CanEnqueue, IndInv, TypeOK, RowInv
<1>2. Live(r)' /\ SlotsOf(r)' = S /\ Created(r)' /\ ~Created(r) /\ ~Live(r)
  BY <1>1 DEF Live, Created, SlotsOf, NewRow, Blank
<1>3. \A r2 \in Row : r2 # r => Holds(r2)' = Holds(r2) /\ (Created(r2)' <=> Created(r2))
  BY <1>1 DEF Holds, Live, Created, SlotsOf
<1>4. ASSUME NEW r2 \in Row PROVE Holds(r2) \intersect S = {}
  <2>1. CASE ~Live(r2)
    BY <2>1 DEF Holds
  <2>2. CASE Live(r2)
    <3>1. row[r2].status \in Active
      BY <2>2, LiveIsNotOver DEF IndInv, RowInv
    <3>2. ~(row[r2].key = k /\ row[r2].side = d /\ Overlaps(row[r2].acct, a))
      BY <3>1 DEF Creates, CanEnqueue, Blocks
    <3> QED
      BY <2>2, <3>2 DEF Holds, SlotsOf, Overlaps
  <2> QED BY <2>1, <2>2
<1>5. S \in SUBSET (Account \X Key \X Side)
  OBVIOUS
<1>6. [r2 \in Row |-> Holds(r2)]' = [[r2 \in Row |-> Holds(r2)] EXCEPT ![r] = S]
  BY <1>2, <1>3 DEF Holds
<1>7. {r2 \in Row : Created(r2)}' = {r2 \in Row : Created(r2)} \union {r}
  BY <1>2, <1>3
<1> QED
  BY <1>2, <1>4, <1>5, <1>6, <1>7 DEF Slots!Claim, Holds

\* The queue implements the slot discipline, step by step: creations claim free
\* slots, and every other step of any process or of the venue only yields.
THEOREM QueueImplementsSlots == Spec => ImplementsSlots
<1>1. Init => Slots!Init
  BY DEF Init, Slots!Init, Live, Created, Blank
<1>2. IndInv /\ [Next]_vars => [Slots!Next]_(Slots!vars)
  BY EveryStep, YieldStep, ClaimStep DEF Slots!Next
<1> QED
  BY <1>1, <1>2, Invariance, PTL DEF Spec, ImplementsSlots, Slots!Spec

\* Disjoint holdings stay so when nobody gains.
LEMMA YieldKeepsApart ==
  ASSUME NEW h, NEW g,
         \A r1, r2 \in Row : r1 # r2 => h[r1] \intersect h[r2] = {},
         \A r \in Row : g[r] \subseteq h[r]
  PROVE  \A r1, r2 \in Row : r1 # r2 => g[r1] \intersect g[r2] = {}
OBVIOUS

\* What the abstract specification guarantees: no slot is ever held by two
\* orders.  An order that was never created holds nothing, which is what lets a
\* claim look only at what the other orders hold.
THEOREM SlotsExclusive == Slots!Spec => []Slots!Exclusive
<1> DEFINE Inv == SlotsHeld \in [Row -> SUBSET (Account \X Key \X Side)] /\ Slots!Exclusive
<1>1. Slots!Init => Inv
  BY DEF Slots!Init, Slots!Exclusive, SlotsHeld
<1>2. Inv /\ [Slots!Next]_(Slots!vars) => Inv'
  <2> SUFFICES ASSUME Inv, [Slots!Next]_(Slots!vars) PROVE Inv'
    OBVIOUS
  <2>1. \A r1, r2 \in Row : r1 # r2 => SlotsHeld[r1] \intersect SlotsHeld[r2] = {}
    BY DEF Slots!Exclusive, SlotsHeld
  <2>2. ASSUME NEW r \in Row, NEW S \in SUBSET (Account \X Key \X Side), Slots!Claim(r, S)
        PROVE  Inv'
    <3>1. /\ SlotsHeld' = [SlotsHeld EXCEPT ![r] = S]
          /\ \A r2 \in Row : SlotsHeld[r2] \intersect S = {}
      BY <2>2 DEF Slots!Claim, SlotsHeld
    <3> HIDE DEF SlotsHeld
    <3>2. \A r1, r2 \in Row : r1 # r2 => SlotsHeld'[r1] \intersect SlotsHeld'[r2] = {}
      BY <2>1, <3>1
    <3>3. Slots!Exclusive'
      BY <3>2 DEF Slots!Exclusive, SlotsHeld
    <3> QED
      BY <3>1, <3>3
  <2>3. CASE Slots!Yield
    <3>1. /\ SlotsHeld' \in [Row -> SUBSET (Account \X Key \X Side)]
          /\ \A r \in Row : SlotsHeld'[r] \subseteq SlotsHeld[r]
      BY <2>3 DEF Slots!Yield, SlotsHeld
    <3>2. \A r1, r2 \in Row : r1 # r2 => SlotsHeld'[r1] \intersect SlotsHeld'[r2] = {}
      BY <2>1, <3>1, YieldKeepsApart
    <3>3. Slots!Exclusive'
      BY <3>2 DEF Slots!Exclusive, SlotsHeld
    <3> QED
      BY <3>1, <3>3
  <2>4. CASE UNCHANGED Slots!vars
    <3>1. SlotsHeld' = SlotsHeld
      BY <2>4 DEF Slots!vars, SlotsHeld
    <3>2. Slots!Exclusive'
      BY <2>1, <3>1 DEF Slots!Exclusive, SlotsHeld
    <3> QED
      BY <3>1, <3>2
  <2> QED
    BY <2>2, <2>3, <2>4 DEF Slots!Next
<1>3. Inv => Slots!Exclusive
  OBVIOUS
<1> QED
  BY <1>1, <1>2, <1>3, PTL DEF Slots!Spec

\* So no account, key and side is ever held by two orders of the queue.
THEOREM QueueSlotsExclusive == Spec => []Slots!Exclusive
BY QueueImplementsSlots, SlotsExclusive, PTL DEF ImplementsSlots

=============================================================================
