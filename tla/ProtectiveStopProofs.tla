------------------------- MODULE ProtectiveStopProofs -------------------------
(***************************************************************************)
(* Proofs about ProtectiveStop for every set of stops and every number of   *)
(* shares and levels.  The types hold for any number of workers.  That no   *)
(* stop is orphaned, and none works beside the bot's own sell, holds as     *)
(* long as passes do not overlap: a pass works on a copy of the row, and    *)
(* the invariant says what the copy of the one pass under way still knows.  *)
(* So does that the bot sells no more than was bought, and that no write of *)
(* a copy takes the effective stop back down.                               *)
(***************************************************************************)
EXTENDS ProtectiveStop, TLAPS

-----------------------------------------------------------------------------
(* Types.  TypeOK is not inductive: a create must have a request to send,   *)
(* and an intent needs shares to protect.                                   *)

WorldOK ==
  /\ row \in RowRecord
  /\ exit \in ExitRecord
  /\ stop \in [Stop -> StopRecord]
  /\ window \in [Request -> Stop \union {NoStop}]
  /\ shares \in 0 .. Shares
  /\ low \in BOOLEAN
  /\ hole \in BOOLEAN
  /\ calm \in BOOLEAN

\* What a pass at step p carries in its locals j.
Ready(p, j) ==
  /\ p # "idle" => j.held > 0
  /\ p \in {"create", "store"} =>
       Pending(j.row) /\ j.then \in {"idle", "check", "release", "sync"}
  /\ p = "store" => j.new \in Stop

Typed ==
  /\ WorldOK
  /\ pc \in [Worker -> Stage]
  /\ job \in [Worker -> JobRecord]
  /\ \A w \in Worker : Ready(pc[w], job[w])

\* Only the pass of w moves.
Moves(w) ==
  /\ pc' \in [Worker -> Stage]
  /\ job' \in [Worker -> JobRecord]
  /\ \A v \in Worker : v # w => pc'[v] = pc[v] /\ job'[v] = job[v]

LEMMA NoJobType == NoJob \in JobRecord /\ Bare \in RowRecord
<1>1. Bare \in RowRecord
  BY StopAssumption DEF StopAssumption, Bare, RowRecord, Level
<1> QED
  BY <1>1, StopAssumption DEF StopAssumption, NoJob, JobRecord, Stage

LEMMA RemainingType ==
  ASSUME exit \in ExitRecord
  PROVE  Remaining \in 0 .. Shares
BY StopAssumption DEF StopAssumption, ExitRecord, Remaining

\* A pending row names a request.
LEMMA PendingKey ==
  ASSUME NEW r \in RowRecord, Pending(r)
  PROVE  Key(r) \in Request
BY StopAssumption DEF StopAssumption, Pending, Key, Request, Level, RowRecord

LEMMA TypedMove ==
  ASSUME Typed, WorldOK', NEW w \in Worker, Moves(w), Ready(pc'[w], job'[w])
  PROVE  Typed'
<1>1. ASSUME NEW v \in Worker PROVE Ready(pc'[v], job'[v])
  BY DEF Typed, Moves
<1> QED
  BY <1>1 DEF Typed, Moves

\* A pass ends or goes on with the locals it has.
LEMMA GotoMoves ==
  ASSUME Typed, NEW w \in Worker, pc[w] # "idle",
         NEW p \in Stage \ {"create", "store"}, Goto(w, p)
  PROVE  /\ Moves(w) /\ pc'[w] = p /\ Ready(pc'[w], job'[w])
         /\ p # "idle" => job'[w] = job[w]
<1>1. CASE p = "idle"
  BY <1>1, NoJobType DEF Goto, Typed, Moves, Ready
<1>2. CASE p # "idle"
  BY <1>2 DEF Goto, Typed, Moves, Ready
<1> QED
  BY <1>1, <1>2

LEMMA GotoTyped ==
  ASSUME Typed, WorldOK', NEW w \in Worker, pc[w] # "idle",
         NEW p \in Stage \ {"create", "store"}, Goto(w, p)
  PROVE  Typed'
BY GotoMoves, TypedMove

\* A create leaves its request with a stop: the one the venue remembers, or a
\* new one, which nothing names yet.
LEMMA ArmTyped ==
  ASSUME WorldOK, NEW k \in Request, Arm(k)
  PROVE  /\ stop' \in [Stop -> StopRecord]
         /\ window' \in [Request -> Stop \union {NoStop}]
         /\ window'[k] \in Stop
         /\ \A k2 \in Request : k2 # k => window'[k2] = window[k2]
         /\ \/ stop' = stop /\ window' = window
            \/ /\ window[k] = NoStop
               /\ \A s \in Stop : s # window'[k] => stop'[s] = stop[s]
<1>1. CASE window[k] # NoStop
  BY <1>1 DEF Arm, WorldOK
<1>2. CASE window[k] = NoStop
  <2>1. PICK s \in Stop : /\ stop' = [stop EXCEPT ![s] = [state |-> "watching", qty |-> k[2]]]
                          /\ window' = [window EXCEPT ![k] = s]
    <3> DEFINE s == CHOOSE s \in Free : TRUE
    <3>1. s \in Stop
      BY <1>2 DEF Arm, Free
    <3> QED
      BY <1>2, <3>1 DEF Arm
  <2>2. [state |-> "watching", qty |-> k[2]] \in StopRecord
    BY StopAssumption DEF StopAssumption, Request, StopRecord
  <2>3. window'[k] = s
    BY <2>1 DEF WorldOK
  <2> QED
    BY <1>2, <2>1, <2>2, <2>3 DEF WorldOK
<1> QED
  BY <1>1, <1>2

LEMMA CancelTyped ==
  ASSUME WorldOK, NEW s \in Stop, Cancel(s)
  PROVE  stop' \in [Stop -> StopRecord]
BY DEF WorldOK, Cancel, StopRecord

\* A pass starts with a copy of the row and with shares to protect or to sell.
LEMMA BeginMoves ==
  ASSUME Typed, NEW w \in Worker, NEW p \in Stage, NEW q \in 0 .. Shares, Begin(w, p, q),
         p = "create" => Pending(row), p # "store"
  PROVE  /\ Moves(w) /\ Ready(pc'[w], job'[w])
         /\ pc'[w] = p /\ job'[w].row = row /\ job'[w].then = "check"
         /\ exit.working = 0
<1>1. Remaining \in 0 .. Shares /\ Remaining > 0
  BY RemainingType DEF Begin, Typed, WorldOK
<1> DEFINE j == [NoJob EXCEPT !.row = row, !.held = Remaining, !.sell = q, !.then = "check"]
<1>2. /\ j \in JobRecord /\ j.row = row /\ j.held = Remaining /\ j.then = "check"
  BY <1>1, NoJobType DEF NoJob, JobRecord, Stage, Typed, WorldOK
<1>3. pc' = [pc EXCEPT ![w] = p] /\ job' = [job EXCEPT ![w] = j] /\ exit.working = 0
  BY DEF Begin
<1> HIDE DEF j
<1>4. Moves(w) /\ pc'[w] = p /\ job'[w] = j
  BY <1>2, <1>3 DEF Typed, Moves
<1> QED
  BY <1>1, <1>2, <1>3, <1>4 DEF Ready

LEMMA SameWorld ==
  ASSUME WorldOK, UNCHANGED <<row, exit, venue>>
  PROVE  WorldOK'
BY DEF WorldOK, venue, world

\* Where a pass goes after a failure or a release.
LEMMA NextStages ==
  ASSUME NEW w \in Worker
  PROVE  /\ AfterRelease(w) \in {"sell", "close"}
         /\ Abandon(w) \in {"idle", "close"}
         /\ AfterFailure(w) \in {"check", "idle", "close"}
BY DEF AfterRelease, Abandon, AfterFailure

LEMMA ForgottenType ==
  ASSUME NEW r \in RowRecord
  PROVE  /\ Forgotten(r) \in RowRecord
         /\ Forgotten(r).id = NoStop /\ ~Pending(Forgotten(r))
<1>1. 0 \in 0 .. MaxLevel /\ 0 \in 0 .. Shares
  BY StopAssumption DEF StopAssumption
<1> DEFINE r1 == [r EXCEPT !.id = NoStop]
           r2 == [r1 EXCEPT !.level = 0]
           r3 == [r2 EXCEPT !.qty = 0]
<1>2. r1 \in RowRecord /\ r1.id = NoStop
  BY DEF RowRecord
<1> HIDE DEF r1
<1>3. r2 \in RowRecord /\ r2.id = NoStop /\ r2.level = 0
  BY <1>1, <1>2 DEF RowRecord
<1> HIDE DEF r2
<1>4. r3 \in RowRecord /\ r3.id = NoStop /\ r3.level = 0
  BY <1>1, <1>3 DEF RowRecord
<1>5. Forgotten(r) = r3
  BY DEF Forgotten, r1, r2, r3
<1> HIDE DEF r3
<1> QED
  BY <1>4, <1>5 DEF Pending

\* A pass that creates holds a request.
LEMMA CreateKey ==
  ASSUME Typed, NEW w \in Worker, pc[w] \in {"create", "store"}
  PROVE  Key(job[w].row) \in Request
BY PendingKey DEF Typed, Ready, JobRecord

-----------------------------------------------------------------------------
(* Safety, for passes that do not overlap *)

\* At most one pass is under way, in whichever process.
Alone ==
  \A w1, w2 \in Worker : pc[w1] # "idle" /\ pc[w2] # "idle" => w1 = w2

NoneWorks == ~hole => \A s \in Stop : ~Working(s)

\* The row leads to the stop: by its id, or by the request that was pending.
Reachable(s) == row.id = s \/ (Pending(row) /\ window[Key(row)] = s)

Protected == ~hole => \A s \in Stop : Working(s) => Reachable(s)

Selling == exit.working > 0 => NoneWorks

\* The stages at which the copy still is the row.
Copying == {"create", "store", "check", "decide", "sync", "release", "forget"}

PassInv(w) ==
  /\ pc[w] # "idle" => exit.working = 0
  /\ pc[w] \in Copying => job[w].row = row
  /\ pc[w] = "store" /\ ~hole => \A s \in Stop : Working(s) => s = job[w].new
  /\ pc[w] = "forget" => row.id \in Stop /\ ~Working(row.id)
  /\ pc[w] = "rearm" =>
       \/ job[w].row = row /\ ~Pending(row)
       \/ job[w].row.id = NoStop /\ row.id \in Stop /\ ~Working(row.id)
  /\ pc[w] \in {"intent", "sell"} => NoneWorks

Safe == Protected /\ Selling /\ \A w \in Worker : PassInv(w)

Kept == Typed' /\ (Safe /\ Alone => Safe')

\* The step arms no stop.
Weakens == \A s \in Stop : Working(s)' => Working(s)

\* Only the pass under way has anything to keep.
LEMMA SafeMove ==
  ASSUME Safe, Alone, NEW w \in Worker, pc[w] # "idle", Moves(w),
         Protected', Selling', PassInv(w)'
  PROVE  Safe'
<1>1. ASSUME NEW v \in Worker, v # w PROVE PassInv(v)'
  <2>1. pc'[v] = "idle"
    BY <1>1 DEF Alone, Moves
  <2> QED
    BY <2>1 DEF PassInv, Copying
<1> QED
  BY <1>1 DEF Safe

\* A step that leaves the row, the bot's sells and the venue's memory alone, and
\* arms no stop, has only its own pass to care for.
LEMMA QuietStep ==
  ASSUME Safe, Alone, NEW w \in Worker, pc[w] # "idle", Moves(w),
         row' = row, exit' = exit, window' = window, hole' = hole, Weakens,
         PassInv(w)'
  PROVE  Safe'
<1>1. Protected'
  BY DEF Safe, Protected, Weakens, Reachable
<1>2. Selling'
  BY DEF Safe, Selling, NoneWorks, Weakens
<1> QED
  BY <1>1, <1>2, SafeMove

\* With a row that names no working stop, none works.
LEMMA NoneLeft ==
  ASSUME Protected, ~Pending(row), row.id \in Stop => ~Working(row.id)
  PROVE  NoneWorks
BY DEF Protected, Reachable, NoneWorks

LEMMA CancelWeakens ==
  ASSUME WorldOK, NEW s \in Stop, Cancel(s)
  PROVE  Weakens /\ ~Working(s)' /\ window' = window /\ hole' = hole
BY DEF WorldOK, Cancel, Weakens, Working, Engaged, world, StopRecord

\* A pass that ends keeps nothing; one that goes on to a stage where the copy
\* is the row, or where nothing is left to keep, keeps just that.
LEMMA QuietGoto ==
  ASSUME Typed, NEW w \in Worker, pc[w] # "idle",
         NEW p \in Stage \ {"create", "store", "forget", "rearm"}, Goto(w, p),
         row' = row, exit' = exit, window' = window, hole' = hole, Weakens, WorldOK',
         p \in Copying => pc[w] \in Copying,
         p \in {"intent", "sell"} => (Safe => NoneWorks')
  PROVE  Kept
<1>1. /\ Moves(w) /\ pc'[w] = p /\ Ready(pc'[w], job'[w])
      /\ p # "idle" => job'[w] = job[w]
  BY GotoMoves
<1>2. Typed'
  BY <1>1, TypedMove
<1>3. ASSUME Safe, Alone PROVE Safe'
  <2>1. PassInv(w)
    BY <1>3 DEF Safe
  <2>2. PassInv(w)'
    BY <1>1, <1>3, <2>1 DEF PassInv, Copying
  <2> QED
    BY <1>1, <1>3, <2>2, QuietStep
<1> QED
  BY <1>2, <1>3 DEF Kept

LEMMA VenueSame ==
  ASSUME UNCHANGED venue
  PROVE  window' = window /\ hole' = hole /\ Weakens
BY DEF venue, world, Weakens, Working

-----------------------------------------------------------------------------
(* The steps of a pass *)

\* manage_open_positions, trigger_forced_exit, reconcile: nobody sells, and the
\* copy is the row.
LEMMA BeginStep ==
  ASSUME Typed, NEW w \in Worker, NEW p \in {"create", "check", "release"},
         NEW q \in 0 .. Shares, Begin(w, p, q), p = "create" => Pending(row)
  PROVE  Kept
<1>1. p \in Stage /\ p \in Copying /\ p # "store" /\ p # "forget"
  BY DEF Stage, Copying
<1>2. /\ Moves(w) /\ Ready(pc'[w], job'[w])
      /\ pc'[w] = p /\ job'[w].row = row /\ exit.working = 0
  BY <1>1, BeginMoves
<1>3. row' = row /\ exit' = exit /\ UNCHANGED venue
  BY DEF Begin
<1>4. window' = window /\ hole' = hole /\ Weakens /\ stop' = stop
  BY <1>3, VenueSame DEF venue
<1>5. Typed'
  BY <1>2, <1>3, SameWorld, TypedMove DEF Typed
<1>6. ASSUME Safe PROVE Safe'
  <2>1. Protected' /\ Selling'
    BY <1>3, <1>4, <1>6 DEF Safe, Protected, Selling, NoneWorks, Weakens, Reachable
  <2>2. PassInv(w)'
    BY <1>1, <1>2, <1>3 DEF PassInv
  <2>3. ASSUME NEW v \in Worker, v # w PROVE PassInv(v)'
    BY <1>2, <1>3, <1>4, <1>6, <2>3 DEF Moves, Safe, PassInv, NoneWorks, Working
  <2> QED
    BY <2>1, <2>2, <2>3 DEF Safe
<1> QED
  BY <1>5, <1>6 DEF Kept

\* The create of a stop leaves it with the request the row has pending.
LEMMA ArmProtects ==
  ASSUME Typed, Safe, NEW w \in Worker, pc[w] = "create",
         Arm(Key(job[w].row)), row' = row, hole' = hole
  PROVE  /\ Protected'
         /\ ~hole => \A s \in Stop : Working(s)' => s = window'[Key(job[w].row)]
<1> DEFINE k == Key(job[w].row)
<1>1. k \in Request
  BY CreateKey
<1>2. job[w].row = row /\ Pending(row)
  BY DEF Safe, PassInv, Copying, Typed, Ready
<1> SUFFICES ASSUME ~hole, NEW s \in Stop, Working(s)'
             PROVE  s = window'[k]
  BY <1>1, <1>2 DEF Protected, Reachable
<1>3. /\ window'[k] \in Stop
      /\ \/ stop' = stop /\ window' = window
         \/ window[k] = NoStop /\ \A s2 \in Stop : s2 # window'[k] => stop'[s2] = stop[s2]
  BY <1>1, ArmTyped DEF Typed
<1>4. Working(s) => s = window[k]
  BY <1>2, StopAssumption DEF StopAssumption, Safe, Protected, Reachable, Pending
<1> QED
  BY <1>3, <1>4, StopAssumption DEF StopAssumption, Working

\* While a pass creates, nothing is being sold.
LEMMA CreateNotSelling ==
  ASSUME Safe, NEW w \in Worker, pc[w] # "idle", exit' = exit
  PROVE  Selling'
BY DEF Safe, PassInv, Selling

LEMMA CreateOkStep ==
  ASSUME Typed, NEW w \in Worker, CreateOk(w)
  PROVE  Kept
<1> DEFINE k == Key(job[w].row)
<1>1. /\ pc[w] = "create" /\ Arm(k) /\ row' = row /\ exit' = exit /\ hole' = hole
      /\ UNCHANGED world
      /\ pc' = [pc EXCEPT ![w] = "store"] /\ job' = [job EXCEPT ![w].new = window'[k]]
  BY DEF CreateOk, world
<1>2. k \in Request
  BY <1>1, CreateKey
<1>3. /\ stop' \in [Stop -> StopRecord]
      /\ window' \in [Request -> Stop \union {NoStop}] /\ window'[k] \in Stop
  BY <1>1, <1>2, ArmTyped DEF Typed
<1> HIDE DEF k
<1>4. /\ Moves(w) /\ pc'[w] = "store" /\ job'[w].new = window'[k]
      /\ job'[w].row = job[w].row /\ job'[w].then = job[w].then /\ job'[w].held = job[w].held
  BY <1>1, <1>3 DEF Typed, Moves, Stage, JobRecord
<1>5. Ready(pc'[w], job'[w])
  BY <1>1, <1>3, <1>4 DEF Typed, Ready
<1>6. Typed'
  BY <1>1, <1>3, <1>4, <1>5, TypedMove DEF Typed, WorldOK, world
<1>7. ASSUME Safe, Alone PROVE Safe'
  <2>1. /\ Protected'
        /\ ~hole => \A s \in Stop : Working(s)' => s = window'[k]
    BY <1>1, <1>7, ArmProtects DEF k
  <2>2. Selling'
    BY <1>1, <1>7, CreateNotSelling
  <2>3. PassInv(w)'
    BY <1>1, <1>4, <1>7, <2>1 DEF Safe, PassInv, Copying
  <2> QED
    BY <1>1, <1>4, <1>7, <2>1, <2>2, <2>3, SafeMove
<1> QED
  BY <1>6, <1>7 DEF Kept

LEMMA CreateLostStep ==
  ASSUME Typed, NEW w \in Worker, CreateLost(w)
  PROVE  Kept
<1> DEFINE k == Key(job[w].row)
           p == AfterFailure(w)
<1>1. /\ pc[w] = "create" /\ Arm(k) /\ row' = row /\ exit' = exit /\ hole' = hole
      /\ UNCHANGED world /\ Goto(w, p)
  BY DEF CreateLost, world
<1>2. k \in Request
  BY <1>1, CreateKey
<1>3. /\ stop' \in [Stop -> StopRecord]
      /\ window' \in [Request -> Stop \union {NoStop}]
  BY <1>1, <1>2, ArmTyped DEF Typed
<1>4. p \in {"check", "idle", "close"}
  BY NextStages
<1>5. p \in Stage \ {"create", "store"}
  BY <1>4 DEF Stage
<1>6. /\ Moves(w) /\ pc'[w] = p /\ Ready(pc'[w], job'[w])
      /\ p # "idle" => job'[w] = job[w]
  BY <1>1, <1>5, GotoMoves
<1>7. Typed'
  BY <1>1, <1>3, <1>6, TypedMove DEF Typed, WorldOK, world
<1>8. ASSUME Safe, Alone PROVE Safe'
  <2>1. Protected' /\ Selling'
    BY <1>1, <1>8, ArmProtects, CreateNotSelling
  <2>2. PassInv(w)'
    BY <1>1, <1>4, <1>6, <1>8 DEF Safe, PassInv, Copying
  <2> QED
    BY <1>1, <1>6, <1>8, <2>1, <2>2, SafeMove
<1> QED
  BY <1>7, <1>8 DEF Kept

\* A step that changes nothing but the stage of its pass.
LEMMA IdleWorldGoto ==
  ASSUME Typed, NEW w \in Worker, pc[w] # "idle",
         NEW p \in Stage \ {"create", "store", "forget", "rearm"}, Goto(w, p),
         UNCHANGED <<row, exit, venue>>,
         p \in Copying => pc[w] \in Copying,
         p \in {"intent", "sell"} => (Safe => NoneWorks)
  PROVE  Kept
<1>1. WorldOK' /\ row' = row /\ exit' = exit /\ window' = window /\ hole' = hole /\ Weakens
  BY SameWorld, VenueSame DEF Typed
<1>2. NoneWorks => NoneWorks'
  BY <1>1 DEF NoneWorks, Weakens
<1> QED
  BY <1>1, <1>2, QuietGoto

LEMMA CreateFailStep ==
  ASSUME Typed, NEW w \in Worker, CreateFail(w)
  PROVE  Kept
<1>1. AfterFailure(w) \in {"check", "idle", "close"}
  BY NextStages
<1>2. AfterFailure(w) \in Stage \ {"create", "store", "forget", "rearm"}
  BY <1>1 DEF Stage
<1> QED
  BY <1>1, <1>2, IdleWorldGoto DEF CreateFail, Copying

LEMMA CheckStep ==
  ASSUME Typed, NEW w \in Worker, CheckOk(w) \/ CheckFail(w)
  PROVE  Kept
<1>1. PICK p \in {"idle", "decide"} :
        pc[w] = "check" /\ Goto(w, p) /\ UNCHANGED <<row, exit, venue>>
  BY DEF CheckOk, CheckFail
<1>2. p \in Stage \ {"create", "store", "forget", "rearm"}
  BY DEF Stage
<1> QED
  BY <1>1, <1>2, IdleWorldGoto DEF Copying

LEMMA ReleaseNothingStep ==
  ASSUME Typed, NEW w \in Worker, ReleaseNothing(w)
  PROVE  Kept
<1>1. AfterRelease(w) \in {"sell", "close"}
  BY NextStages
<1>2. AfterRelease(w) \in Stage \ {"create", "store", "forget", "rearm"}
  BY <1>1 DEF Stage
<1>3. ASSUME Safe PROVE NoneWorks
  <2>1. job[w].row = row /\ ~Pending(row) /\ row.id = NoStop
    BY <1>3 DEF ReleaseNothing, Safe, PassInv, Copying
  <2> QED
    BY <1>3, <2>1, NoneLeft, StopAssumption DEF Safe, StopAssumption
<1> QED
  BY <1>1, <1>2, <1>3, IdleWorldGoto DEF ReleaseNothing, Copying

LEMMA SellFailStep ==
  ASSUME Typed, NEW w \in Worker, SellFail(w)
  PROVE  Kept
<1>1. "idle" \in Stage \ {"create", "store", "forget", "rearm"}
  BY DEF Stage
<1> QED
  BY <1>1, IdleWorldGoto DEF SellFail, Copying

LEMMA SyncStatusFailStep ==
  ASSUME Typed, NEW w \in Worker, SyncStatusFail(w)
  PROVE  Kept
<1>1. "idle" \in Stage \ {"create", "store", "forget", "rearm"}
  BY DEF Stage
<1> QED
  BY <1>1, IdleWorldGoto DEF SyncStatusFail, Copying

LEMMA CrashStep ==
  ASSUME Typed, NEW w \in Worker, Crash(w)
  PROVE  Kept
<1>1. "idle" \in Stage \ {"create", "store", "forget", "rearm"}
  BY DEF Stage
<1> QED
  BY <1>1, IdleWorldGoto DEF Crash, Copying

\* A pass that changes one of its locals, and goes on with the row it has.
LEMMA LocalStep ==
  ASSUME Typed, NEW w \in Worker, pc[w] # "idle", Moves(w),
         UNCHANGED <<row, exit, venue>>, Ready(pc'[w], job'[w]),
         pc'[w] \notin {"store", "forget", "rearm", "intent", "sell"},
         pc[w] \in Copying, job'[w].row = job[w].row
  PROVE  Kept
<1>1. WorldOK' /\ row' = row /\ exit' = exit /\ window' = window /\ hole' = hole /\ Weakens
  BY SameWorld, VenueSame DEF Typed
<1>2. Typed'
  BY <1>1, TypedMove
<1>3. ASSUME Safe, Alone PROVE Safe'
  <2>1. PassInv(w)'
    BY <1>1, <1>3 DEF Safe, PassInv
  <2> QED
    BY <1>1, <1>3, <2>1, QuietStep
<1> QED
  BY <1>2, <1>3 DEF Kept

LEMMA LeaveStep ==
  ASSUME Typed, NEW w \in Worker, NEW q \in 1 .. Shares, Leave(w, q)
  PROVE  Kept
<1>1. PICK n \in 0 .. Shares : job' = [job EXCEPT ![w].sell = n]
  <2>1. PICK answered \in {TRUE, calm} :
          job' = [job EXCEPT ![w].sell = IF answered /\ shares < q THEN shares ELSE q]
    BY DEF Leave
  <2>2. \E n \in 0 .. Shares : n = IF answered /\ shares < q THEN shares ELSE q
    BY StopAssumption DEF StopAssumption, Typed, WorldOK
  <2> QED
    BY <2>1, <2>2
<1>2. pc[w] = "decide" /\ pc' = [pc EXCEPT ![w] = "release"] /\ UNCHANGED <<row, exit, venue>>
  BY DEF Leave
<1>3. /\ Moves(w) /\ pc'[w] = "release"
      /\ job'[w].row = job[w].row /\ job'[w].held = job[w].held
  BY <1>1, <1>2 DEF Typed, Moves, Stage, JobRecord
<1>4. Ready(pc'[w], job'[w])
  BY <1>2, <1>3 DEF Typed, Ready
<1> QED
  BY <1>2, <1>3, <1>4, LocalStep DEF Copying

LEMMA ResolveStep ==
  ASSUME Typed, NEW w \in Worker, Resolve(w)
  PROVE  Kept
<1>1. /\ pc[w] \in {"release", "sync"} /\ Pending(job[w].row)
      /\ pc' = [pc EXCEPT ![w] = "create"] /\ job' = [job EXCEPT ![w].then = pc[w]]
      /\ UNCHANGED <<row, exit, venue>>
  BY DEF Resolve
<1>2. /\ Moves(w) /\ pc'[w] = "create" /\ job'[w].then = pc[w]
      /\ job'[w].row = job[w].row /\ job'[w].held = job[w].held
  BY <1>1 DEF Typed, Moves, Stage, JobRecord
<1>3. Ready(pc'[w], job'[w])
  BY <1>1, <1>2 DEF Typed, Ready
<1> QED
  BY <1>1, <1>2, <1>3, LocalStep DEF Copying

\* The cancel that is confirmed leaves the row naming a dead stop.
LEMMA ReleaseOkStep ==
  ASSUME Typed, NEW w \in Worker, ReleaseOk(w)
  PROVE  Kept
<1>1. /\ pc[w] = "release" /\ Cancel(job[w].row.id) /\ Goto(w, "forget")
      /\ row' = row /\ exit' = exit
  BY DEF ReleaseOk
<1>2. PICK s \in Stop : s = job[w].row.id
  BY DEF ReleaseOk, Typed, JobRecord, RowRecord
<1>3. /\ stop' \in [Stop -> StopRecord] /\ Weakens /\ ~Working(s)'
      /\ window' = window /\ hole' = hole /\ UNCHANGED world
  BY <1>1, <1>2, CancelTyped, CancelWeakens DEF Typed, Cancel
<1>4. "forget" \in Stage \ {"create", "store"}
  BY DEF Stage
<1>5. Moves(w) /\ pc'[w] = "forget" /\ Ready(pc'[w], job'[w]) /\ job'[w] = job[w]
  BY <1>1, <1>4, GotoMoves
<1>6. WorldOK'
  BY <1>1, <1>3 DEF Typed, WorldOK, world
<1>7. ASSUME Safe, Alone PROVE Safe'
  <2>1. job[w].row = row /\ exit.working = 0
    BY <1>1, <1>7 DEF Safe, PassInv, Copying
  <2>2. PassInv(w)'
    BY <1>1, <1>2, <1>3, <1>5, <2>1 DEF PassInv
  <2> QED
    BY <1>1, <1>3, <1>5, <1>7, <2>2, QuietStep
<1> QED
  BY <1>5, <1>6, <1>7, TypedMove DEF Kept

\* A cancel that failed, or whose answer is lost, ends the sell; a close goes on.
LEMMA FailedCancelStep ==
  ASSUME Typed, NEW w \in Worker, pc[w] # "idle", NEW p \in {"idle", "close"}, Goto(w, p),
         row' = row, exit' = exit,
         UNCHANGED venue \/ Cancel(job[w].row.id), job[w].row.id # NoStop
  PROVE  Kept
<1>1. job[w].row.id \in Stop
  BY DEF Typed, JobRecord, RowRecord
<1>2. WorldOK' /\ window' = window /\ hole' = hole /\ Weakens
  <2>1. CASE UNCHANGED venue
    BY <2>1, SameWorld, VenueSame DEF Typed
  <2>2. CASE Cancel(job[w].row.id)
    BY <1>1, <2>2, CancelTyped, CancelWeakens DEF Typed, WorldOK, Cancel, world
  <2> QED
    BY <2>1, <2>2
<1>3. p \in Stage \ {"create", "store", "forget", "rearm"} /\ p \notin Copying
  BY DEF Stage, Copying
<1> QED
  BY <1>2, <1>3, QuietGoto

LEMMA ReleaseFailStep ==
  ASSUME Typed, NEW w \in Worker, ReleaseFail(w)
  PROVE  Kept
BY FailedCancelStep, NextStages DEF ReleaseFail

LEMMA RearmFailStep ==
  ASSUME Typed, NEW w \in Worker, RearmFail(w)
  PROVE  Kept
BY FailedCancelStep DEF RearmFail

\* The row takes the id: the only stop that works is the one it now names.
LEMMA StoreStep ==
  ASSUME Typed, NEW w \in Worker, Store(w)
  PROVE  Kept
<1>1. PICK s \in Stop : s = job[w].new
  BY DEF Store, Typed, Ready
<1>2. PICK r \in RowRecord : r = job[w].row
  BY DEF Typed, JobRecord
<1>3. PICK r1 \in RowRecord : r1 = [r EXCEPT !.id = s] /\ r1.id = s
  <2>1. [r EXCEPT !.id = s] \in RowRecord /\ [r EXCEPT !.id = s].id = s
    BY DEF RowRecord
  <2> QED
    BY <2>1
<1>4. job[w].then \in {"idle", "check", "release", "sync"} /\ job[w].held > 0
  BY DEF Store, Typed, Ready
<1>5. /\ pc[w] = "store" /\ row' = r1 /\ pc' = [pc EXCEPT ![w] = job[w].then]
      /\ exit' = exit /\ stop' = stop /\ window' = window /\ hole' = hole
      /\ UNCHANGED world
  BY <1>1, <1>2, <1>3 DEF Store, venue, world
<1>6. PICK j \in JobRecord : /\ job' = [job EXCEPT ![w] = j]
                             /\ job[w].then # "idle" => j.row = r1 /\ j.held = job[w].held
  <2>1. CASE job[w].then = "idle"
    BY <2>1, NoJobType DEF Store
  <2>2. CASE job[w].then # "idle"
    <3> DEFINE j1 == [job[w] EXCEPT !.row = r1]
               j2 == [j1 EXCEPT !.new = NoStop]
    <3>1. j1 \in JobRecord /\ j1.row = r1 /\ j1.held = job[w].held
      BY <1>3 DEF Typed, JobRecord
    <3> HIDE DEF j1
    <3>2. j2 \in JobRecord /\ j2.row = r1 /\ j2.held = job[w].held
      BY <3>1 DEF JobRecord
    <3>3. job' = [job EXCEPT ![w] = j2]
      BY <1>1, <1>2, <1>3, <2>2 DEF Store, j1
    <3> HIDE DEF j2
    <3> QED
      BY <3>2, <3>3
  <2> QED
    BY <2>1, <2>2
<1>7. Moves(w) /\ pc'[w] = job[w].then /\ job'[w] = j
  BY <1>4, <1>5, <1>6 DEF Typed, Moves, Stage
<1>8. Ready(pc'[w], job'[w])
  BY <1>4, <1>6, <1>7 DEF Ready
<1>9. WorldOK'
  BY <1>3, <1>5 DEF Typed, WorldOK, world
<1>10. ASSUME Safe, Alone PROVE Safe'
  <2>1. exit.working = 0 /\ (~hole => \A s2 \in Stop : Working(s2) => s2 = s)
    BY <1>1, <1>5, <1>10 DEF Safe, PassInv
  <2>2. Protected'
    BY <1>3, <1>5, <2>1 DEF Protected, Reachable, Working
  <2>3. Selling'
    BY <1>5, <1>10, CreateNotSelling
  <2>4. PassInv(w)'
    BY <1>4, <1>5, <1>6, <1>7, <2>1 DEF PassInv, Copying
  <2> QED
    BY <1>5, <1>7, <1>10, <2>2, <2>3, <2>4, SafeMove
<1> QED
  BY <1>7, <1>8, <1>9, <1>10, TypedMove DEF Kept

\* The trail of the row may rise; what it says of the stop stays.
LEMMA HoldStep ==
  ASSUME Typed, NEW w \in Worker, Hold(w)
  PROVE  Kept
<1>1. PICK t \in Level :
        IF t = job[w].row.trail THEN Goto(w, "sync") /\ UNCHANGED row
        ELSE Persist(w, [job[w].row EXCEPT !.trail = t], "sync")
  BY DEF Hold
<1>2. pc[w] = "decide" /\ UNCHANGED <<exit, venue>>
  BY DEF Hold
<1>3. CASE t = job[w].row.trail
  <2>1. "sync" \in Stage \ {"create", "store", "forget", "rearm"}
    BY DEF Stage
  <2> QED
    BY <1>1, <1>2, <1>3, <2>1, IdleWorldGoto DEF Copying
<1>4. CASE t # job[w].row.trail
  <2>1. PICK r \in RowRecord : r = job[w].row
    BY DEF Typed, JobRecord
  <2>2. PICK r1 \in RowRecord : /\ r1 = [r EXCEPT !.trail = t]
                                /\ r1.id = r.id /\ r1.level = r.level /\ r1.qty = r.qty
    <3>1. /\ [r EXCEPT !.trail = t] \in RowRecord
          /\ [r EXCEPT !.trail = t].id = r.id /\ [r EXCEPT !.trail = t].level = r.level
          /\ [r EXCEPT !.trail = t].qty = r.qty
      BY DEF RowRecord
    <3> QED
      BY <3>1
  <2>3. /\ row' = r1 /\ pc' = [pc EXCEPT ![w] = "sync"] /\ job' = [job EXCEPT ![w].row = r1]
    BY <1>1, <1>4, <2>1, <2>2 DEF Persist
  <2>4. /\ Moves(w) /\ pc'[w] = "sync" /\ job'[w].row = r1 /\ job'[w].held = job[w].held
    <3>1. /\ pc' \in [Worker -> Stage] /\ pc'[w] = "sync"
          /\ \A v \in Worker : v # w => pc'[v] = pc[v]
      BY <2>3 DEF Typed, Stage
    <3>2. /\ job' \in [Worker -> JobRecord]
          /\ job'[w].row = r1 /\ job'[w].held = job[w].held
          /\ \A v \in Worker : v # w => job'[v] = job[v]
      BY <2>2, <2>3 DEF Typed, JobRecord
    <3> QED
      BY <3>1, <3>2 DEF Moves
  <2>5. Ready(pc'[w], job'[w])
    BY <1>2, <2>4 DEF Typed, Ready
  <2>6. /\ WorldOK' /\ exit' = exit /\ stop' = stop /\ window' = window /\ hole' = hole
    BY <1>2, <2>2, <2>3 DEF Typed, WorldOK, venue, world
  <2>7. ASSUME Safe, Alone PROVE Safe'
    <3>1. row = r /\ exit.working = 0
      BY <1>2, <2>1, <2>7 DEF Safe, PassInv, Copying
    <3>2. Protected'
      BY <2>2, <2>3, <2>6, <2>7, <3>1 DEF Safe, Protected, Reachable, Working, Pending, Key
    <3>3. Selling'
      BY <2>6, <3>1 DEF Selling
    <3>4. PassInv(w)'
      BY <2>3, <2>4, <2>6, <3>1 DEF PassInv
    <3> QED
      BY <1>2, <2>4, <2>7, <3>2, <3>3, <3>4, SafeMove
  <2> QED
    BY <2>4, <2>5, <2>6, <2>7, TypedMove DEF Kept
<1> QED
  BY <1>3, <1>4

\* What _forget leaves: the copy without the stop, and a row that either went
\* the same way or, when its write failed, still names the stop.
LEMMA ForgetEffect ==
  ASSUME Typed, NEW w \in Worker, pc[w] # "idle",
         NEW p \in Stage \ {"idle", "create", "store"}, ForgetStop(w, p)
  PROVE  /\ Moves(w) /\ pc'[w] = p /\ Ready(pc'[w], job'[w])
         /\ job'[w].row = Forgotten(job[w].row)
         /\ row' \in {row, Forgotten(job[w].row)} /\ row' \in RowRecord
<1> DEFINE r == Forgotten(job[w].row)
<1>1. r \in RowRecord
  BY ForgottenType DEF Typed, JobRecord
<1>2. /\ row' \in {row, r} /\ pc' = [pc EXCEPT ![w] = p] /\ job' = [job EXCEPT ![w].row = r]
  BY DEF ForgetStop
<1> HIDE DEF r
<1>3. /\ Moves(w) /\ pc'[w] = p /\ job'[w].row = r /\ job'[w].held = job[w].held
  BY <1>1, <1>2 DEF Typed, Moves, JobRecord
<1>4. Ready(pc'[w], job'[w])
  BY <1>3 DEF Typed, Ready
<1> QED
  BY <1>1, <1>2, <1>3, <1>4 DEF Typed, WorldOK, r

LEMMA ForgetStep ==
  ASSUME Typed, NEW w \in Worker, Forget(w)
  PROVE  Kept
<1> DEFINE r == Forgotten(job[w].row)
<1>1. pc[w] = "forget" /\ UNCHANGED <<exit, venue>> /\ ForgetStop(w, AfterRelease(w))
  BY DEF Forget
<1>2. AfterRelease(w) \in {"sell", "close"}
  BY NextStages
<1>3. AfterRelease(w) \in Stage \ {"idle", "create", "store"}
  BY <1>2 DEF Stage
<1>4. /\ Moves(w) /\ pc'[w] = AfterRelease(w) /\ Ready(pc'[w], job'[w])
      /\ row' \in {row, r} /\ row' \in RowRecord
  BY <1>1, <1>3, ForgetEffect
<1>5. /\ WorldOK' /\ exit' = exit /\ stop' = stop /\ window' = window /\ hole' = hole
  BY <1>1, <1>4 DEF Typed, WorldOK, venue, world
<1>6. ASSUME Safe, Alone PROVE Safe'
  <2>1. row.id \in Stop /\ ~Working(row.id) /\ exit.working = 0
    BY <1>1, <1>6 DEF Safe, PassInv
  <2>2. NoneWorks
    BY <1>6, <2>1, NoneLeft, StopAssumption DEF StopAssumption, Safe, Pending
  <2>3. NoneWorks'
    BY <1>5, <2>2 DEF NoneWorks, Working
  <2>4. Protected' /\ Selling'
    BY <1>5, <2>2, <2>3 DEF Protected, NoneWorks, Selling, Working
  <2>5. PassInv(w)'
    BY <1>2, <1>4, <1>5, <2>1, <2>3 DEF PassInv, Copying
  <2> QED
    BY <1>1, <1>4, <1>6, <2>4, <2>5, SafeMove
<1> QED
  BY <1>4, <1>5, <1>6, TypedMove DEF Kept

\* sync: a dead stop is forgotten, and then nothing the row leads to works.
LEMMA SyncStatusStep ==
  ASSUME Typed, NEW w \in Worker, SyncStatus(w)
  PROVE  Kept
<1>1. pc[w] = "sync" /\ ~Pending(job[w].row) /\ UNCHANGED <<exit, venue>>
  BY DEF SyncStatus
<1>2. "rearm" \in Stage \ {"idle", "create", "store"}
  BY DEF Stage
<1>3. CASE job[w].row.id # NoStop /\ Dead(job[w].row.id)
  <2>1. ForgetStop(w, "rearm") /\ ~Working(job[w].row.id) /\ job[w].row.id \in Stop
    BY <1>3 DEF SyncStatus, Dead, Working, Typed, JobRecord, RowRecord
  <2>2. /\ Moves(w) /\ pc'[w] = "rearm" /\ Ready(pc'[w], job'[w])
        /\ job'[w].row = Forgotten(job[w].row)
        /\ row' \in {row, Forgotten(job[w].row)} /\ row' \in RowRecord
    BY <1>1, <1>2, <2>1, ForgetEffect
  <2>3. Forgotten(job[w].row).id = NoStop /\ ~Pending(Forgotten(job[w].row))
    BY ForgottenType DEF Typed, JobRecord
  <2>4. /\ WorldOK' /\ exit' = exit /\ stop' = stop /\ window' = window /\ hole' = hole
    BY <1>1, <2>2 DEF Typed, WorldOK, venue, world
  <2>5. ASSUME Safe, Alone PROVE Safe'
    <3>1. row.id \in Stop /\ ~Working(row.id) /\ exit.working = 0 /\ ~Pending(row)
      BY <1>1, <2>1, <2>5 DEF Safe, PassInv, Copying
    <3>2. NoneWorks
      BY <2>5, <3>1, NoneLeft DEF Safe
    <3>3. Protected' /\ Selling'
      BY <2>4, <3>2 DEF Protected, NoneWorks, Selling, Working
    <3>4. row' = row \/ (row' = Forgotten(job[w].row) /\ ~Pending(row'))
      BY <2>2, <2>3
    <3>5. PassInv(w)'
      BY <2>2, <2>3, <2>4, <3>1, <3>4 DEF PassInv, Copying, Working
    <3> QED
      BY <1>1, <2>2, <2>5, <3>3, <3>5, SafeMove
  <2> QED
    BY <2>2, <2>4, <2>5, TypedMove DEF Kept
<1>4. CASE ~(job[w].row.id # NoStop /\ Dead(job[w].row.id))
  <2>1. Goto(w, "rearm") /\ UNCHANGED <<row, exit, venue>>
    BY <1>1, <1>4 DEF SyncStatus
  <2>2. Moves(w) /\ pc'[w] = "rearm" /\ Ready(pc'[w], job'[w]) /\ job'[w] = job[w]
    BY <1>1, <1>2, <2>1, GotoMoves
  <2>3. WorldOK' /\ row' = row /\ exit' = exit /\ window' = window /\ hole' = hole /\ Weakens
    BY <2>1, SameWorld, VenueSame DEF Typed
  <2>4. ASSUME Safe, Alone PROVE Safe'
    <3>1. PassInv(w)'
      BY <1>1, <2>2, <2>3, <2>4 DEF Safe, PassInv, Copying
    <3> QED
      BY <1>1, <2>2, <2>3, <2>4, <3>1, QuietStep
  <2> QED
    BY <2>2, <2>3, <2>4, TypedMove DEF Kept
<1> QED
  BY <1>3, <1>4

\* Before a new stop is intended, the old one is gone.
LEMMA RearmStep ==
  ASSUME Typed, NEW w \in Worker, Rearm(w)
  PROVE  Kept
<1>1. pc[w] = "rearm" /\ row' = row /\ exit' = exit
  BY DEF Rearm
<1>2. CASE Goto(w, "idle") /\ UNCHANGED <<stop, window, world>>
  <2>1. "idle" \in Stage \ {"create", "store", "forget", "rearm"}
    BY DEF Stage
  <2> QED
    BY <1>1, <1>2, <2>1, IdleWorldGoto DEF Copying, venue
<1>3. "intent" \in Stage \ {"create", "store", "forget", "rearm"}
  BY DEF Stage
<1>4. CASE job[w].row.id # NoStop /\ Cancel(job[w].row.id) /\ Goto(w, "intent")
  <2>1. PICK s \in Stop : s = job[w].row.id
    BY <1>4 DEF Typed, JobRecord, RowRecord
  <2>2. /\ stop' \in [Stop -> StopRecord] /\ Weakens /\ ~Working(s)'
        /\ window' = window /\ hole' = hole /\ UNCHANGED world
    BY <1>4, <2>1, CancelTyped, CancelWeakens DEF Typed, Cancel
  <2>3. WorldOK'
    BY <1>1, <2>2 DEF Typed, WorldOK, world
  <2>4. ASSUME Safe PROVE NoneWorks'
    <3>1. row.id = s /\ ~Pending(row)
      BY <1>1, <1>4, <2>1, <2>4 DEF Safe, PassInv
    <3> QED
      BY <2>2, <2>4, <3>1, StopAssumption
      DEF StopAssumption, Safe, Protected, Reachable, NoneWorks, Weakens
  <2> QED
    BY <1>1, <1>3, <1>4, <2>2, <2>3, <2>4, QuietGoto DEF Copying
<1>5. CASE /\ job[w].row.id = NoStop /\ Goto(w, "intent")
           /\ UNCHANGED <<stop, window, world>>
  <2>1. ASSUME Safe PROVE NoneWorks
    <3>1. ~Pending(row) /\ (row.id \in Stop => ~Working(row.id))
      BY <1>1, <1>5, <2>1, StopAssumption DEF StopAssumption, Safe, PassInv, Pending
    <3> QED
      BY <2>1, <3>1, NoneLeft DEF Safe
  <2> QED
    BY <1>1, <1>3, <1>5, <2>1, IdleWorldGoto DEF Copying, venue
<1> QED
  BY <1>2, <1>4, <1>5 DEF Rearm

\* The write-ahead intent is written while no stop works.
LEMMA IntentStep ==
  ASSUME Typed, NEW w \in Worker, Intent(w)
  PROVE  Kept
<1>1. PICK r \in RowRecord : r = job[w].row
  BY DEF Typed, JobRecord
<1>2. PICK h \in 0 .. Shares : h = job[w].held /\ h > 0
  BY DEF Intent, Typed, JobRecord, Ready
<1>3. Intend(r, h) \in RowRecord /\ Pending(Intend(r, h))
  <2> DEFINE r1 == [r EXCEPT !.id = NoStop]
             r2 == [r1 EXCEPT !.level = r.trail]
             r3 == [r2 EXCEPT !.qty = h]
  <2>1. r1 \in RowRecord /\ r1.id = NoStop
    BY DEF RowRecord
  <2>2. r.trail \in 0 .. MaxLevel /\ r.trail > 0
    BY StopAssumption DEF StopAssumption, RowRecord, Level
  <2> HIDE DEF r1
  <2>3. r2 \in RowRecord /\ r2.id = NoStop /\ r2.level > 0
    BY <2>1, <2>2 DEF RowRecord
  <2> HIDE DEF r2
  <2>4. r3 \in RowRecord /\ r3.id = NoStop /\ r3.level > 0 /\ r3.qty = h
    BY <2>3 DEF RowRecord
  <2>5. Intend(r, h) = r3
    BY DEF Intend, r1, r2
  <2> HIDE DEF r3
  <2> QED
    BY <1>2, <2>4, <2>5 DEF Pending
<1>4. PICK r1 \in RowRecord : r1 = Intend(r, h) /\ Pending(r1)
  BY <1>3
<1>5. /\ pc[w] = "intent" /\ row' = r1 /\ pc' = [pc EXCEPT ![w] = "create"]
      /\ job' = [job EXCEPT ![w].row = r1, ![w].then = "idle"]
      /\ UNCHANGED <<exit, venue>>
  BY <1>1, <1>2, <1>4 DEF Intent
<1>6. PICK j \in JobRecord : /\ job' = [job EXCEPT ![w] = j]
                             /\ j.row = r1 /\ j.then = "idle" /\ j.held = h
  <2> DEFINE j1 == [job[w] EXCEPT !.row = r1]
             j2 == [j1 EXCEPT !.then = "idle"]
  <2>1. j1 \in JobRecord /\ j1.row = r1 /\ j1.held = h
    BY <1>2 DEF Typed, JobRecord
  <2>2. job' = [job EXCEPT ![w] = j2]
    BY <1>5 DEF Typed
  <2> HIDE DEF j1
  <2>3. j2 \in JobRecord /\ j2.row = r1 /\ j2.then = "idle" /\ j2.held = h
    BY <2>1 DEF JobRecord, Stage
  <2> HIDE DEF j2
  <2> QED
    BY <2>2, <2>3
<1>7. Moves(w) /\ pc'[w] = "create" /\ job'[w] = j
  BY <1>5, <1>6 DEF Typed, Moves, Stage
<1>8. Ready(pc'[w], job'[w])
  BY <1>2, <1>4, <1>6, <1>7 DEF Ready
<1>9. /\ WorldOK' /\ exit' = exit /\ stop' = stop /\ window' = window /\ hole' = hole
  BY <1>5 DEF Typed, WorldOK, venue, world
<1>10. ASSUME Safe, Alone PROVE Safe'
  <2>1. NoneWorks /\ exit.working = 0
    BY <1>5, <1>10 DEF Safe, PassInv
  <2>2. Protected' /\ Selling'
    BY <1>9, <2>1 DEF Protected, NoneWorks, Selling, Working
  <2>3. PassInv(w)'
    BY <1>5, <1>6, <1>7, <1>9, <2>1 DEF PassInv
  <2> QED
    BY <1>5, <1>7, <1>10, <2>2, <2>3, SafeMove
<1> QED
  BY <1>7, <1>8, <1>9, <1>10, TypedMove DEF Kept

\* The bot's own sell goes out when no stop works, and ends its pass.
LEMMA SellStep ==
  ASSUME Typed, NEW w \in Worker, Sell(w)
  PROVE  Kept
<1>1. PICK n \in 0 .. Shares : n = job[w].sell
  BY DEF Typed, JobRecord
<1>2. /\ pc[w] = "sell" /\ exit' = [exit EXCEPT !.working = n] /\ row' = row
      /\ Goto(w, "idle") /\ UNCHANGED venue
  BY <1>1 DEF Sell
<1>3. "idle" \in Stage \ {"create", "store"}
  BY DEF Stage
<1>4. Moves(w) /\ pc'[w] = "idle" /\ Ready(pc'[w], job'[w])
  BY <1>2, <1>3, GotoMoves
<1>5. window' = window /\ hole' = hole /\ stop' = stop /\ WorldOK'
  BY <1>2 DEF Typed, WorldOK, ExitRecord, venue, world
<1>6. ASSUME Safe, Alone PROVE Safe'
  <2>1. NoneWorks
    BY <1>2, <1>6 DEF Safe, PassInv
  <2>2. Protected' /\ Selling'
    BY <1>5, <2>1 DEF Protected, NoneWorks, Selling, Working
  <2>3. PassInv(w)'
    BY <1>4 DEF PassInv, Copying
  <2> QED
    BY <1>2, <1>4, <1>6, <2>2, <2>3, SafeMove
<1> QED
  BY <1>4, <1>5, <1>6, TypedMove DEF Kept

LEMMA CloseStep ==
  ASSUME Typed, NEW w \in Worker, Close(w)
  PROVE  Kept
<1>1. /\ pc[w] = "close" /\ Goto(w, "idle") /\ row' = row /\ UNCHANGED venue
      /\ exit' \in ExitRecord /\ exit'.working = exit.working
  BY DEF Close, Typed, WorldOK, ExitRecord
<1>2. "idle" \in Stage \ {"create", "store"}
  BY DEF Stage
<1>3. Moves(w) /\ pc'[w] = "idle" /\ Ready(pc'[w], job'[w])
  BY <1>1, <1>2, GotoMoves
<1>4. window' = window /\ hole' = hole /\ stop' = stop /\ WorldOK'
  BY <1>1 DEF Typed, WorldOK, venue, world
<1>5. ASSUME Safe, Alone PROVE Safe'
  <2>1. Protected' /\ Selling'
    BY <1>1, <1>4, <1>5 DEF Safe, Protected, Selling, NoneWorks, Working, Reachable
  <2>2. PassInv(w)'
    BY <1>3 DEF PassInv, Copying
  <2> QED
    BY <1>1, <1>3, <1>5, <2>1, <2>2, SafeMove
<1> QED
  BY <1>3, <1>4, <1>5, TypedMove DEF Kept

-----------------------------------------------------------------------------
(* The venue and the market *)

\* What the environment does concerns no pass: it arms no stop, and a sell only
\* comes to its end.
LEMMA OutsideStep ==
  ASSUME Typed, WorldOK', row' = row, UNCHANGED worker, Weakens,
         exit'.working \in {0, exit.working},
         hole => hole', hole' \/ window' = window
  PROVE  Kept
<1>1. Typed'
  BY DEF Typed, worker
<1>2. ASSUME Safe PROVE Safe'
  <2>1. Protected' /\ Selling'
    BY <1>2 DEF Safe, Protected, Selling, NoneWorks, Weakens, Reachable
  <2>2. ASSUME NEW w \in Worker PROVE PassInv(w)'
    <3>1. PassInv(w)
      BY <1>2 DEF Safe
    <3>2. row.id \in Stop => (Working(row.id)' => Working(row.id))
      BY DEF Weakens, Working
    <3>3. NoneWorks => NoneWorks'
      BY DEF NoneWorks, Weakens
    <3>4. pc' = pc /\ job' = job
      BY DEF worker
    <3>5. pc'[w] # "idle" => exit'.working = 0
      BY <3>1, <3>4 DEF PassInv
    <3>6. pc'[w] = "store" /\ ~hole' => \A s \in Stop : Working(s)' => s = job'[w].new
      BY <3>1, <3>4 DEF PassInv, Weakens
    <3> QED
      BY <3>1, <3>2, <3>3, <3>4, <3>5, <3>6 DEF PassInv, Working
  <2> QED
    BY <2>1, <2>2 DEF Safe
<1> QED
  BY <1>1, <1>2 DEF Kept

LEMMA LessType ==
  ASSUME NEW n \in 0 .. Shares, NEW m \in Nat
  PROVE  Less(n, m) \in 0 .. Shares
BY StopAssumption DEF StopAssumption, Less

\* The stop fires, completes, expires or is cancelled by hand.
LEMMA StopStep ==
  ASSUME Typed, NEW s \in Stop, Fire(s) \/ Complete(s) \/ Expire(s)
  PROVE  Kept
<1>1. PICK state \in {"ordered", "completed", "cancelled"} :
        /\ stop' = [stop EXCEPT ![s].state = state]
        /\ Working(s)
  BY DEF Fire, Complete, Expire, Working
<1>2. /\ row' = row /\ exit' = exit /\ window' = window /\ hole' = hole /\ UNCHANGED worker
      /\ low' = low /\ calm' = calm
  BY DEF Fire, Complete, Expire, world
<1>3. shares' \in 0 .. Shares
  <2>1. stop[s].qty \in Nat
    BY StopAssumption DEF StopAssumption, Typed, WorldOK, StopRecord
  <2> QED
    BY <2>1, LessType DEF Fire, Complete, Expire, world, Typed, WorldOK
<1>4. WorldOK'
  BY <1>1, <1>2, <1>3 DEF Typed, WorldOK, StopRecord
<1>5. Weakens
  BY <1>1 DEF Typed, WorldOK, Weakens, Working
<1>6. exit'.working \in {0, exit.working}
  BY <1>2
<1> QED
  BY <1>2, <1>4, <1>5, <1>6, OutsideStep

\* The venue forgets a request.  If that loses a working stop, it is the gap that
\* hole stands for; otherwise nothing that works was found by it.
LEMMA WindowExpiresStep ==
  ASSUME Typed, NEW k \in Request, WindowExpires(k)
  PROVE  Kept
<1>1. /\ window[k] # NoStop /\ window' = [window EXCEPT ![k] = NoStop]
      /\ row' = row /\ exit' = exit /\ stop' = stop /\ UNCHANGED worker
      /\ shares' = shares /\ low' = low /\ calm' = calm
  BY DEF WindowExpires
<1>2. PICK open \in BOOLEAN :
        /\ open <=> /\ window[k] # NoStop /\ Working(window[k])
                    /\ \/ Pending(row) /\ Key(row) = k
                       \/ \E w \in Worker : pc[w] \in {"create", "store"} /\ Key(job[w].row) = k
        /\ hole' = (hole \/ open)
  BY DEF WindowExpires
<1>3. WorldOK'
  BY <1>1, <1>2 DEF Typed, WorldOK
<1>4. Weakens
  BY <1>1 DEF Weakens, Working
<1>5. CASE hole'
  BY <1>1, <1>3, <1>4, <1>5, OutsideStep
<1>6. CASE ~hole'
  <2>1. ~hole /\ (Pending(row) /\ Key(row) = k => ~Working(window[k]))
    BY <1>1, <1>2, <1>6
  <2>2. Typed'
    BY <1>1, <1>3 DEF Typed, worker
  <2>3. ASSUME Safe PROVE Safe'
    <3>1. ASSUME NEW s \in Stop, Working(s) PROVE Reachable(s)'
      <4>1. Reachable(s)
        BY <2>1, <2>3, <3>1 DEF Safe, Protected
      <4>2. CASE row.id = s
        BY <1>1, <4>2 DEF Reachable
      <4>3. CASE Pending(row) /\ window[Key(row)] = s
        <5>1. Key(row) # k
          BY <2>1, <3>1, <4>3
        <5>2. Key(row) \in Request
          BY <4>3, PendingKey DEF Typed, WorldOK
        <5>3. window'[Key(row)] = s
          BY <1>1, <4>3, <5>1, <5>2 DEF Typed, WorldOK
        <5> QED
          BY <1>1, <4>3, <5>3 DEF Reachable
      <4> QED
        BY <4>1, <4>2, <4>3 DEF Reachable
    <3>2. Protected'
      BY <1>1, <3>1 DEF Protected, Working
    <3>3. Selling'
      BY <1>1, <2>1, <2>3 DEF Safe, Selling, NoneWorks, Working
    <3>4. ASSUME NEW w \in Worker PROVE PassInv(w)'
      BY <1>1, <2>1, <2>3 DEF Safe, PassInv, NoneWorks, Working, worker
    <3> QED
      BY <3>2, <3>3, <3>4 DEF Safe
  <2> QED
    BY <2>2, <2>3 DEF Kept
<1> QED
  BY <1>5, <1>6

\* The bot's sell fills or is rejected.
LEMMA ExitOrderStep ==
  ASSUME Typed, SellFills \/ SellRejected
  PROVE  Kept
<1>1. exit.working \in Nat /\ exit.working \in 0 .. Shares /\ exit.sold \in Nat
  BY StopAssumption DEF StopAssumption, Typed, WorldOK, ExitRecord
<1>2. [exit EXCEPT !.working = 0] \in ExitRecord /\ [exit EXCEPT !.working = 0].working = 0
  BY StopAssumption DEF StopAssumption, Typed, WorldOK, ExitRecord
<1>3. exit' \in ExitRecord /\ exit'.working = 0
  <2>1. CASE SellFills
    <3> DEFINE e1 == [exit EXCEPT !.working = 0]
               n  == exit.sold + exit.working
               e2 == [e1 EXCEPT !.sold = n]
    <3>1. n \in Nat /\ exit' = e2
      BY <1>1, <2>1 DEF SellFills
    <3>2. e1 \in ExitRecord /\ e1.working = 0
      BY <1>2
    <3> HIDE DEF e1, n
    <3> QED
      BY <3>1, <3>2 DEF ExitRecord
  <2>2. CASE SellRejected
    BY <1>2, <2>2 DEF SellRejected
  <2> QED
    BY <2>1, <2>2
<1>4. /\ row' = row /\ stop' = stop /\ window' = window /\ hole' = hole /\ low' = low
      /\ calm' = calm /\ UNCHANGED worker
  BY DEF SellFills, SellRejected, venue, world
<1>5. shares' \in 0 .. Shares
  BY <1>1, LessType DEF SellFills, SellRejected, venue, world, Typed, WorldOK
<1>6. WorldOK'
  BY <1>3, <1>4, <1>5 DEF Typed, WorldOK
<1>7. Weakens
  BY <1>4 DEF Weakens, Working
<1> QED
  BY <1>3, <1>4, <1>6, <1>7, OutsideStep

\* The operator sells, the price falls, the last failure passes, or nothing moves.
LEMMA MarketStep ==
  ASSUME Typed, OperatorSells \/ PriceFalls \/ CalmDown \/ UNCHANGED vars
  PROVE  Kept
<1>1. /\ row' = row /\ exit' = exit /\ stop' = stop /\ window' = window /\ hole' = hole
      /\ UNCHANGED worker
  BY DEF OperatorSells, PriceFalls, CalmDown, vars, worker
<1>2. shares' \in {0, shares} /\ low' \in {TRUE, low} /\ calm' \in {TRUE, calm}
  BY DEF OperatorSells, PriceFalls, CalmDown, vars
<1>3. WorldOK'
  <2>1. shares' \in 0 .. Shares
    BY <1>2, StopAssumption DEF StopAssumption, Typed, WorldOK
  <2>2. low' \in BOOLEAN /\ calm' \in BOOLEAN
    BY <1>2, Zenon DEF Typed, WorldOK
  <2> QED
    BY <1>1, <2>1, <2>2 DEF Typed, WorldOK
<1>4. Weakens /\ exit'.working = exit.working
  BY <1>1 DEF Weakens, Working
<1> QED
  BY <1>1, <1>3, <1>4, OutsideStep

-----------------------------------------------------------------------------
(* Every step *)

LEMMA CallStep ==
  ASSUME Typed, NEW w \in Worker, Call(w)
  PROVE  Kept
<1>1. CASE Manage(w)
  <2>1. 0 \in 0 .. Shares
    BY StopAssumption DEF StopAssumption
  <2>2. CASE Pending(row)
    BY <1>1, <2>1, <2>2, BeginStep DEF Manage
  <2>3. CASE ~Pending(row)
    BY <1>1, <2>1, <2>3, BeginStep DEF Manage
  <2> QED
    BY <2>2, <2>3
<1>2. CASE ForceExit(w)
  BY <1>2, RemainingType, BeginStep DEF ForceExit, Typed, WorldOK
<1>3. CASE Reconcile(w)
  <2>1. 0 \in 0 .. Shares
    BY StopAssumption DEF StopAssumption
  <2> QED
    BY <1>3, <2>1, BeginStep DEF Reconcile
<1>4. CASE \E q \in 1 .. Shares : Leave(w, q)
  BY <1>4, LeaveStep
<1> QED
  BY <1>1, <1>2, <1>3, <1>4,
    CreateOkStep, CreateLostStep, CreateFailStep, StoreStep, CheckStep, HoldStep,
    ResolveStep, ReleaseNothingStep, ReleaseOkStep, ReleaseFailStep, ForgetStep,
    SellStep, SellFailStep, CloseStep, SyncStatusStep, SyncStatusFailStep,
    RearmStep, RearmFailStep, IntentStep, CrashStep
  DEF Call

LEMMA EveryStep ==
  ASSUME Typed, [Next]_vars
  PROVE  Kept
<1>1. ASSUME NEW w \in Worker, Call(w) PROVE Kept
  BY <1>1, CallStep
<1>2. CASE Environment
  BY <1>2, StopStep, WindowExpiresStep, ExitOrderStep, MarketStep DEF Environment
<1>3. CASE UNCHANGED vars
  BY <1>3, MarketStep
<1> QED
  BY <1>1, <1>2, <1>3 DEF Next

LEMMA InitTyped ==
  ASSUME Init
  PROVE  Typed
<1>1. WorldOK
  <2>1. row \in RowRecord
    BY NoJobType DEF Init
  <2>2. exit \in ExitRecord /\ shares \in 0 .. Shares
    BY StopAssumption DEF StopAssumption, Init, ExitRecord
  <2>3. stop \in [Stop -> StopRecord] /\ window \in [Request -> Stop \union {NoStop}]
    BY StopAssumption DEF StopAssumption, Init, StopRecord
  <2> QED
    BY <2>1, <2>2, <2>3 DEF Init, WorldOK
<1>2. pc \in [Worker -> Stage] /\ job \in [Worker -> JobRecord]
  BY NoJobType DEF Init, Stage
<1>3. ASSUME NEW w \in Worker PROVE Ready(pc[w], job[w])
  BY DEF Init, Ready
<1> QED
  BY <1>1, <1>2, <1>3 DEF Typed

LEMMA InitSafe ==
  ASSUME Init
  PROVE  Safe
<1>1. NoneWorks /\ Protected
  BY DEF Init, NoneWorks, Protected, Working
<1>2. ASSUME NEW w \in Worker PROVE PassInv(w)
  BY DEF Init, PassInv, Copying
<1> QED
  BY <1>1, <1>2 DEF Safe, Selling

-----------------------------------------------------------------------------
(* What a pass carries past the calls of the venue: the shares it will sell *)
(* and the trail it will write back.                                       *)

\* A sell is sized when the exit is decided and goes out after the stop has been
\* resolved, released and forgotten: what is sold and what is on its way is
\* still no more than was bought.
NeverOversold == exit.sold + exit.working <= Shares

\* The row is written whole, from the copy a pass has carried past calls of the
\* venue: no such write takes the effective stop back down.
TrailRises == [][row'.trail >= row.trail]_vars

\* What the locals of the pass of w still say of the exits and of the row.
Known(w) ==
  pc[w] # "idle" =>
    /\ exit.working = 0
    /\ exit.sold + job[w].held <= Shares
    /\ job[w].sell <= job[w].held
    /\ job[w].row.trail = row.trail

Steady == NeverOversold /\ \A w \in Worker : Known(w)

Ratchet == row'.trail >= row.trail

StaysSteady == Steady /\ Alone => Steady' /\ Ratchet

\* Only the pass under way has anything to know.
LEMMA SteadyMove ==
  ASSUME Steady, Alone, NEW w \in Worker, pc[w] # "idle", Moves(w),
         NeverOversold', Known(w)'
  PROVE  Steady'
<1>1. ASSUME NEW v \in Worker, v # w PROVE Known(v)'
  <2>1. pc'[v] = "idle"
    BY <1>1 DEF Alone, Moves
  <2> QED
    BY <2>1 DEF Known
<1> QED
  BY <1>1 DEF Steady

LEMMA SameTrail ==
  ASSUME Typed, row'.trail = row.trail
  PROVE  Ratchet
<1>1. row.trail \in Int
  BY StopAssumption DEF StopAssumption, Typed, WorldOK, RowRecord, Level
<1> QED
  BY <1>1 DEF Ratchet

\* Most steps of a pass leave alone what it knows, or end it.
LEMMA PassSteady ==
  ASSUME Typed, NEW w \in Worker, pc[w] # "idle", Moves(w),
         exit'.sold = exit.sold, exit'.working = exit.working, row'.trail = row.trail,
         pc'[w] # "idle" => /\ job'[w].held = job[w].held
                            /\ job'[w].sell = job[w].sell
                            /\ job'[w].row.trail = job[w].row.trail
  PROVE  StaysSteady
<1> SUFFICES ASSUME Steady, Alone PROVE Steady' /\ Ratchet
  BY DEF StaysSteady
<1>1. NeverOversold'
  BY DEF Steady, NeverOversold
<1>2. Known(w)
  BY DEF Steady
<1>3. Known(w)'
  BY <1>2 DEF Known
<1> QED
  BY <1>1, <1>3, SteadyMove, SameTrail

LEMMA GotoSteady ==
  ASSUME Typed, NEW w \in Worker, pc[w] # "idle",
         NEW p \in Stage \ {"create", "store"}, Goto(w, p),
         row' = row, exit'.sold = exit.sold, exit'.working = exit.working
  PROVE  StaysSteady
<1>1. Moves(w) /\ pc'[w] = p /\ (p # "idle" => job'[w] = job[w])
  BY GotoMoves
<1> QED
  BY <1>1, PassSteady

\* A pass starts while nothing is being sold, from the row and what is left.
LEMMA BeginSteady ==
  ASSUME Typed, NEW w \in Worker, NEW p \in Stage \ {"store"},
         Begin(w, p, 0) \/ Begin(w, p, Remaining),
         p = "create" => Pending(row)
  PROVE  StaysSteady
<1> SUFFICES ASSUME Steady, Alone PROVE Steady' /\ Ratchet
  BY DEF StaysSteady
<1>1. exit.sold \in Nat /\ exit.working \in Nat /\ Shares \in Nat
  BY StopAssumption DEF StopAssumption, Typed, WorldOK, ExitRecord
<1>2. PICK h \in 0 .. Shares : h = Remaining /\ h > 0
  BY RemainingType DEF Begin, Typed, WorldOK
<1>3. PICK q \in 0 .. Shares : Begin(w, p, q) /\ q <= h
  BY <1>1, <1>2
<1>4. exit.sold + h <= Shares
  BY <1>1, <1>2 DEF Remaining
<1>5. PICK j \in JobRecord : /\ job' = [job EXCEPT ![w] = j]
                             /\ j.held = h /\ j.sell = q /\ j.row = row
  <2> DEFINE j1 == [NoJob EXCEPT !.row = row, !.held = h, !.sell = q, !.then = "check"]
  <2>1. j1 \in JobRecord /\ j1.held = h /\ j1.sell = q /\ j1.row = row
    BY <1>2, NoJobType DEF NoJob, JobRecord, Stage, Typed, WorldOK
  <2>2. job' = [job EXCEPT ![w] = j1]
    BY <1>2, <1>3 DEF Begin
  <2> HIDE DEF j1
  <2> QED
    BY <2>1, <2>2
<1>6. /\ exit.working = 0 /\ row' = row /\ exit' = exit
      /\ pc' = [pc EXCEPT ![w] = p] /\ pc[w] = "idle"
  BY <1>3 DEF Begin
<1>7. /\ job'[w] = j
      /\ \A v \in Worker : v # w => pc'[v] = pc[v] /\ job'[v] = job[v]
  BY <1>5, <1>6 DEF Typed
<1>8. Known(w)'
  BY <1>3, <1>4, <1>5, <1>6, <1>7 DEF Known
<1>9. ASSUME NEW v \in Worker, v # w PROVE Known(v)'
  BY <1>6, <1>7, <1>9 DEF Known, Steady
<1>10. NeverOversold'
  BY <1>6 DEF Steady, NeverOversold
<1> QED
  BY <1>6, <1>8, <1>9, <1>10, SameTrail DEF Steady

\* The exit is sized within what is held, by the ladder and by the broker's
\* holdings.
LEMMA LeaveSteady ==
  ASSUME Typed, NEW w \in Worker, NEW q \in 1 .. Shares, Leave(w, q)
  PROVE  StaysSteady
<1> SUFFICES ASSUME Steady, Alone PROVE Steady' /\ Ratchet
  BY DEF StaysSteady
<1>1. /\ pc[w] = "decide" /\ pc' = [pc EXCEPT ![w] = "release"]
      /\ row' = row /\ exit' = exit
  BY DEF Leave
<1>2. job[w].held \in Nat /\ shares \in 0 .. Shares
  BY StopAssumption DEF StopAssumption, Typed, WorldOK, JobRecord
<1>3. q <= job[w].held
  BY <1>2 DEF Leave
<1>4. PICK n \in 0 .. Shares : job' = [job EXCEPT ![w].sell = n] /\ n <= q
  <2>1. PICK answered \in {TRUE, calm} :
          job' = [job EXCEPT ![w].sell = IF answered /\ shares < q THEN shares ELSE q]
    BY DEF Leave
  <2>2. \E n \in 0 .. Shares : n = (IF answered /\ shares < q THEN shares ELSE q) /\ n <= q
    BY <1>2, StopAssumption DEF StopAssumption
  <2> QED
    BY <2>1, <2>2
<1>5. /\ Moves(w) /\ job'[w].sell = n
      /\ job'[w].row = job[w].row /\ job'[w].held = job[w].held
  BY <1>1, <1>4 DEF Typed, Moves, Stage, JobRecord
<1>6. Known(w)
  BY DEF Steady
<1>7. n <= job[w].held
  BY <1>2, <1>3, <1>4
<1>8. Known(w)' /\ NeverOversold'
  BY <1>1, <1>5, <1>6, <1>7 DEF Known, Steady, NeverOversold
<1> QED
  BY <1>1, <1>5, <1>8, SteadyMove, SameTrail

\* The trail only rises, in the row and in the copy.
LEMMA HoldSteady ==
  ASSUME Typed, NEW w \in Worker, Hold(w)
  PROVE  StaysSteady
<1>1. PICK t \in Level :
        /\ t = job[w].row.trail \/ (ScaledOut /\ t > job[w].row.trail)
        /\ IF t = job[w].row.trail THEN Goto(w, "sync") /\ UNCHANGED row
           ELSE Persist(w, [job[w].row EXCEPT !.trail = t], "sync")
  BY DEF Hold
<1>2. pc[w] = "decide" /\ exit' = exit
  BY DEF Hold
<1>3. CASE t = job[w].row.trail
  <2>1. "sync" \in Stage \ {"create", "store"}
    BY DEF Stage
  <2> QED
    BY <1>1, <1>2, <1>3, <2>1, GotoSteady
<1>4. CASE t # job[w].row.trail
  <2> SUFFICES ASSUME Steady, Alone PROVE Steady' /\ Ratchet
    BY DEF StaysSteady
  <2>1. PICK r1 \in RowRecord : r1 = [job[w].row EXCEPT !.trail = t] /\ r1.trail = t
    <3>1. job[w].row \in RowRecord
      BY DEF Typed, JobRecord
    <3>2. [job[w].row EXCEPT !.trail = t] \in RowRecord /\ [job[w].row EXCEPT !.trail = t].trail = t
      BY <3>1 DEF RowRecord
    <3> QED
      BY <3>2
  <2>2. row' = r1 /\ pc' = [pc EXCEPT ![w] = "sync"] /\ job' = [job EXCEPT ![w].row = r1]
    BY <1>1, <1>4, <2>1 DEF Persist
  <2>3. /\ Moves(w) /\ job'[w].row = r1
        /\ job'[w].held = job[w].held /\ job'[w].sell = job[w].sell
    BY <2>1, <2>2 DEF Typed, Moves, Stage, JobRecord
  <2>4. Known(w)
    BY DEF Steady
  <2>5. Known(w)' /\ NeverOversold'
    BY <1>2, <2>2, <2>3, <2>4 DEF Known, Steady, NeverOversold
  <2>6. Ratchet
    <3>1. row'.trail = t /\ row.trail = job[w].row.trail
      BY <1>2, <2>1, <2>2, <2>4 DEF Known
    <3>2. row.trail \in Int /\ t \in Int
      BY StopAssumption DEF StopAssumption, Typed, WorldOK, RowRecord, Level
    <3> QED
      BY <1>1, <1>4, <3>1, <3>2 DEF Ratchet
  <2> QED
    BY <1>2, <2>3, <2>5, <2>6, SteadyMove
<1> QED
  BY <1>3, <1>4

\* The steps that write locals or the row, but neither shares nor trail.
LEMMA CreateSteady ==
  ASSUME Typed, NEW w \in Worker, CreateOk(w)
  PROVE  StaysSteady
<1> DEFINE k == Key(job[w].row)
<1>1. /\ pc[w] = "create" /\ Arm(k) /\ row' = row /\ exit' = exit
      /\ pc' = [pc EXCEPT ![w] = "store"] /\ job' = [job EXCEPT ![w].new = window'[k]]
  BY DEF CreateOk
<1>2. k \in Request
  BY <1>1, CreateKey
<1>3. window'[k] \in Stop
  BY <1>1, <1>2, ArmTyped DEF Typed
<1> HIDE DEF k
<1>4. /\ Moves(w) /\ job'[w].row = job[w].row
      /\ job'[w].held = job[w].held /\ job'[w].sell = job[w].sell
  BY <1>1, <1>3 DEF Typed, Moves, Stage, JobRecord
<1> QED
  BY <1>1, <1>4, PassSteady

LEMMA ResolveSteady ==
  ASSUME Typed, NEW w \in Worker, Resolve(w)
  PROVE  StaysSteady
<1>1. /\ pc[w] \in {"release", "sync"}
      /\ pc' = [pc EXCEPT ![w] = "create"] /\ job' = [job EXCEPT ![w].then = pc[w]]
      /\ row' = row /\ exit' = exit
  BY DEF Resolve
<1>2. /\ Moves(w) /\ job'[w].row = job[w].row
      /\ job'[w].held = job[w].held /\ job'[w].sell = job[w].sell
  BY <1>1 DEF Typed, Moves, Stage, JobRecord
<1> QED
  BY <1>1, <1>2, PassSteady

\* Forgetting a stop keeps the trail; so does a forgetting that is not written.
LEMMA ForgetSteady ==
  ASSUME Typed, NEW w \in Worker, pc[w] # "idle",
         NEW p \in Stage \ {"idle", "create", "store"}, ForgetStop(w, p), exit' = exit
  PROVE  StaysSteady
<1> DEFINE r == Forgotten(job[w].row)
<1>1. Moves(w) /\ pc'[w] = p /\ job'[w].row = r /\ row' \in {row, r}
  BY ForgetEffect
<1>2. job[w].row \in RowRecord /\ r \in RowRecord
  BY ForgottenType DEF Typed, JobRecord
<1>3. r.trail = job[w].row.trail
  BY <1>2 DEF Forgotten, RowRecord
<1>4. job' = [job EXCEPT ![w].row = r]
  BY DEF ForgetStop
<1> HIDE DEF r
<1>5. job'[w].held = job[w].held /\ job'[w].sell = job[w].sell
  BY <1>4 DEF Typed, JobRecord
<1>6. Known(w) => row'.trail = row.trail
  BY <1>1, <1>3 DEF Known
<1>7. CASE row'.trail = row.trail
  BY <1>1, <1>3, <1>5, <1>7, PassSteady
<1> QED
  BY <1>6, <1>7 DEF StaysSteady, Steady

LEMMA StoreSteady ==
  ASSUME Typed, NEW w \in Worker, Store(w)
  PROVE  StaysSteady
<1>1. PICK r \in RowRecord : r = job[w].row
  BY DEF Typed, JobRecord
<1>2. PICK r1 \in RowRecord : r1 = [r EXCEPT !.id = job[w].new] /\ r1.trail = r.trail
  <2>1. job[w].new \in Stop
    BY DEF Store, Typed, Ready
  <2>2. [r EXCEPT !.id = job[w].new] \in RowRecord /\ [r EXCEPT !.id = job[w].new].trail = r.trail
    BY <2>1 DEF RowRecord
  <2> QED
    BY <2>2
<1>3. /\ pc[w] = "store" /\ row' = r1 /\ exit' = exit
      /\ pc' = [pc EXCEPT ![w] = job[w].then]
      /\ job[w].then \in Stage
  BY <1>1, <1>2 DEF Store, Typed, JobRecord
<1>4. PICK j \in JobRecord :
        /\ job' = [job EXCEPT ![w] = j]
        /\ job[w].then # "idle" => j.row = r1 /\ j.held = job[w].held /\ j.sell = job[w].sell
  <2>1. CASE job[w].then = "idle"
    BY <2>1, NoJobType DEF Store
  <2>2. CASE job[w].then # "idle"
    <3> DEFINE j1 == [job[w] EXCEPT !.row = r1]
               j2 == [j1 EXCEPT !.new = NoStop]
    <3>1. j1 \in JobRecord /\ j1.row = r1 /\ j1.held = job[w].held /\ j1.sell = job[w].sell
      BY <1>2 DEF Typed, JobRecord
    <3>2. job' = [job EXCEPT ![w] = j2]
      BY <1>1, <1>2, <2>2 DEF Store
    <3> HIDE DEF j1
    <3>3. j2 \in JobRecord /\ j2.row = r1 /\ j2.held = job[w].held /\ j2.sell = job[w].sell
      BY <3>1 DEF JobRecord
    <3> HIDE DEF j2
    <3> QED
      BY <3>2, <3>3
  <2> QED
    BY <2>1, <2>2
<1>5. Moves(w) /\ pc'[w] = job[w].then /\ job'[w] = j
  BY <1>3, <1>4 DEF Typed, Moves
<1>6. CASE row'.trail = row.trail
  BY <1>1, <1>2, <1>3, <1>4, <1>5, <1>6, PassSteady
<1>7. Known(w) => row'.trail = row.trail
  BY <1>1, <1>2, <1>3 DEF Known
<1> QED
  BY <1>6, <1>7 DEF StaysSteady, Steady

LEMMA IntentSteady ==
  ASSUME Typed, NEW w \in Worker, Intent(w)
  PROVE  StaysSteady
<1>1. PICK r \in RowRecord : r = job[w].row
  BY DEF Typed, JobRecord
<1>2. PICK h \in 0 .. Shares : h = job[w].held
  BY DEF Typed, JobRecord
<1>3. PICK r1 \in RowRecord : r1 = Intend(r, h) /\ r1.trail = r.trail
  <2> DEFINE r2 == [r EXCEPT !.id = NoStop]
             r3 == [r2 EXCEPT !.level = r.trail]
             r4 == [r3 EXCEPT !.qty = h]
  <2>1. r2 \in RowRecord /\ r2.trail = r.trail
    BY DEF RowRecord
  <2>2. r.trail \in 0 .. MaxLevel
    BY StopAssumption DEF StopAssumption, RowRecord, Level
  <2>3. Intend(r, h) = r4
    BY DEF Intend
  <2> HIDE DEF r2
  <2>4. r3 \in RowRecord /\ r3.trail = r.trail
    BY <2>1, <2>2 DEF RowRecord
  <2> HIDE DEF r3
  <2>5. r4 \in RowRecord /\ r4.trail = r.trail
    BY <2>4 DEF RowRecord
  <2> HIDE DEF r4
  <2> QED
    BY <2>3, <2>5
<1>4. /\ pc[w] = "intent" /\ row' = r1 /\ exit' = exit
      /\ pc' = [pc EXCEPT ![w] = "create"]
  BY <1>1, <1>2, <1>3 DEF Intent
<1>5. PICK j \in JobRecord : /\ job' = [job EXCEPT ![w] = j]
                             /\ j.row = r1 /\ j.held = h /\ j.sell = job[w].sell
  <2> DEFINE j1 == [job[w] EXCEPT !.row = r1]
             j2 == [j1 EXCEPT !.then = "idle"]
  <2>1. j1 \in JobRecord /\ j1.row = r1 /\ j1.held = h /\ j1.sell = job[w].sell
    BY <1>2 DEF Typed, JobRecord
  <2>2. job' = [job EXCEPT ![w] = j2]
    <3>1. job' = [job EXCEPT ![w].row = r1, ![w].then = "idle"]
      BY <1>1, <1>2, <1>3 DEF Intent
    <3> QED
      BY <3>1 DEF Typed
  <2> HIDE DEF j1
  <2>3. j2 \in JobRecord /\ j2.row = r1 /\ j2.held = h /\ j2.sell = job[w].sell
    BY <2>1 DEF JobRecord, Stage
  <2> HIDE DEF j2
  <2> QED
    BY <2>2, <2>3
<1>6. Moves(w) /\ job'[w] = j
  BY <1>4, <1>5 DEF Typed, Moves, Stage
<1>7. CASE row'.trail = row.trail
  BY <1>1, <1>2, <1>3, <1>4, <1>5, <1>6, <1>7, PassSteady
<1>8. Known(w) => row'.trail = row.trail
  BY <1>1, <1>3, <1>4 DEF Known
<1> QED
  BY <1>7, <1>8 DEF StaysSteady, Steady

\* The sell goes out with no other in flight, and ends its pass.
LEMMA SellSteady ==
  ASSUME Typed, NEW w \in Worker, Sell(w)
  PROVE  StaysSteady
<1> SUFFICES ASSUME Steady, Alone PROVE Steady' /\ Ratchet
  BY DEF StaysSteady
<1>1. PICK n \in 0 .. Shares : n = job[w].sell
  BY DEF Typed, JobRecord
<1>2. /\ pc[w] = "sell" /\ exit' = [exit EXCEPT !.working = n] /\ row' = row /\ Goto(w, "idle")
  BY <1>1 DEF Sell
<1>3. "idle" \in Stage \ {"create", "store"}
  BY DEF Stage
<1>4. Moves(w) /\ pc'[w] = "idle"
  BY <1>2, <1>3, GotoMoves
<1>5. exit'.working = n /\ exit'.sold = exit.sold /\ exit.sold \in Nat
  BY <1>2 DEF Typed, WorldOK, ExitRecord
<1>6. exit.sold + job[w].held <= Shares /\ n <= job[w].held /\ job[w].held \in Nat
  BY <1>1, <1>2, StopAssumption DEF StopAssumption, Steady, Known, Typed, JobRecord
<1>7. NeverOversold'
  BY <1>5, <1>6, StopAssumption DEF StopAssumption, NeverOversold
<1>8. Known(w)'
  BY <1>4 DEF Known
<1> QED
  BY <1>2, <1>4, <1>7, <1>8, SteadyMove, SameTrail

LEMMA CloseSteady ==
  ASSUME Typed, NEW w \in Worker, Close(w)
  PROVE  StaysSteady
<1>1. /\ pc[w] = "close" /\ Goto(w, "idle") /\ row' = row
      /\ exit'.working = exit.working /\ exit'.sold = exit.sold
  BY DEF Close, Typed, WorldOK, ExitRecord
<1>2. "idle" \in Stage \ {"create", "store"}
  BY DEF Stage
<1> QED
  BY <1>1, <1>2, GotoSteady

\* Steps that only move the stage of the pass, at the venue's answer or failure.
LEMMA StageSteady ==
  ASSUME Typed, NEW w \in Worker,
         \/ CreateLost(w) \/ CreateFail(w) \/ CheckOk(w) \/ CheckFail(w)
         \/ ReleaseNothing(w) \/ ReleaseOk(w) \/ ReleaseFail(w) \/ SellFail(w)
         \/ SyncStatusFail(w) \/ Rearm(w) \/ RearmFail(w) \/ Crash(w)
  PROVE  StaysSteady
<1>1. {"idle", "check", "decide", "intent", "forget", "sell", "close"}
        \subseteq Stage \ {"create", "store"}
  BY DEF Stage
<1>2. PICK p \in {"idle", "check", "decide", "intent", "forget", "sell", "close"} :
        pc[w] # "idle" /\ Goto(w, p) /\ row' = row /\ exit' = exit
  BY NextStages
  DEF CreateLost, CreateFail, CheckOk, CheckFail, ReleaseNothing, ReleaseOk, ReleaseFail,
      SellFail, SyncStatusFail, Rearm, RearmFail, Crash
<1> QED
  BY <1>1, <1>2, GotoSteady

LEMMA SyncSteady ==
  ASSUME Typed, NEW w \in Worker, SyncStatus(w) \/ Forget(w)
  PROVE  StaysSteady
<1>1. AfterRelease(w) \in Stage \ {"idle", "create", "store"}
  BY DEF AfterRelease, Stage
<1>2. "rearm" \in Stage \ {"idle", "create", "store"}
  BY DEF Stage
<1>3. pc[w] # "idle" /\ exit' = exit
  BY DEF SyncStatus, Forget
<1>4. CASE ForgetStop(w, AfterRelease(w)) \/ ForgetStop(w, "rearm")
  BY <1>1, <1>2, <1>3, <1>4, ForgetSteady
<1>5. CASE Goto(w, "rearm") /\ row' = row
  BY <1>2, <1>3, <1>5, GotoSteady
<1> QED
  BY <1>4, <1>5 DEF SyncStatus, Forget

\* Outside the passes only the bot's own sell moves: it fills or is rejected,
\* and no pass is under way while it works.
LEMMA OutsideSteady ==
  ASSUME Typed, Environment \/ UNCHANGED vars
  PROVE  StaysSteady
<1> SUFFICES ASSUME Steady, Alone PROVE Steady' /\ Ratchet
  BY DEF StaysSteady
<1>1. row' = row /\ pc' = pc /\ job' = job
  BY DEF Environment, Fire, Complete, Expire, WindowExpires, SellFills, SellRejected,
         OperatorSells, PriceFalls, CalmDown, vars, worker
<1>2. Ratchet
  BY <1>1, SameTrail
<1>3. CASE exit' = exit
  BY <1>1, <1>2, <1>3 DEF Steady, NeverOversold, Known
<1>4. CASE SellFills \/ SellRejected
  <2>1. exit.working \in Nat /\ exit.sold \in Nat /\ Shares \in Nat
    BY StopAssumption DEF StopAssumption, Typed, WorldOK, ExitRecord
  <2>2. exit.working > 0
    BY <1>4 DEF SellFills, SellRejected
  <2>3. exit'.working = 0 /\ exit'.sold \in {exit.sold, exit.sold + exit.working}
    BY <1>4 DEF SellFills, SellRejected, Typed, WorldOK, ExitRecord
  <2>4. NeverOversold'
    BY <2>1, <2>3 DEF Steady, NeverOversold
  <2>5. ASSUME NEW w \in Worker PROVE Known(w)'
    <3>1. pc[w] = "idle"
      BY <2>2 DEF Steady, Known
    <3> QED
      BY <1>1, <3>1 DEF Known
  <2> QED
    BY <1>2, <2>4, <2>5 DEF Steady
<1> QED
  BY <1>3, <1>4 DEF Environment, Fire, Complete, Expire, WindowExpires,
         OperatorSells, PriceFalls, CalmDown, vars

LEMMA EveryStepSteady ==
  ASSUME Typed, [Next]_vars
  PROVE  StaysSteady
<1>1. ASSUME NEW w \in Worker, Call(w) PROVE StaysSteady
  <2>1. CASE Manage(w) \/ ForceExit(w) \/ Reconcile(w)
    <3>1. {"create", "check", "release"} \subseteq Stage \ {"store"}
      BY DEF Stage
    <3> QED
      BY <2>1, <3>1, BeginSteady DEF Manage, ForceExit, Reconcile
  <2>2. CASE \E q \in 1 .. Shares : Leave(w, q)
    BY <2>2, LeaveSteady
  <2> QED
    BY <1>1, <2>1, <2>2, CreateSteady, StoreSteady, HoldSteady, ResolveSteady, SyncSteady,
      SellSteady, CloseSteady, StageSteady, IntentSteady
    DEF Call
<1>2. CASE Environment \/ UNCHANGED vars
  BY <1>2, OutsideSteady
<1> QED
  BY <1>1, <1>2 DEF Next

LEMMA InitSteady ==
  ASSUME Init
  PROVE  Steady
BY StopAssumption DEF StopAssumption, Init, Steady, NeverOversold, Known

-----------------------------------------------------------------------------
(* Theorems *)

\* Every pass has a request to create and shares to protect when it needs them.
THEOREM TypeInvariance == Spec => []Typed
<1>1. Init => Typed
  BY InitTyped
<1>2. Typed /\ [Next]_vars => Typed'
  BY EveryStep DEF Kept
<1> QED
  BY <1>1, <1>2, PTL DEF Spec

\* Rows, stops, requests and passes keep to their ranges, for any number of
\* evaluators whose passes may overlap.
THEOREM TypeCorrect == Spec => []TypeOK
<1>1. Typed => TypeOK
  BY DEF Typed, WorldOK, TypeOK
<1> QED
  BY <1>1, TypeInvariance, PTL

\* As long as passes do not overlap, the row leads to every working stop, and
\* each stage of a pass knows what it needs to write the row back whole.
THEOREM SafeWhileAlone == Spec /\ []Alone => []Safe
<1>1. Init => Safe
  BY InitSafe
<1>2. Typed /\ Alone /\ Safe /\ [Next]_vars => Safe'
  BY EveryStep DEF Kept
<1> QED
  BY <1>1, <1>2, TypeInvariance, PTL DEF Spec

LEMMA SafeImplies == Safe => NoOrphanStop /\ NoSellBesideStop
BY DEF Safe, Protected, Reachable, Selling, NoneWorks, NoOrphanStop, Tracked, NoSellBesideStop

\* However many processes evaluate the position, one after the other and each
\* dying where it may, no working stop is ever out of the row's reach.
THEOREM NoOrphanWhileAlone == Spec /\ []Alone => []NoOrphanStop
BY SafeImplies, SafeWhileAlone, PTL

\* ... and the bot never sells beside a working stop.
THEOREM OneSellerWhileAlone == Spec /\ []Alone => []NoSellBesideStop
BY SafeImplies, SafeWhileAlone, PTL

\* With one evaluator, as when only the auto pilot runs, nothing is assumed of
\* the behaviour: no crash, lost answer or refusal orphans a working stop.
THEOREM StopsNeverOrphaned ==
  ASSUME NEW w \in Worker, Worker = {w}
  PROVE  Spec => []NoOrphanStop
<1>1. Alone
  BY DEF Alone
<1> QED
  BY <1>1, NoOrphanWhileAlone, PTL

\* With one evaluator the position has one seller at a time.
THEOREM OneSeller ==
  ASSUME NEW w \in Worker, Worker = {w}
  PROVE  Spec => []NoSellBesideStop
<1>1. Alone
  BY DEF Alone
<1> QED
  BY <1>1, OneSellerWhileAlone, PTL

\* As long as passes do not overlap, what a pass carries stays true of the row
\* and of the exits, and the trail never falls.
THEOREM SteadyWhileAlone == Spec /\ []Alone => []Steady
<1>1. Init => Steady
  BY InitSteady
<1>2. Typed /\ Alone /\ Steady /\ [Next]_vars => Steady'
  BY EveryStepSteady DEF StaysSteady
<1> QED
  BY <1>1, <1>2, TypeInvariance, PTL DEF Spec

\* ... so the bot's sells, filled and in flight, never exceed what was bought,
\* in whatever order stops fire, sells are rejected and processes die.
THEOREM NotOversoldWhileAlone == Spec /\ []Alone => []NeverOversold
<1>1. Steady => NeverOversold
  BY DEF Steady
<1> QED
  BY <1>1, SteadyWhileAlone, PTL

\* ... and no whole-row write takes back a stop that was raised.
THEOREM TrailRisesWhileAlone == Spec /\ []Alone => TrailRises
<1>1. Typed /\ Alone /\ Steady /\ [Next]_vars => [row'.trail >= row.trail]_vars
  BY EveryStepSteady DEF StaysSteady, Ratchet
<1> QED
  BY <1>1, SteadyWhileAlone, TypeInvariance, PTL DEF Spec, TrailRises

\* With one evaluator the bot never sells more than was bought.
THEOREM NeverSellsTooMuch ==
  ASSUME NEW w \in Worker, Worker = {w}
  PROVE  Spec => []NeverOversold
<1>1. Alone
  BY DEF Alone
<1> QED
  BY <1>1, NotOversoldWhileAlone, PTL

\* With one evaluator the effective stop of the position never falls.
THEOREM TrailNeverFalls ==
  ASSUME NEW w \in Worker, Worker = {w}
  PROVE  Spec => TrailRises
<1>1. Alone
  BY DEF Alone
<1> QED
  BY <1>1, TrailRisesWhileAlone, PTL

=============================================================================
