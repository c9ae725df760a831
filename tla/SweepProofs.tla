----------------------------- MODULE SweepProofs -----------------------------
(***************************************************************************)
(* Proofs about Sweep for every watchlist and every cap.  The types hold    *)
(* for any number of sweeping processes.  That the cap on positions holds   *)
(* and that unresolved orders block new buys is proved while at most one    *)
(* sweep is past its recovery: a sweep counts the open positions and looks   *)
(* for unresolved orders once, and buys from what it saw then.               *)
(***************************************************************************)
EXTENDS Sweep, FiniteSetTheorems, TLAPS

-----------------------------------------------------------------------------
(* Types.  TypeOK also says that only a held position has an exit, which    *)
(* takes more than types and is shown below for one sweeping process.       *)

Side == {"buy", "sell"}

Typed ==
  /\ buy \in [Ticker -> BuyStatus]
  /\ sell \in [Ticker -> SellStatus]
  /\ due \in [Ticker -> BOOLEAN]
  /\ news \in [Ticker -> BOOLEAN]
  /\ shut \in [Ticker -> BOOLEAN]
  /\ {kill, raised, calm} \subseteq BOOLEAN
  /\ pc \in [Worker -> Stage]
  /\ job \in [Worker -> JobRecord]
  /\ fresh \subseteq Ticker \X Side

\* The names of the next row and of the order under way are tickers.
LEMMA RowIsTicker ==
  ASSUME Typed, NEW w \in Worker, More(w)
  PROVE  Watchlist[job[w].i] \in Ticker /\ job[w].i + 1 \in 1 .. Len(Watchlist) + 1
<1>1. job[w].i \in 1 .. Len(Watchlist) + 1 /\ job[w].i <= Len(Watchlist)
  BY DEF Typed, JobRecord, More
<1>2. Watchlist \in Seq(Ticker) /\ Len(Watchlist) \in Nat
  BY SweepAssumption
<1> QED BY <1>1, <1>2

\* What a sweep keeps between its steps, field by field.
LEMMA JobFields ==
  ASSUME Typed, NEW w \in Worker
  PROVE  /\ job[w] \in JobRecord
         /\ job[w].i \in 1 .. Len(Watchlist) + 1 /\ job[w].open \in Nat
         /\ job[w].blocked \in BOOLEAN /\ job[w].todo \in SUBSET Ticker
         /\ job[w].side \in Side /\ job[w].t \in Ticker
         /\ job[w].back \in {"manage", "rows"}
BY DEF Typed, JobRecord, Side

\* A process that begins has nothing in hand.
LEMMA NoJobTyped == NoJob \in JobRecord
<1>1. (CHOOSE t \in Ticker : TRUE) \in Ticker
  BY SweepAssumption
<1>2. Len(Watchlist) \in Nat
  BY SweepAssumption
<1> QED BY <1>1, <1>2 DEF NoJob, JobRecord

\* A sweep's locals stay locals when a field takes another of its values.
LEMMA FieldsTyped ==
  ASSUME Typed, NEW w \in Worker
  PROVE  /\ \A x \in BOOLEAN : [job EXCEPT ![w].blocked = x] \in [Worker -> JobRecord]
         /\ \A x \in Nat : [job EXCEPT ![w].open = x] \in [Worker -> JobRecord]
         /\ \A x \in SUBSET Ticker : [job EXCEPT ![w].todo = x] \in [Worker -> JobRecord]
         /\ \A x \in 1 .. Len(Watchlist) + 1 : [job EXCEPT ![w].i = x] \in [Worker -> JobRecord]
<1> DEFINE Rows1 == 1 .. Len(Watchlist) + 1
<1>1. JobRecord = [i : Rows1, open : Nat, blocked : BOOLEAN, todo : SUBSET Ticker,
                   side : Side, t : Ticker, back : {"manage", "rows"}]
  BY DEF JobRecord, Side
<1>2. job \in [Worker -> JobRecord]
  BY DEF Typed
<1> HIDE DEF Rows1
<1>3. \A x \in BOOLEAN : [job EXCEPT ![w].blocked = x] \in [Worker -> JobRecord]
  BY <1>1, <1>2
<1>4. \A x \in Nat : [job EXCEPT ![w].open = x] \in [Worker -> JobRecord]
  BY <1>1, <1>2
<1>5. \A x \in SUBSET Ticker : [job EXCEPT ![w].todo = x] \in [Worker -> JobRecord]
  BY <1>1, <1>2
<1>6. \A x \in Rows1 : [job EXCEPT ![w].i = x] \in [Worker -> JobRecord]
  BY <1>1, <1>2
<1> QED BY <1>3, <1>4, <1>5, <1>6 DEF Rows1

\* The same for a sale handed to the approval from the held names.
LEMMA SellFields ==
  ASSUME Typed, NEW w \in Worker, NEW todo \in SUBSET Ticker, NEW side \in Side, NEW t \in Ticker,
         NEW back \in {"manage", "rows"}
  PROVE  [job EXCEPT ![w].todo = todo, ![w].side = side, ![w].t = t, ![w].back = back]
           \in [Worker -> JobRecord]
<1> DEFINE Rows1 == 1 .. Len(Watchlist) + 1
           r == [job[w] EXCEPT !.todo = todo, !.side = side, !.t = t, !.back = back]
<1>1. JobRecord = [i : Rows1, open : Nat, blocked : BOOLEAN, todo : SUBSET Ticker,
                   side : Side, t : Ticker, back : {"manage", "rows"}]
  BY DEF JobRecord, Side
<1>2. job \in [Worker -> JobRecord] /\ todo \in SUBSET Ticker
  BY DEF Typed
<1> HIDE DEF Rows1
<1>3. [job EXCEPT ![w].todo = todo, ![w].side = side, ![w].t = t, ![w].back = back]
      = [job EXCEPT ![w] = r]
  BY <1>1, <1>2
<1>4. r \in JobRecord
  BY <1>1, <1>2
<1> HIDE DEF r
<1> QED BY <1>2, <1>3, <1>4

\* The same for an order handed to the approval from the watchlist.
LEMMA RowFields ==
  ASSUME Typed, NEW w \in Worker, NEW i \in 1 .. Len(Watchlist) + 1, NEW side \in Side, NEW t \in Ticker,
         NEW back \in {"manage", "rows"}
  PROVE  [job EXCEPT ![w].i = i, ![w].side = side, ![w].t = t, ![w].back = back]
           \in [Worker -> JobRecord]
<1> DEFINE Rows1 == 1 .. Len(Watchlist) + 1
           r == [job[w] EXCEPT !.i = i, !.side = side, !.t = t, !.back = back]
<1>1. JobRecord = [i : Rows1, open : Nat, blocked : BOOLEAN, todo : SUBSET Ticker,
                   side : Side, t : Ticker, back : {"manage", "rows"}]
  BY DEF JobRecord, Side
<1>2. job \in [Worker -> JobRecord] /\ i \in Rows1
  BY DEF Typed
<1> HIDE DEF Rows1
<1>3. [job EXCEPT ![w].i = i, ![w].side = side, ![w].t = t, ![w].back = back]
      = [job EXCEPT ![w] = r]
  BY <1>1, <1>2
<1>4. r \in JobRecord
  BY <1>1, <1>2
<1> HIDE DEF r
<1> QED BY <1>2, <1>3, <1>4

\* The same for what an approval hands back to the sweep.
LEMMA ReturnFields ==
  ASSUME Typed, NEW w \in Worker, NEW open \in Nat, NEW side \in Side, NEW t \in Ticker,
         NEW back \in {"manage", "rows"}
  PROVE  [job EXCEPT ![w].open = open, ![w].side = side, ![w].t = t, ![w].back = back]
           \in [Worker -> JobRecord]
<1> DEFINE Rows1 == 1 .. Len(Watchlist) + 1
           r == [job[w] EXCEPT !.open = open, !.side = side, !.t = t, !.back = back]
<1>1. JobRecord = [i : Rows1, open : Nat, blocked : BOOLEAN, todo : SUBSET Ticker,
                   side : Side, t : Ticker, back : {"manage", "rows"}]
  BY DEF JobRecord, Side
<1>2. job \in [Worker -> JobRecord]
  BY DEF Typed
<1> HIDE DEF Rows1
<1>3. [job EXCEPT ![w].open = open, ![w].side = side, ![w].t = t, ![w].back = back]
      = [job EXCEPT ![w] = r]
  BY <1>1, <1>2
<1>4. r \in JobRecord
  BY <1>1, <1>2
<1> HIDE DEF r
<1> QED BY <1>2, <1>3, <1>4

\* Only statuses change hands in these operators.
LEMMA WriteTyped ==
  ASSUME Typed, NEW t \in Ticker, NEW side \in Side,
         NEW status \in {"submitting", "unknown", "submitted"}, Write(t, side, status)
  PROVE  buy' \in [Ticker -> BuyStatus] /\ sell' \in [Ticker -> SellStatus]
BY DEF Typed, Write, BuyStatus, SellStatus

LEMMA RejectTyped ==
  ASSUME Typed, NEW t \in Ticker, NEW side \in Side, Reject(t, side)
  PROVE  /\ buy' \in [Ticker -> BuyStatus] /\ sell' \in [Ticker -> SellStatus]
         /\ shut' \in [Ticker -> BOOLEAN]
BY DEF Typed, Reject, BuyStatus, SellStatus

LEMMA GotoTyped ==
  ASSUME Typed, NEW w \in Worker, NEW stage \in Stage, Goto(w, stage)
  PROVE  pc' \in [Worker -> Stage] /\ job' \in [Worker -> JobRecord]
BY DEF Typed, Goto

LEMMA NextSweepTyped ==
  ASSUME Typed, NEW w \in Worker, NextSweep(w)
  PROVE  pc' \in [Worker -> Stage] /\ job' \in [Worker -> JobRecord]
BY NoJobTyped DEF Typed, NextSweep, Stage

LEMMA ReturnTyped ==
  ASSUME Typed, NEW w \in Worker, NEW opened \in Nat, Return(w, opened)
  PROVE  pc' \in [Worker -> Stage] /\ job' \in [Worker -> JobRecord]
<1>1. job[w].open + opened \in Nat /\ job[w].back \in Stage
  BY JobFields DEF Stage
<1>2. NoJob.side \in Side /\ NoJob.t \in Ticker /\ NoJob.back \in {"manage", "rows"}
  BY NoJobTyped DEF JobRecord, Side
<1>3. job' = [job EXCEPT ![w].open = job[w].open + opened, ![w].side = NoJob.side,
                       ![w].t = NoJob.t, ![w].back = NoJob.back]
  BY DEF Return
<1>4. job' \in [Worker -> JobRecord]
  <2>1. PICK open \in Nat, side \in Side, t \in Ticker, back \in {"manage", "rows"} :
          /\ open = job[w].open + opened /\ side = NoJob.side
          /\ t = NoJob.t /\ back = NoJob.back
    BY <1>1, <1>2
  <2>2. [job EXCEPT ![w].open = open, ![w].side = side, ![w].t = t, ![w].back = back]
          \in [Worker -> JobRecord]
    BY ReturnFields
  <2> QED BY <1>3, <2>1, <2>2
<1> QED BY <1>1, <1>4 DEF Typed, Return

LEMMA BeforeTyped ==
  ASSUME Typed, NEW w \in Worker, Before(w)
  PROVE  Typed'
<1>1. ASSUME NEW t \in Ticker, NEW side \in Side, Recover(w, t, side) PROVE Typed'
  <2>1. buy' \in [Ticker -> BuyStatus] /\ sell' \in [Ticker -> SellStatus]
        /\ shut' \in [Ticker -> BOOLEAN]
    <3>1. CASE Write(t, side, "submitted") /\ UNCHANGED shut
      BY <3>1, WriteTyped DEF Typed
    <3>2. CASE Reject(t, side)
      BY <3>2, RejectTyped
    <3> QED BY <1>1, <3>1, <3>2 DEF Recover
  <2> QED BY <1>1, <2>1 DEF Recover, Typed
<1>2. CASE Snapshot(w)
  <2>1. pc' \in [Worker -> Stage]
    BY <1>2 DEF Typed, Snapshot, Stage
  <2>2. job' \in [Worker -> JobRecord]
    BY <1>2, FieldsTyped DEF Snapshot
  <2> QED BY <1>2, <2>1, <2>2 DEF Snapshot, Typed, gates
<1>3. ASSUME NEW t \in Ticker, CancelStale(w, t) PROVE Typed'
  BY <1>3 DEF CancelStale, Typed, BuyStatus, ghost
<1>4. CASE StaleDone(w)
  <2>1. pc' \in [Worker -> Stage]
    BY <1>4 DEF Typed, StaleDone, AfterStale, Stage
  <2>2. job' \in [Worker -> JobRecord]
    <3>1. {t \in Ticker : buy[t] = "held"} \in SUBSET Ticker
      OBVIOUS
    <3> QED BY <1>4, <3>1, FieldsTyped DEF StaleDone
  <2> QED BY <1>4, <2>1, <2>2 DEF StaleDone, Typed, gates, ghost
<1>5. ASSUME NEW t \in Ticker, ManageSell(w, t) PROVE Typed'
  <2>1. ExitEnqueue(w, t, "manage")
    BY <1>5 DEF ManageSell
  <2>2. pc' \in [Worker -> Stage] /\ sell' \in [Ticker -> SellStatus]
    BY <2>1 DEF Typed, ExitEnqueue, Stage, SellStatus
  <2>3. job' \in [Worker -> JobRecord]
    <3>1. job[w].todo \ {t} \in SUBSET Ticker /\ "sell" \in Side /\ "manage" \in {"manage", "rows"}
      BY JobFields DEF Side
    <3>2. job' = [job EXCEPT ![w].todo = job[w].todo \ {t}, ![w].side = "sell",
                             ![w].t = t, ![w].back = "manage"]
      BY <2>1 DEF ExitEnqueue
    <3> QED BY <3>1, <3>2, SellFields
  <2> QED BY <2>1, <2>2, <2>3 DEF ExitEnqueue, Typed, gates, ghost
<1>6. ASSUME NEW t \in Ticker, ManageSkip(w, t) PROVE Typed'
  <2>1. job' \in [Worker -> JobRecord]
    BY <1>6, JobFields, FieldsTyped DEF ManageSkip
  <2> QED BY <1>6, <2>1 DEF ManageSkip, Typed, gates, ghost
<1>7. CASE ManageDone(w)
  <2>1. pc' \in [Worker -> Stage] /\ job' \in [Worker -> JobRecord]
    BY <1>7, GotoTyped DEF ManageDone, Stage
  <2> QED BY <1>7, <2>1 DEF ManageDone, Typed, gates, ghost
<1> QED BY <1>1, <1>2, <1>3, <1>4, <1>5, <1>6, <1>7 DEF Before, Side

LEMMA RowsTyped ==
  ASSUME Typed, NEW w \in Worker, Rows(w)
  PROVE  Typed'
<1>1. CASE Gate(w)
  <2>1. pc' \in [Worker -> Stage] /\ job' \in [Worker -> JobRecord] /\ raised' \in BOOLEAN
    <3>1. CASE GateOpen(w)
      <4>1. IsFiniteSet(Open)
        BY SweepAssumption, FS_Subset DEF Open
      <4>2. Cardinality(Open) \in Nat
        BY <4>1, FS_CardinalityType
      <4>3. job' = [job EXCEPT ![w].open = Cardinality(Open)] /\ raised' = FALSE
            /\ pc' = [pc EXCEPT ![w] = "rows"]
        BY <1>1, <3>1 DEF Gate
      <4>4. job' \in [Worker -> JobRecord]
        BY <4>2, <4>3, FieldsTyped
      <4> QED BY <4>3, <4>4 DEF Typed, Stage
    <3>2. CASE ~GateOpen(w)
      BY <1>1, <3>2, NextSweepTyped DEF Gate, Typed
    <3> QED BY <3>1, <3>2
  <2> QED BY <1>1, <2>1 DEF Gate, Typed, gates
<1>2. CASE RowsDone(w)
  <2>1. pc' \in [Worker -> Stage] /\ job' \in [Worker -> JobRecord]
    BY <1>2, NextSweepTyped DEF RowsDone
  <2> QED BY <1>2, <2>1 DEF RowsDone, Typed, gates, ghost
<1>3. CASE RowSkip(w)
  <2>1. job' \in [Worker -> JobRecord]
    BY <1>3, FieldsTyped, RowIsTicker DEF RowSkip
  <2> QED BY <1>3, <2>1 DEF RowSkip, Typed, gates, ghost
<1>4. CASE RowForcedExit(w)
  <2>1. PICK t : t = Watchlist[job[w].i]
    OBVIOUS
  <2>2. t \in Ticker /\ job[w].i + 1 \in 1 .. Len(Watchlist) + 1
    BY <1>4, <2>1, RowIsTicker DEF RowForcedExit
  <2>3. job' = [job EXCEPT ![w].i = @ + 1, ![w].side = "sell", ![w].t = t,
                           ![w].back = "rows"]
        /\ sell' = [sell EXCEPT ![t] = "pending"] /\ pc' = [pc EXCEPT ![w] = "approve"]
    BY <1>4, <2>1 DEF RowForcedExit
  <2>4. job' \in [Worker -> JobRecord]
    <3>1. {"buy", "sell"} \subseteq Side /\ "rows" \in {"manage", "rows"}
      BY DEF Side
    <3> QED BY <2>2, <2>3, <3>1, RowFields
  <2>5. pc' \in [Worker -> Stage] /\ sell' \in [Ticker -> SellStatus]
    BY <2>3 DEF Typed, Stage, SellStatus
  <2> QED BY <1>4, <2>4, <2>5 DEF RowForcedExit, Typed, gates, ghost
<1>5. CASE RowBuy(w)
  <2>1. PICK t : t = Watchlist[job[w].i]
    OBVIOUS
  <2>2. t \in Ticker /\ job[w].i + 1 \in 1 .. Len(Watchlist) + 1
    BY <1>5, <2>1, RowIsTicker DEF RowBuy
  <2>3. job' = [job EXCEPT ![w].i = @ + 1, ![w].side = "buy", ![w].t = t,
                           ![w].back = "rows"]
        /\ buy' = [buy EXCEPT ![t] = "pending"] /\ pc' = [pc EXCEPT ![w] = "approve"]
        /\ shut' = [shut EXCEPT ![t] = TRUE]
    BY <1>5, <2>1 DEF RowBuy
  <2>4. job' \in [Worker -> JobRecord]
    <3>1. {"buy", "sell"} \subseteq Side /\ "rows" \in {"manage", "rows"}
      BY DEF Side
    <3> QED BY <2>2, <2>3, <3>1, RowFields
  <2>5. pc' \in [Worker -> Stage] /\ buy' \in [Ticker -> BuyStatus]
        /\ shut' \in [Ticker -> BOOLEAN]
    BY <2>3 DEF Typed, Stage, BuyStatus
  <2> QED BY <1>5, <2>4, <2>5 DEF RowBuy, Typed, ghost
<1> QED BY <1>1, <1>2, <1>3, <1>4, <1>5 DEF Rows

LEMMA ApproveTyped ==
  ASSUME Typed, NEW w \in Worker, Approve(w) \/ Crash(w)
  PROVE  Typed'
<1> job[w].t \in Ticker /\ job[w].side \in Side /\ Opened(job[w].side) \in Nat
  BY JobFields DEF Opened
<1>1. CASE Submit(w)
  <2>1. pc' \in [Worker -> Stage] /\ job' \in [Worker -> JobRecord]
    BY <1>1, GotoTyped DEF Submit, Stage
  <2>2. buy' \in [Ticker -> BuyStatus] /\ sell' \in [Ticker -> SellStatus]
    BY <1>1, WriteTyped DEF Submit
  <2> QED BY <1>1, <2>1, <2>2 DEF Submit, Typed, gates, ghost
<1>2. CASE SubmitRefused(w)
  <2>1. pc' \in [Worker -> Stage] /\ job' \in [Worker -> JobRecord]
    BY <1>2, ReturnTyped DEF SubmitRefused
  <2> QED BY <1>2, <2>1 DEF SubmitRefused, Typed, gates
<1>3. CASE SendOk(w)
  <2>1. pc' \in [Worker -> Stage] /\ job' \in [Worker -> JobRecord]
    BY <1>3, ReturnTyped DEF SendOk
  <2>2. buy' \in [Ticker -> BuyStatus] /\ sell' \in [Ticker -> SellStatus]
    BY <1>3, WriteTyped DEF SendOk
  <2> QED BY <1>3, <2>1, <2>2 DEF SendOk, Typed, gates, ghost
<1>4. CASE SendRejected(w)
  <2>1. pc' \in [Worker -> Stage] /\ job' \in [Worker -> JobRecord]
    BY <1>4, ReturnTyped DEF SendRejected
  <2>2. buy' \in [Ticker -> BuyStatus] /\ sell' \in [Ticker -> SellStatus]
        /\ shut' \in [Ticker -> BOOLEAN]
    BY <1>4, RejectTyped DEF SendRejected
  <2> QED BY <1>4, <2>1, <2>2 DEF SendRejected, Typed, ghost
<1>5. CASE SendLost(w)
  <2>1. pc' \in [Worker -> Stage] /\ job' \in [Worker -> JobRecord]
    BY <1>5, ReturnTyped DEF SendLost
  <2>2. buy' \in [Ticker -> BuyStatus] /\ sell' \in [Ticker -> SellStatus]
    BY <1>5, WriteTyped DEF SendLost
  <2> QED BY <1>5, <2>1, <2>2 DEF SendLost, Typed, gates
<1>6. CASE Crash(w)
  <2>1. pc' \in [Worker -> Stage] /\ job' \in [Worker -> JobRecord]
    BY <1>6, NextSweepTyped DEF Crash
  <2> QED BY <1>6, <2>1 DEF Crash, Typed, gates, ghost
<1> QED BY <1>1, <1>2, <1>3, <1>4, <1>5, <1>6 DEF Approve

LEMMA WorldTyped ==
  ASSUME Typed, World
  PROVE  Typed'
<1>1. ASSUME NEW t \in Ticker, BuyFills(t) \/ BuyDies(t) \/ SellFills(t) \/ SellDies(t)
      PROVE Typed'
  BY <1>1 DEF BuyFills, BuyDies, SellFills, SellDies, Typed, BuyStatus, SellStatus, gates, ghost
<1>2. ASSUME NEW t \in Ticker, NEW side \in Side, OperatorApproves(t, side)
      PROVE Typed'
  <2>1. buy' \in [Ticker -> BuyStatus] /\ sell' \in [Ticker -> SellStatus]
        /\ shut' \in [Ticker -> BOOLEAN]
    <3>1. CASE Write(t, side, "submitted") /\ UNCHANGED shut
      BY <3>1, WriteTyped DEF Typed
    <3>2. CASE Reject(t, side)
      BY <3>2, RejectTyped
    <3> QED BY <1>2, <3>1, <3>2 DEF OperatorApproves
  <2> QED BY <1>2, <2>1 DEF OperatorApproves, Typed, ghost
<1>3. ASSUME NEW t \in Ticker, PriceMoves(t) \/ BadNews(t) \/ TimePasses(t)
      PROVE Typed'
  BY <1>3 DEF PriceMoves, BadNews, TimePasses, Typed, gates, ghost
<1>4. CASE KillSwitch \/ CalmDown
  BY <1>4 DEF KillSwitch, CalmDown, Typed, ghost
<1> QED BY <1>1, <1>2, <1>3, <1>4 DEF World, Side

LEMMA TypesInvariant == Spec => []Typed
<1>1. Init => Typed
  <2> SUFFICES ASSUME Init PROVE Typed
    OBVIOUS
  <2>1. job \in [Worker -> JobRecord]
    BY NoJobTyped DEF Init
  <2>2. fresh \subseteq Ticker \X Side
    BY DEF Init
  <2> QED BY <2>1, <2>2 DEF Init, Typed, BuyStatus, SellStatus, Stage
<1>2. Typed /\ [Next]_vars => Typed'
  <2>1. Typed /\ UNCHANGED vars => Typed'
    BY DEF Typed, vars
  <2> QED BY <2>1, BeforeTyped, RowsTyped, ApproveTyped, WorldTyped DEF Next
<1> QED BY <1>1, <1>2, PTL DEF Spec

-----------------------------------------------------------------------------
(* While sweeps do not overlap.  Others may still be replaying what they     *)
(* find unresolved, which is the first thing a sweep does.                   *)

Alone == \A v, w \in Worker : pc[v] # "recover" /\ pc[w] # "recover" => v = w

Lost == {"submitting", "unknown"}

\* The order of the approval under way belongs to a row of the watchlist.
FromRow(w) == pc[w] \in {"approve", "send"} /\ job[w].back = "rows"

\* open_count is not behind the book; a buy under way may be in it already.
Counts(w) ==
  /\ pc[w] = "rows" => Cardinality(Open) <= job[w].open
  /\ FromRow(w) =>
       /\ job[w].open < MaxPositions
       /\ job[w].side = "sell" => Cardinality(Open) <= job[w].open
       /\ job[w].side = "buy" => Cardinality(Open \ {job[w].t}) <= job[w].open

\* Only rows are bought.
BuysFromRows(w) == pc[w] \in {"approve", "send"} /\ job[w].side = "buy" => FromRow(w)

\* A sweep that saw nothing unresolved knows of what became so since: a lost
\* answer, or the order it is sending; and only such a sweep is at the rows.
Barred(w) ==
  /\ pc[w] # "recover" /\ ~job[w].blocked =>
       \A t \in Ticker, side \in Side :
         Of(t, side) \in Lost =>
           <<t, side>> \in fresh \/ (pc[w] = "send" /\ job[w].t = t /\ job[w].side = side)
  /\ pc[w] = "rows" \/ FromRow(w) => ~job[w].blocked

Kept(w) == (raised \/ Counts(w)) /\ BuysFromRows(w) /\ Barred(w)

Safe == CapUnlessRaised /\ \A w \in Worker : Kept(w)

\* Counting open positions.
LEMMA OpenFinite ==
  /\ Open \subseteq Ticker
  /\ \A S \in SUBSET Ticker : IsFiniteSet(S) /\ Cardinality(S) \in Nat
  /\ \A S, T \in SUBSET Ticker : S \subseteq T => Cardinality(S) <= Cardinality(T)
  /\ \A S \in SUBSET Ticker, t \in Ticker :
       Cardinality(S) <= Cardinality(S \ {t}) + 1
<1>1. Open \subseteq Ticker
  BY DEF Open
<1>2. ASSUME NEW S \in SUBSET Ticker PROVE IsFiniteSet(S) /\ Cardinality(S) \in Nat
  BY SweepAssumption, FS_Subset, FS_CardinalityType
<1>3. ASSUME NEW S \in SUBSET Ticker, NEW T \in SUBSET Ticker, S \subseteq T
      PROVE  Cardinality(S) <= Cardinality(T)
  BY <1>2, <1>3, FS_Subset
<1>4. ASSUME NEW S \in SUBSET Ticker, NEW t \in Ticker
      PROVE  Cardinality(S) <= Cardinality(S \ {t}) + 1
  <2>1. IsFiniteSet(S \ {t}) /\ Cardinality(S \ {t}) \in Nat
    BY <1>2
  <2>2. Cardinality((S \ {t}) \union {t}) = Cardinality(S \ {t}) + 1
    BY <2>1, FS_AddElement
  <2>3. S \subseteq (S \ {t}) \union {t} /\ (S \ {t}) \union {t} \in SUBSET Ticker
    OBVIOUS
  <2> QED BY <1>3, <2>2, <2>3
<1> QED BY <1>1, <1>2, <1>3, <1>4

\* A step of w past its recovery finds the others still before theirs.
LEMMA OthersWait ==
  ASSUME Alone, Alone', NEW w \in Worker, NEW v \in Worker, v # w, pc'[v] = pc[v],
         pc[w] # "recover" \/ pc'[w] # "recover"
  PROVE  pc'[v] = "recover"
BY DEF Alone

LEMMA OwnStep ==
  ASSUME Typed, Safe, Alone, Alone', NEW w \in Worker, Kept(w)', CapUnlessRaised',
         \A v \in Worker \ {w} : pc'[v] = pc[v],
         pc[w] # "recover" \/ pc'[w] # "recover"
  PROVE  Safe'
<1> SUFFICES ASSUME NEW v \in Worker, v # w PROVE Kept(v)'
  BY DEF Safe
<1>1. pc'[v] = "recover"
  BY OthersWait
<1> QED BY <1>1 DEF Kept, Counts, BuysFromRows, Barred, FromRow

\* Steps that open nothing, lose nothing and move no sweep.
LEMMA Quiet ==
  ASSUME Typed, Safe, pc' = pc, job' = job, raised' = raised,
         \A t \in Ticker : buy[t] = "none" => buy'[t] = "none",
         \A t \in Ticker, side \in Side : Of(t, side)' \in Lost =>
           Of(t, side) \in Lost /\ (<<t, side>> \in fresh => <<t, side>> \in fresh')
  PROVE  Safe'
<1>1. Open' \subseteq Open /\ Open \subseteq Ticker
  BY DEF Open
<1>2. Cardinality(Open') <= Cardinality(Open)
      /\ Cardinality(Open') \in Nat /\ Cardinality(Open) \in Nat
  BY <1>1, OpenFinite
<1>3. CapUnlessRaised'
  BY <1>2, SweepAssumption DEF Safe, CapUnlessRaised
<1>4. ASSUME NEW w \in Worker PROVE Kept(w)'
  <2>1. Kept(w) /\ job[w].open \in Nat /\ job[w].t \in Ticker
    BY JobFields DEF Safe
  <2>2. Cardinality(Open' \ {job[w].t}) <= Cardinality(Open \ {job[w].t})
        /\ Cardinality(Open' \ {job[w].t}) \in Nat /\ Cardinality(Open \ {job[w].t}) \in Nat
    <3>1. Open' \ {job[w].t} \subseteq Open \ {job[w].t}
      BY <1>1
    <3> QED BY <1>1, <3>1, OpenFinite
  <2>3. Counts(w) => Counts(w)'
    BY <1>2, <2>1, <2>2 DEF Counts, FromRow
  <2>4. BuysFromRows(w)' /\ Barred(w)'
    BY <2>1 DEF Kept, BuysFromRows, Barred, FromRow
  <2> QED BY <2>1, <2>3, <2>4 DEF Kept
<1> QED BY <1>3, <1>4 DEF Safe

LEMMA WorldSafe ==
  ASSUME Typed, Safe, World \/ UNCHANGED vars \/
         (\E w \in Worker, t \in Ticker, side \in Side : Recover(w, t, side) \/ CancelStale(w, t))
  PROVE  Safe'
<1> DEFINE Shrinks ==
      /\ pc' = pc /\ job' = job /\ raised' = raised
      /\ \A t \in Ticker : buy[t] = "none" => buy'[t] = "none"
      /\ \A t \in Ticker, side \in Side : Of(t, side)' \in Lost =>
           Of(t, side) \in Lost /\ (<<t, side>> \in fresh => <<t, side>> \in fresh')
<1> SUFFICES Shrinks
  BY Quiet
<1>1. ASSUME NEW t \in Ticker, BuyFills(t) \/ BuyDies(t) \/ SellFills(t) \/ SellDies(t)
      PROVE Shrinks
  BY <1>1 DEF BuyFills, BuyDies, SellFills, SellDies, Typed, Of, Lost, gates, ghost
<1>2. ASSUME NEW t \in Ticker, NEW side \in Side, Write(t, side, "submitted") \/ Reject(t, side),
             Of(t, side) # "none", pc' = pc, job' = job, raised' = raised,
             fresh' = fresh \/ fresh' = fresh \ {<<t, side>>}
      PROVE Shrinks
  <2>1. CASE side = "buy"
    BY <1>2, <2>1 DEF Write, Reject, Typed, Of, Lost, Side
  <2>2. CASE side = "sell"
    BY <1>2, <2>2 DEF Write, Reject, Typed, Of, Lost, Side
  <2> QED BY <2>1, <2>2 DEF Side
<1>3. ASSUME NEW t \in Ticker, NEW side \in Side, OperatorApproves(t, side)
      PROVE Shrinks
  BY <1>2, <1>3 DEF OperatorApproves, ghost
<1>4. ASSUME NEW t \in Ticker, PriceMoves(t) \/ BadNews(t) \/ TimePasses(t)
      PROVE Shrinks
  BY <1>4 DEF PriceMoves, BadNews, TimePasses, Of, Lost, gates, ghost
<1>5. CASE KillSwitch \/ CalmDown
  BY <1>5 DEF KillSwitch, CalmDown, Of, ghost
<1>6. CASE UNCHANGED vars
  BY <1>6 DEF vars, Of
<1>7. ASSUME NEW w \in Worker, NEW t \in Ticker, NEW side \in Side, Recover(w, t, side)
      PROVE Shrinks
  <2>1. Of(t, side) # "none"
    BY <1>7 DEF Recover, Unresolved, Of, Side
  <2> QED BY <1>2, <1>7, <2>1 DEF Recover
<1>8. ASSUME NEW w \in Worker, NEW t \in Ticker, CancelStale(w, t) PROVE Shrinks
  BY <1>8 DEF CancelStale, Of, Lost, Typed, ghost
<1> QED BY <1>1, <1>3, <1>4, <1>5, <1>6, <1>7, <1>8 DEF World, Side

\* What unresolved_orders finds, pair by pair.
LEMMA UnresolvedIs ==
  /\ Unresolved \subseteq Ticker \X Side
  /\ \A t \in Ticker, side \in Side : <<t, side>> \in Unresolved <=> Of(t, side) \in Lost
<1>1. Unresolved \subseteq Ticker \X Side
  BY DEF Unresolved, Side
<1>2. ASSUME NEW t \in Ticker
      PROVE  /\ <<t, "buy">> \in Unresolved <=> buy[t] \in Lost
             /\ <<t, "sell">> \in Unresolved <=> sell[t] \in Lost
  BY DEF Unresolved, Lost
<1> QED BY <1>1, <1>2 DEF Of, Side

\* A step of the sweep alone: what it has to establish for its new place.
LEMMA Moves ==
  ASSUME Typed, Safe, Alone, Alone', NEW w \in Worker,
         Snapshot(w) \/ StaleDone(w) \/ (\E t \in Ticker : ManageSell(w, t) \/ ManageSkip(w, t))
           \/ ManageDone(w) \/ Rows(w) \/ Approve(w) \/ Crash(w)
  PROVE  /\ \A v \in Worker \ {w} : pc'[v] = pc[v]
         /\ pc[w] # "recover" \/ pc'[w] # "recover"
<1> USE DEF Typed
<1>1. CASE Snapshot(w)
  BY <1>1 DEF Snapshot
<1>2. CASE StaleDone(w)
  BY <1>2 DEF StaleDone
<1>3. ASSUME NEW t \in Ticker, ManageSell(w, t) \/ ManageSkip(w, t)
      PROVE (\A v \in Worker \ {w} : pc'[v] = pc[v]) /\ pc[w] # "recover"
  BY <1>3 DEF ManageSell, ManageSkip, ExitEnqueue
<1>4. CASE ManageDone(w)
  BY <1>4 DEF ManageDone, Goto
<1>5. CASE Rows(w)
  BY <1>5 DEF Rows, Gate, RowsDone, RowSkip, RowForcedExit, RowBuy, NextSweep
<1>6. CASE Approve(w)
  BY <1>6 DEF Approve, Submit, SubmitRefused, SendOk, SendRejected, SendLost, Goto, Return
<1>7. CASE Crash(w)
  BY <1>7 DEF Crash, NextSweep
<1> QED BY <1>1, <1>2, <1>3, <1>4, <1>5, <1>6, <1>7

\* A book that did not grow is still within the cap.
LEMMA SameBook ==
  ASSUME Typed, Safe, buy' = buy, raised' = raised
  PROVE  Open' = Open /\ CapUnlessRaised'
BY DEF Open, Safe, CapUnlessRaised

\* Towards the gate nothing is bought: only what is unresolved matters.
LEMMA BeforeSafe ==
  ASSUME Typed, Safe, Alone, Alone', NEW w \in Worker,
         Snapshot(w) \/ StaleDone(w) \/ (\E t \in Ticker : ManageSell(w, t) \/ ManageSkip(w, t))
           \/ ManageDone(w)
  PROVE  Safe'
<1> Kept(w) /\ pc \in [Worker -> Stage] /\ job \in [Worker -> JobRecord] /\ job[w] \in JobRecord
  BY DEF Safe, Typed
<1>1. Kept(w)' /\ buy' = buy /\ raised' = raised
  <2>1. CASE Snapshot(w)
    <3>1. /\ pc'[w] = "stale" /\ buy' = buy /\ sell' = sell /\ raised' = raised
          /\ job'[w].blocked = (Blockers # {})
      BY <2>1 DEF Snapshot, JobRecord
    <3>2. ~job'[w].blocked => \A t \in Ticker, side \in Side : Of(t, side)' \notin Lost
      BY <3>1, UnresolvedIs DEF Blockers, Of
    <3> QED BY <3>1, <3>2 DEF Kept, Counts, BuysFromRows, Barred, FromRow
  <2>2. CASE StaleDone(w)
    <3>1. /\ pc[w] = "stale" /\ pc'[w] = "manage" /\ buy' = buy /\ sell' = sell
          /\ raised' = raised /\ fresh' = fresh /\ job'[w].blocked = job[w].blocked
      BY <2>2 DEF StaleDone, AfterStale, JobRecord, ghost
    <3> QED BY <3>1 DEF Kept, Counts, BuysFromRows, Barred, FromRow, Of
  <2>3. ASSUME NEW t \in Ticker, ManageSell(w, t)
        PROVE  Kept(w)' /\ buy' = buy /\ raised' = raised
    <3>1. /\ pc[w] = "manage" /\ pc'[w] = "approve" /\ buy' = buy
          /\ sell' = [sell EXCEPT ![t] = "pending"]
          /\ raised' = raised /\ fresh' = fresh
      BY <2>3 DEF ManageSell, ExitEnqueue, ghost
    <3>2. job'[w] = [job[w] EXCEPT !.todo = job[w].todo \ {t}, !.side = "sell", !.t = t,
                                   !.back = "manage"]
      BY <2>3 DEF ManageSell, ExitEnqueue
    <3>3. job'[w].side = "sell" /\ job'[w].back = "manage" /\ job'[w].blocked = job[w].blocked
      BY <3>2 DEF JobRecord
    <3>4. \A u \in Ticker, side \in Side : Of(u, side)' \in Lost => Of(u, side) \in Lost
      BY <3>1 DEF Of, Lost, Typed
    <3> QED BY <3>1, <3>3, <3>4 DEF Kept, Counts, BuysFromRows, Barred, FromRow
  <2>4. ASSUME NEW t \in Ticker, ManageSkip(w, t)
        PROVE  Kept(w)' /\ buy' = buy /\ raised' = raised
    <3>1. /\ pc[w] = "manage" /\ pc' = pc /\ buy' = buy /\ sell' = sell
          /\ raised' = raised /\ fresh' = fresh /\ job'[w].blocked = job[w].blocked
      BY <2>4 DEF ManageSkip, JobRecord, ghost
    <3> QED BY <3>1 DEF Kept, Counts, BuysFromRows, Barred, FromRow, Of
  <2>5. CASE ManageDone(w)
    <3>1. /\ pc[w] = "manage" /\ pc'[w] = "gate" /\ buy' = buy /\ sell' = sell
          /\ raised' = raised /\ fresh' = fresh /\ job' = job
      BY <2>5 DEF ManageDone, Goto, ghost
    <3> QED BY <3>1 DEF Kept, Counts, BuysFromRows, Barred, FromRow, Of
  <2> QED BY <2>1, <2>2, <2>3, <2>4, <2>5
<1> QED BY <1>1, Moves, SameBook, OwnStep

\* The next sweep has not counted or seen anything yet.
LEMMA NextSweepSafe ==
  ASSUME Typed, Safe, Alone, Alone', NEW w \in Worker, RowsDone(w) \/ Crash(w) \/
         (Gate(w) /\ ~GateOpen(w))
  PROVE  Safe'
<1>1. pc'[w] = "recover" /\ buy' = buy /\ raised' = raised
  BY DEF RowsDone, Crash, Gate, NextSweep, Typed, ghost
<1>2. Kept(w)'
  BY <1>1 DEF Kept, Counts, BuysFromRows, Barred, FromRow
<1>3. Rows(w) \/ Crash(w)
  BY DEF Rows
<1> QED BY <1>1, <1>2, <1>3, Moves, SameBook, OwnStep

LEMMA RowsSafe ==
  ASSUME Typed, Safe, Alone, Alone', NEW w \in Worker, Rows(w)
  PROVE  Safe'
<1> Kept(w) /\ pc \in [Worker -> Stage] /\ job \in [Worker -> JobRecord] /\ job[w] \in JobRecord
  BY DEF Safe, Typed
<1> job[w].open \in Nat /\ MaxPositions \in Nat
  BY SweepAssumption DEF JobRecord
<1> Cardinality(Open) \in Nat
  BY OpenFinite
<1>1. CASE Gate(w) /\ GateOpen(w)
  <2>1. /\ pc[w] = "gate" /\ pc'[w] = "rows" /\ buy' = buy /\ sell' = sell /\ fresh' = fresh
        /\ job'[w].open = Cardinality(Open) /\ job'[w].blocked = job[w].blocked
        /\ ~job[w].blocked /\ Cardinality(Open) < MaxPositions
    BY <1>1 DEF Gate, GateOpen, JobRecord
  <2>2. Open' = Open
    BY <2>1 DEF Open
  <2>3. Kept(w)' /\ CapUnlessRaised'
    BY <2>1, <2>2 DEF Kept, Counts, BuysFromRows, Barred, FromRow, Of, CapUnlessRaised
  <2> QED BY <2>3, Moves, OwnStep
<1>2. CASE RowSkip(w)
  <2>1. /\ pc[w] = "rows" /\ pc' = pc /\ buy' = buy /\ sell' = sell /\ fresh' = fresh
        /\ raised' = raised /\ job'[w] = [job[w] EXCEPT !.i = job[w].i + 1]
    BY <1>2 DEF RowSkip, ghost
  <2>2. job'[w].open = job[w].open /\ job'[w].blocked = job[w].blocked
    BY <2>1 DEF JobRecord
  <2>3. Open' = Open /\ CapUnlessRaised'
    BY <2>1, SameBook
  <2>4. Kept(w)'
    BY <2>1, <2>2, <2>3 DEF Kept, Counts, BuysFromRows, Barred, FromRow, Of
  <2> QED BY <2>3, <2>4, Moves, OwnStep
<1>3. CASE RowForcedExit(w)
  <2>1. PICK t : t = Watchlist[job[w].i]
    OBVIOUS
  <2>2. /\ pc[w] = "rows" /\ pc'[w] = "approve" /\ buy' = buy /\ fresh' = fresh
        /\ sell' = [sell EXCEPT ![t] = "pending"] /\ raised' = raised
        /\ job'[w] = [job[w] EXCEPT !.i = job[w].i + 1, !.side = "sell", !.t = t, !.back = "rows"]
        /\ job[w].open < MaxPositions
    BY <1>3, <2>1 DEF RowForcedExit, More, ghost
  <2>3. job'[w].side = "sell" /\ job'[w].back = "rows" /\ job'[w].open = job[w].open
        /\ job'[w].blocked = job[w].blocked
    BY <2>2 DEF JobRecord
  <2>4. Open' = Open /\ CapUnlessRaised'
    BY <2>2, SameBook
  <2>5. \A u \in Ticker, side \in Side : Of(u, side)' \in Lost => Of(u, side) \in Lost
    BY <2>2 DEF Of, Lost, Typed
  <2>6. Kept(w)'
    BY <2>2, <2>3, <2>4, <2>5 DEF Kept, Counts, BuysFromRows, Barred, FromRow
  <2> QED BY <2>4, <2>6, Moves, OwnStep
<1>4. CASE RowBuy(w)
  <2>1. PICK t : t = Watchlist[job[w].i]
    OBVIOUS
  <2>2. /\ pc[w] = "rows" /\ pc'[w] = "approve" /\ sell' = sell /\ fresh' = fresh
        /\ buy[t] = "none" /\ buy' = [buy EXCEPT ![t] = "pending"] /\ raised' = raised
        /\ job'[w] = [job[w] EXCEPT !.i = job[w].i + 1, !.side = "buy", !.t = t, !.back = "rows"]
        /\ job[w].open < MaxPositions
    BY <1>4, <2>1 DEF RowBuy, More, ghost
  <2>3. job'[w].side = "buy" /\ job'[w].t = t /\ job'[w].back = "rows"
        /\ job'[w].open = job[w].open /\ job'[w].blocked = job[w].blocked
    BY <2>2 DEF JobRecord
  <2>4. t \in Ticker
    BY <1>4, <2>1, RowIsTicker DEF RowBuy
  <2>5. Open' \ {t} \subseteq Open /\ Open' \subseteq Ticker /\ Open \subseteq Ticker
    BY <2>2, <2>4 DEF Open, Typed
  <2>6. /\ Cardinality(Open' \ {t}) <= Cardinality(Open)
        /\ Cardinality(Open') <= Cardinality(Open' \ {t}) + 1
        /\ Cardinality(Open') \in Nat /\ Cardinality(Open' \ {t}) \in Nat
    BY <2>4, <2>5, OpenFinite
  <2>7. \A u \in Ticker, side \in Side : Of(u, side)' \in Lost => Of(u, side) \in Lost
    BY <2>2 DEF Of, Lost, Typed
  <2>8. (raised \/ Counts(w)) => (raised' \/ (Counts(w)' /\ Cardinality(Open') <= MaxPositions))
    BY <2>2, <2>3, <2>6 DEF Counts, FromRow
  <2>9. BuysFromRows(w)' /\ Barred(w)'
    BY <2>2, <2>3, <2>7 DEF Kept, BuysFromRows, Barred, FromRow
  <2> QED BY <2>8, <2>9, Moves, OwnStep DEF Kept, CapUnlessRaised
<1> QED BY <1>1, <1>2, <1>3, <1>4, NextSweepSafe DEF Rows

\* Where an approval hands back to.
LEMMA Returned ==
  ASSUME Typed, NEW w \in Worker, NEW n \in Nat, Return(w, n)
  PROVE  /\ pc'[w] = job[w].back /\ job[w].back \in {"manage", "rows"}
         /\ job'[w].blocked = job[w].blocked /\ job'[w].open = job[w].open + n
<1>1. job'[w] = [job[w] EXCEPT !.open = job[w].open + n, !.side = NoJob.side,
                               !.t = NoJob.t, !.back = NoJob.back]
  BY DEF Return, Typed
<1> QED BY <1>1 DEF Return, Typed, JobRecord

\* An approval of w ends.  The order of a row is counted as an open position
\* if it was bought and submitted; n says so.
LEMMA ReturnSafe ==
  ASSUME Typed, Safe, Alone, Alone', NEW w \in Worker, Approve(w), NEW n \in {0, 1}, Return(w, n),
         NEW t \in Ticker, t = job[w].t, NEW side \in Side, side = job[w].side,
         \A u \in Ticker \ {t} : buy'[u] = buy[u],
         side = "sell" => buy' = buy /\ n = 0 /\ raised' = raised,
         side = "buy" /\ n = 0 => raised' \/ (raised' = raised /\ buy'[t] = "none"),
         raised => raised',
         \A u \in Ticker, s \in Side : Of(u, s)' \in Lost =>
           \/ <<u, s>> \in fresh'
           \/ Of(u, s) \in Lost /\ (pc[w] = "send" => <<u, s>> # <<t, side>>),
         fresh \subseteq fresh'
  PROVE  Safe'
<1> Kept(w) /\ pc \in [Worker -> Stage] /\ pc[w] \in {"approve", "send"}
  BY DEF Safe, Typed, Approve, Submit, SubmitRefused, SendOk, SendRejected, SendLost
<1> job[w].open \in Nat /\ MaxPositions \in Nat
  BY JobFields, SweepAssumption
<1>1. /\ pc'[w] = job[w].back /\ job[w].back \in {"manage", "rows"}
      /\ job'[w].blocked = job[w].blocked /\ job'[w].open = job[w].open + n
  BY Returned
<1>2. BuysFromRows(w)' /\ Barred(w)'
  BY <1>1 DEF Kept, BuysFromRows, Barred, FromRow
<1>3. /\ Open' \subseteq Ticker /\ Open \subseteq Ticker /\ Open' \ {t} = Open \ {t}
      /\ side = "sell" => Open' = Open
      /\ buy'[t] = "none" => Open' \subseteq Open \ {t}
  BY DEF Open
<1>4. /\ Cardinality(Open') \in Nat /\ Cardinality(Open) \in Nat /\ Cardinality(Open \ {t}) \in Nat
      /\ Cardinality(Open') <= Cardinality(Open \ {t}) + 1
      /\ buy'[t] = "none" => Cardinality(Open') <= Cardinality(Open \ {t})
      /\ Cardinality(Open \ {t}) <= Cardinality(Open)
  <2>1. Open \ {t} \in SUBSET Ticker /\ Open \ {t} \subseteq Open
    BY <1>3
  <2>2. Cardinality(Open') <= Cardinality(Open' \ {t}) + 1
    BY <1>3, OpenFinite
  <2> QED BY <1>3, <2>1, <2>2, OpenFinite
<1>5. side = "buy" => FromRow(w)
  BY DEF Kept, BuysFromRows
<1>6. raised' \/ (Cardinality(Open') <= MaxPositions /\ Counts(w)')
  <2> SUFFICES ASSUME ~raised' PROVE Cardinality(Open') <= MaxPositions /\ Counts(w)'
    OBVIOUS
  <2>1. Counts(w) /\ Cardinality(Open) <= MaxPositions
    BY DEF Kept, Safe, CapUnlessRaised
  <2>2. CASE side = "sell"
    BY <1>1, <1>3, <1>4, <2>1, <2>2 DEF Counts, FromRow
  <2>3. CASE side = "buy"
    <3>1. job[w].open < MaxPositions /\ Cardinality(Open \ {t}) <= job[w].open
      BY <1>5, <2>1, <2>3 DEF Counts
    <3>2. Cardinality(Open') <= job[w].open + n
      BY <1>4, <2>3, <3>1
    <3> QED BY <1>1, <1>4, <3>1, <3>2 DEF Counts, FromRow
  <2> QED BY <2>2, <2>3 DEF Side
<1> QED BY <1>2, <1>6, Moves, OwnStep DEF Kept, CapUnlessRaised

LEMMA ApproveSafe ==
  ASSUME Typed, Safe, Alone, Alone', NEW w \in Worker, Approve(w)
  PROVE  Safe'
<1> Kept(w) /\ pc \in [Worker -> Stage] /\ job \in [Worker -> JobRecord] /\ job[w] \in JobRecord
  BY DEF Safe, Typed
<1> PICK t \in Ticker, side \in Side : t = job[w].t /\ side = job[w].side
  BY JobFields
<1>1. CASE Submit(w)
  <2>1. /\ pc[w] = "approve" /\ pc'[w] = "send" /\ job' = job /\ raised' = raised /\ fresh' = fresh
        /\ Of(t, side) = "pending" /\ Write(t, side, "submitting")
    BY <1>1 DEF Submit, Goto, ghost
  <2>2. Open' = Open
    BY <2>1 DEF Open, Write, Of, Side, Typed
  <2>3. \A u \in Ticker, s \in Side : Of(u, s)' \in Lost =>
          Of(u, s) \in Lost \/ (u = t /\ s = side)
    BY <2>1 DEF Write, Of, Lost, Side, Typed
  <2>4. Kept(w)'
    BY <2>1, <2>2, <2>3 DEF Kept, Counts, BuysFromRows, Barred, FromRow
  <2>5. CapUnlessRaised'
    BY <2>1, <2>2 DEF Safe, CapUnlessRaised
  <2> QED BY <2>4, <2>5, Moves, OwnStep
<1>2. CASE SubmitRefused(w)
  <2>1. /\ Return(w, 0) /\ buy' = buy /\ sell' = sell /\ fresh' = fresh /\ pc[w] = "approve"
        /\ raised' = (raised \/ side = "buy") /\ raised \in BOOLEAN
    BY <1>2 DEF SubmitRefused, Typed
  <2>2. \A u \in Ticker, s \in Side : Of(u, s)' = Of(u, s)
    BY <2>1 DEF Of
  <2>3. (side = "buy" => raised') /\ (raised => raised') /\ (side = "sell" => raised' = raised)
    BY <2>1
  <2> QED BY <2>1, <2>2, <2>3, ReturnSafe
<1>3. CASE SendOk(w)
  <2>1. /\ Return(w, Opened(side)) /\ fresh' = fresh /\ raised' = raised
        /\ Write(t, side, "submitted")
    BY <1>3 DEF SendOk, ghost
  <2> QED BY <2>1, ReturnSafe DEF Of, Side, Write, Lost, Opened, Typed
<1>4. CASE SendRejected(w)
  <2>1. Return(w, 0) /\ fresh' = fresh /\ raised' = raised /\ Reject(t, side)
    BY <1>4 DEF SendRejected, ghost
  <2> QED BY <2>1, ReturnSafe DEF Of, Side, Reject, Lost, Typed
<1>5. CASE SendLost(w)
  <2>1. /\ Return(w, 0) /\ fresh' = fresh \union {<<t, side>>}
        /\ raised' = (raised \/ side = "buy") /\ Write(t, side, "unknown")
        /\ raised \in BOOLEAN
    BY <1>5 DEF SendLost, Typed
  <2>2. /\ \A u \in Ticker \ {t} : buy'[u] = buy[u]
        /\ side = "sell" => buy' = buy
        /\ \A u \in Ticker, s \in Side : Of(u, s)' = Of(u, s) \/ (u = t /\ s = side)
    BY <2>1 DEF Of, Side, Write, Typed
  <2>3. (side = "buy" => raised') /\ (raised => raised') /\ (side = "sell" => raised' = raised)
    BY <2>1
  <2>4. <<t, side>> \in fresh' /\ fresh \subseteq fresh'
    BY <2>1
  <2>5. \A u \in Ticker, s \in Side : Of(u, s)' \in Lost =>
          <<u, s>> \in fresh' \/ (Of(u, s) \in Lost /\ <<u, s>> # <<t, side>>)
    BY <2>2, <2>4
  <2> QED BY <2>1, <2>2, <2>3, <2>4, <2>5, ReturnSafe
<1> QED BY <1>1, <1>2, <1>3, <1>4, <1>5 DEF Approve

LEMMA SafeStep ==
  ASSUME Typed, Alone, Alone', Safe, [Next]_vars
  PROVE  Safe'
<1>1. ASSUME NEW w \in Worker, Before(w) PROVE Safe'
  BY <1>1, WorldSafe, BeforeSafe DEF Before, Side
<1>2. ASSUME NEW w \in Worker, Crash(w) PROVE Safe'
  BY <1>2, NextSweepSafe
<1> QED BY <1>1, <1>2, RowsSafe, ApproveSafe, WorldSafe DEF Next

LEMMA SafeInit == Init => Safe
<1> SUFFICES ASSUME Init PROVE Safe
  OBVIOUS
<1>1. Open = {} /\ MaxPositions \in Nat
  BY SweepAssumption DEF Init, Open
<1>2. Cardinality(Open) <= MaxPositions
  BY <1>1, FS_EmptySet
<1> QED BY <1>2 DEF Init, Safe, CapUnlessRaised, Kept, Counts, BuysFromRows, Barred, FromRow

THEOREM SafeWhileAlone == Spec /\ []Alone => []Safe
<1>1. Typed /\ Alone /\ Alone' /\ Safe /\ [Next]_vars => Safe'
  BY SafeStep
<1> QED BY <1>1, SafeInit, TypesInvariant, PTL DEF Spec

\* max_positions holds across sweeps that do not overlap, through crashes,
\* recoveries by others and approvals from the dashboard, unless the approval
\* of a buy raised.
THEOREM CapWhileAlone == Spec /\ []Alone => []CapUnlessRaised
<1>1. Safe => CapUnlessRaised
  BY DEF Safe
<1> QED BY <1>1, SafeWhileAlone, PTL

\* A buy is created at the rows only, and a sweep gets there only if it found
\* nothing unresolved.
LEMMA BuysOnlyUnblocked ==
  ASSUME Typed, Safe, [Next]_vars, NEW t \in Ticker, buy[t] = "none", buy'[t] = "pending"
  PROVE  Unresolved \subseteq fresh
<1> DEFINE Same == buy'[t] = buy[t] \/ buy'[t] # "pending"
<1>1. ASSUME NEW u \in Ticker, NEW side \in Side, NEW status,
             status # "pending", Write(u, side, status) \/ Reject(u, side)
      PROVE  Same
  BY <1>1 DEF Write, Reject, Typed
<1>2. ASSUME World \/ UNCHANGED vars PROVE Same
  BY <1>1, <1>2 DEF World, vars, BuyFills, BuyDies, SellFills, SellDies, OperatorApproves, PriceMoves,
     BadNews, TimePasses, KillSwitch, CalmDown, Typed, Side
<1>3. ASSUME NEW w \in Worker, Before(w) PROVE Same
  BY <1>1, <1>3 DEF Before, Recover, Snapshot, CancelStale, StaleDone, ManageSell, ExitEnqueue,
     ManageSkip, ManageDone, Typed, Side
<1>4. ASSUME NEW w \in Worker, Rows(w), ~RowBuy(w) PROVE Same
  BY <1>4 DEF Rows, Gate, RowsDone, RowSkip, RowForcedExit
<1>5. ASSUME NEW w \in Worker, Approve(w) \/ Crash(w) PROVE Same
  <2>1. job[w].t \in Ticker /\ job[w].side \in Side
    BY JobFields
  <2>2. CASE SubmitRefused(w) \/ Crash(w)
    BY <2>2 DEF SubmitRefused, Crash
  <2>3. CASE Submit(w)
    BY <2>1, <2>3, <1>1 DEF Submit
  <2>4. CASE SendOk(w) \/ SendRejected(w) \/ SendLost(w)
    BY <2>1, <2>4, <1>1 DEF SendOk, SendRejected, SendLost
  <2> QED BY <1>5, <2>2, <2>3, <2>4 DEF Approve
<1>6. ~Same
  OBVIOUS
<1> HIDE DEF Same
<1>7. PICK w \in Worker : RowBuy(w)
  BY <1>2, <1>3, <1>4, <1>5, <1>6 DEF Next
<1>8. pc[w] = "rows" /\ Barred(w)
  BY <1>7 DEF RowBuy, Safe, Kept
<1>9. \A u \in Ticker, side \in Side : Of(u, side) \in Lost => <<u, side>> \in fresh
  BY <1>8 DEF Barred
<1>10. ASSUME NEW x \in Unresolved PROVE x \in fresh
  <2>1. PICK u \in Ticker, side \in Side : x = <<u, side>>
    BY UnresolvedIs
  <2> QED BY <1>9, <2>1, UnresolvedIs
<1> QED BY <1>10

\* No buy is created beside an order that was unresolved when the sweep took
\* its snapshot, as long as sweeps do not overlap.
THEOREM BlockedWhileAlone == Spec /\ []Alone => OldUnknownBlocks
<1>1. Typed /\ Safe /\ [Next]_vars =>
        [\A t \in Ticker : buy[t] = "none" /\ buy'[t] = "pending" => Unresolved \subseteq fresh]_vars
  BY BuysOnlyUnblocked
<1> QED BY <1>1, SafeWhileAlone, TypesInvariant, PTL DEF Spec, OldUnknownBlocks

\* With one sweeping process nothing is assumed of the behaviour.
THEOREM CapHolds ==
  ASSUME NEW w \in Worker, Worker = {w}
  PROVE  Spec => []CapUnlessRaised
<1>1. Alone
  BY DEF Alone
<1> QED BY <1>1, CapWhileAlone, PTL

THEOREM OldUnknownsBlock ==
  ASSUME NEW w \in Worker, Worker = {w}
  PROVE  Spec => OldUnknownBlocks
<1>1. Alone
  BY DEF Alone
<1> QED BY <1>1, BlockedWhileAlone, PTL

-----------------------------------------------------------------------------
(* With one sweeping process nobody replays what it is sending, so that an   *)
(* exit is an exit of shares that are held.                                  *)

ExitsOfHeld ==
  /\ \A t \in Ticker : sell[t] # "none" => buy[t] = "held"
  /\ \A w \in Worker : pc[w] = "send" => Of(job[w].t, job[w].side) = "submitting"

\* An order changes its status; nothing else does, and nobody is sending it.
LEMMA StatusStep ==
  ASSUME Typed, ExitsOfHeld, NEW t \in Ticker, NEW side \in Side, Of(t, side) # "none",
         (\E status \in {"submitting", "unknown", "submitted"} : Write(t, side, status))
           \/ Reject(t, side),
         side = "buy" => buy[t] # "held"
  PROVE  /\ \A u \in Ticker : sell'[u] # "none" => buy'[u] = "held"
         /\ \A u \in Ticker, s \in Side : Of(u, s)' = Of(u, s) \/ (u = t /\ s = side)
<1>1. CASE side = "buy"
  <2>1. sell[t] = "none"
    BY <1>1 DEF ExitsOfHeld
  <2> QED BY <1>1, <2>1 DEF Write, Reject, Of, Side, Typed, ExitsOfHeld
<1>2. CASE side = "sell"
  <2>1. buy[t] = "held"
    BY <1>2 DEF ExitsOfHeld, Of
  <2> QED BY <1>2, <2>1 DEF Write, Reject, Of, Side, Typed, ExitsOfHeld
<1> QED BY <1>1, <1>2 DEF Side

LEMMA ExitsStep ==
  ASSUME Typed, ExitsOfHeld, [Next]_vars, NEW w \in Worker, Worker = {w}
  PROVE  ExitsOfHeld'
<1> pc \in [Worker -> Stage] /\ job \in [Worker -> JobRecord]
  BY DEF Typed
<1> job[w].t \in Ticker /\ job[w].side \in Side
  BY JobFields
<1>1. CASE UNCHANGED vars
  BY <1>1 DEF vars, ExitsOfHeld, Of
<1>2. ASSUME NEW t \in Ticker, NEW side \in Side, Recover(w, t, side) PROVE ExitsOfHeld'
  <2>1. /\ Of(t, side) \in Lost /\ pc' = pc /\ pc[w] = "recover"
        /\ (\E status \in {"submitting", "unknown", "submitted"} : Write(t, side, status))
             \/ Reject(t, side)
    BY <1>2, UnresolvedIs DEF Recover
  <2> QED BY <2>1, StatusStep DEF ExitsOfHeld, Of, Lost
<1>3. ASSUME NEW t \in Ticker, CancelStale(w, t) PROVE ExitsOfHeld'
  BY <1>3 DEF CancelStale, ExitsOfHeld, Typed
<1>4. CASE Snapshot(w) \/ StaleDone(w) \/ ManageDone(w)
  BY <1>4 DEF Snapshot, StaleDone, AfterStale, ManageDone, Goto, gates, ExitsOfHeld
<1>5. ASSUME NEW t \in Ticker, ManageSell(w, t) \/ ManageSkip(w, t) PROVE ExitsOfHeld'
  BY <1>5 DEF ManageSell, ExitEnqueue, ManageSkip, ExitsOfHeld, Typed
<1>6. CASE Gate(w) \/ RowsDone(w) \/ RowSkip(w) \/ Crash(w)
  BY <1>6 DEF Gate, RowsDone, RowSkip, Crash, NextSweep, ExitsOfHeld
<1>7. CASE RowForcedExit(w)
  BY <1>7 DEF RowForcedExit, Condemned, ExitsOfHeld, Typed
<1>8. CASE RowBuy(w)
  BY <1>8 DEF RowBuy, ExitsOfHeld, Typed
<1>9. CASE Submit(w)
  <2>1. /\ Of(job[w].t, job[w].side) = "pending" /\ job' = job
        /\ Write(job[w].t, job[w].side, "submitting")
    BY <1>9 DEF Submit, Goto
  <2>2. Of(job[w].t, job[w].side)' = "submitting"
    BY <2>1 DEF Write, Of, Side, Typed
  <2>3. \A u \in Ticker : sell'[u] # "none" => buy'[u] = "held"
    BY <2>1, StatusStep DEF Of
  <2> QED BY <2>2, <2>3 DEF ExitsOfHeld
<1>10. CASE SubmitRefused(w)
  BY <1>10, JobFields DEF SubmitRefused, Return, ExitsOfHeld
<1>11. CASE SendOk(w) \/ SendRejected(w) \/ SendLost(w)
  <2>1. /\ Of(job[w].t, job[w].side) = "submitting"
        /\ (\E status \in {"submitting", "unknown", "submitted"} :
              Write(job[w].t, job[w].side, status)) \/ Reject(job[w].t, job[w].side)
        /\ pc' = [pc EXCEPT ![w] = job[w].back]
    BY <1>11 DEF SendOk, SendRejected, SendLost, Return, ExitsOfHeld
  <2>2. \A u \in Ticker : sell'[u] # "none" => buy'[u] = "held"
    BY <2>1, StatusStep DEF Of
  <2> QED BY <2>1, <2>2, JobFields DEF ExitsOfHeld
<1>12. ASSUME NEW t \in Ticker, BuyFills(t) \/ BuyDies(t) \/ SellFills(t) \/ SellDies(t)
       PROVE ExitsOfHeld'
  <2>1. /\ pc' = pc /\ job' = job
        /\ \A u \in Ticker : sell'[u] # "none" => buy'[u] = "held"
    BY <1>12 DEF BuyFills, BuyDies, SellFills, SellDies, ExitsOfHeld, Typed
  <2>2. \A u \in Ticker, s \in Side : Of(u, s) = "submitting" => Of(u, s)' = "submitting"
    BY <1>12 DEF BuyFills, BuyDies, SellFills, SellDies, ExitsOfHeld, Of, Typed
  <2> QED BY <2>1, <2>2 DEF ExitsOfHeld
<1>13. ASSUME NEW t \in Ticker, NEW side \in Side, OperatorApproves(t, side) PROVE ExitsOfHeld'
  <2>1. /\ Of(t, side) = "pending" /\ pc' = pc /\ job' = job
        /\ (\E status \in {"submitting", "unknown", "submitted"} : Write(t, side, status))
             \/ Reject(t, side)
    BY <1>13 DEF OperatorApproves
  <2>2. /\ \A u \in Ticker : sell'[u] # "none" => buy'[u] = "held"
        /\ \A u \in Ticker, s \in Side : Of(u, s)' = Of(u, s) \/ (u = t /\ s = side)
    BY <2>1, StatusStep DEF Of
  <2> QED BY <2>1, <2>2 DEF ExitsOfHeld
<1>14. ASSUME NEW t \in Ticker, PriceMoves(t) \/ BadNews(t) \/ TimePasses(t) PROVE ExitsOfHeld'
  BY <1>14 DEF PriceMoves, BadNews, TimePasses, ExitsOfHeld, Of, gates
<1>15. CASE KillSwitch \/ CalmDown
  BY <1>15 DEF KillSwitch, CalmDown, ExitsOfHeld, Of
<1> QED BY <1>1, <1>2, <1>3, <1>4, <1>5, <1>6, <1>7, <1>8, <1>9, <1>10, <1>11, <1>12, <1>13,
           <1>14, <1>15 DEF Next, World, Before, Rows, Approve, Side

\* The type invariant, its last conjunct included: a position that is not held
\* has no exit.
THEOREM TypeCorrect ==
  ASSUME NEW w \in Worker, Worker = {w}
  PROVE  Spec => []TypeOK
<1>1. Init => ExitsOfHeld
  BY DEF Init, ExitsOfHeld
<1>2. Typed /\ ExitsOfHeld /\ [Next]_vars => ExitsOfHeld'
  BY ExitsStep
<1>3. Typed /\ ExitsOfHeld => TypeOK
  BY DEF Typed, ExitsOfHeld, TypeOK, Side
<1> QED BY <1>1, <1>2, <1>3, TypesInvariant, PTL DEF Spec

=============================================================================
