----------------------------- MODULE MarketHours ----------------------------
(***************************************************************************)
(* Whether a market may be traded now: the venue's calendar with its cache *)
(* (market_calendar.py), the baked-in table behind it (market_hours.py)    *)
(* and the daily loss breaker (auto/guards.py).                            *)
(*                                                                         *)
(* Time is a count of slots of three hours, eight to an exchange-local     *)
(* day: the market opens with slot 3 and closes with slot 5, or 4 on an    *)
(* early-closing day.  A day is what the exchange really does on it:       *)
(* "normal", "early", "weekend", "holiday", or "special", an unscheduled   *)
(* closure that only the venue's calendar knows.                           *)
(***************************************************************************)
EXTENDS Sums, FiniteSets, FiniteSetsExt

DayKind == {"normal", "early", "weekend", "holiday", "special"}
Slots == 8
Ttl == 2                       \* _TTL_SECONDS: six hours
OpenSlot == 3
DayOf(t)  == t \div Slots
SlotOf(t) == t % Slots

\* _open_window
CloseSlot(kind) == IF kind = "early" THEN 4 ELSE 5

(***************************************************************************)
(* The venue's calendar                                                    *)
(***************************************************************************)
\* The window of day d of calendar days, as the venue lists it.
Trades(days, d) == d \in DOMAIN days /\ days[d] \in {"normal", "early"}
Window(days, d) == [start |-> d * Slots + OpenSlot, end |-> d * Slots + CloseSlot(days[d])]

Covers(w, t) == w.start <= t /\ t < w.end

\* The previous business day, today if it is one, and the next one.
Listed(days, today) ==
  LET past == {d \in DOMAIN days : d < today /\ Trades(days, d)}
      next == {d \in DOMAIN days : d > today /\ Trades(days, d)}
  IN  (IF past = {} THEN {} ELSE {Max(past)}) \cup
      (IF next = {} THEN {} ELSE {Min(next)}) \cup
      (IF Trades(days, today) THEN {today} ELSE {})

\* _regular_windows and _fetch at time t: some days may be missing from the
\* payload; without any window the venue is taken not to answer.
Fetch(days, t, payload) ==
  {Window(days, d) : d \in Listed(days, DayOf(t)) \cap payload}

\* get_sessions: what the last fetch answered, nothing included, is kept for
\* six hours.  A calendar is the set of windows, {} for none.
Fresh(cache, t) == t - cache.at < Ttl

Sessions(cache, days, t, payload) ==
  IF Fresh(cache, t) THEN cache.windows ELSE Fetch(days, t, payload)

\* next_session_start
Upcoming(windows, t) == {w.start : w \in {v \in windows : v.start > t}}

(***************************************************************************)
(* The table                                                               *)
(***************************************************************************)
\* What the table knows of a day: weekends, holidays and early closes of the
\* years marked complete.
TableTrades(days, d) == d \in DOMAIN days /\ days[d] \in {"normal", "early", "special"}

\* _next_session_open, where all years are complete; -1 for none in two weeks.
NextTableOpen(days, extra, d) ==
  LET later == {e \in DOMAIN days : e > d /\ e <= d + 14 /\ TableTrades(days, e) /\ e \notin extra}
  IN  IF later = {} THEN -1 ELSE Min(later) * Slots + OpenSlot

Closed(nextOpen) == [open |-> FALSE, next |-> nextOpen]
Open == [open |-> TRUE, next |-> -1]

\* The rest of market_status, when the calendar gave no answer; verified says
\* that the year is in _COMPLETE_HOLIDAY_YEARS.
TableStatus(days, verified, extra, t) ==
  LET d == DayOf(t) IN
  IF ~ verified THEN Closed(-1)
  ELSE IF d \in extra \/ ~ TableTrades(days, d) THEN Closed(NextTableOpen(days, extra, d))
  ELSE IF SlotOf(t) < OpenSlot THEN Closed(d * Slots + OpenSlot)
  ELSE IF SlotOf(t) >= CloseSlot(days[d]) THEN Closed(NextTableOpen(days, extra, d))
  ELSE Open

(***************************************************************************)
(* market_status                                                           *)
(***************************************************************************)
MutStatus(windows, days, verified, extra, t) ==
  LET d == DayOf(t)
      upcoming == Upcoming(windows, t)
  IN  IF windows = {} THEN TableStatus(days, verified, extra, t)
      ELSE IF d \in extra \/ (d \in DOMAIN days /\ days[d] = "holiday" /\ verified)
           THEN Closed(IF upcoming = {} THEN -1 ELSE Min(upcoming))
      ELSE IF \E w \in windows : Covers(w, t) THEN Open
      ELSE TableStatus(days, verified, extra, t)

\* The holidays of the table and the operator's closures (extra) win over the
\* calendar; past its last window, or without windows, the table decides.
Status(windows, days, verified, extra, t) ==
  LET d == DayOf(t)
      upcoming == Upcoming(windows, t)
  IN  IF windows = {} THEN TableStatus(days, verified, extra, t)
      ELSE IF d \in extra \/ (d \in DOMAIN days /\ days[d] = "holiday" /\ verified)
           THEN Closed(IF upcoming = {} THEN -1 ELSE Min(upcoming))
      ELSE IF \E w \in windows : Covers(w, t) THEN Open
      ELSE IF upcoming = {} THEN TableStatus(days, verified, extra, t)
      ELSE Closed(Min(upcoming))

\* What the exchange does.
InSession(days, t) ==
  LET d == DayOf(t)
  IN  Trades(days, d) /\ Covers(Window(days, d), t)

(***************************************************************************)
(* The daily loss breaker                                                  *)
(***************************************************************************)
\* A sell of the day: status, filled shares, the prices of sell and buy (0:
\* unknown), whether a buy links to it, whether it is an external close.
Settled == {"filled", "partially_filled_cancelled"}

\* realized_pnl_today
Counted(s) ==
  s.status \in Settled /\ s.filled > 0 /\ s.price > 0 /\ s.linked /\ s.cost > 0

MutGain(s) == IF s.price > s.cost THEN (s.price - s.cost) * s.filled ELSE 0
Gain(s) == (s.price - s.cost) * s.filled

RealizedToday(sells) ==
  SumSeq([i \in DOMAIN sells |-> IF Counted(sells[i]) THEN Gain(sells[i]) ELSE 0])

\* unpriced_external_closes_today
Unpriced(s) == s.external /\ s.status \in Settled /\ s.filled > 0 /\ s.price = 0

\* daily_loss_exceeded: base is the value sizes are taken of, 0 when the
\* balance cannot be read (the breaker then stays open); limit in per cent.
LossExceeded(sells, base, limit) ==
  /\ limit > 0
  /\ \/ \E i \in DOMAIN sells : Unpriced(sells[i])
     \/ /\ RealizedToday(sells) < 0 /\ base > 0
        /\ -100 * RealizedToday(sells) >= limit * base
=============================================================================
