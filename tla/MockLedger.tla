----------------------------- MODULE MockLedger -----------------------------
(***************************************************************************)
(* The readings of the simulated broker (broker/mock.py): positions, cash  *)
(* and fills computed from its ledger, a sequence of order rows in which   *)
(* orders, manual orders and injected holdings are appended, cancelled and *)
(* deleted.  One market and one name: other rows are only filtered out.    *)
(***************************************************************************)
EXTENDS Sums, FiniteSetsExt

CONSTANT StartingCash    \* DEFAULT_STARTING_CASH

ASSUME StartAssumption == StartingCash \in Nat

\* get_positions: shares and their cost at the average price, row by row.
Sold(h, r) ==
  IF h.qty <= 0 THEN [h EXCEPT !.qty = @ - r.qty]
  ELSE LET sold    == IF r.qty < h.qty THEN r.qty ELSE h.qty
           average == h.cost \div h.qty
       IN  [qty |-> h.qty - r.qty,
            cost |-> IF sold = h.qty THEN 0 ELSE h.cost - average * sold]

Booked(h, r) ==
  IF r.side = "buy" THEN [qty |-> h.qty + r.qty, cost |-> h.cost + r.qty * r.price]
  ELSE Sold(h, r)

NoShares == [qty |-> 0, cost |-> 0]

Holding(rows) ==
  LET after[n \in 0 .. Len(rows)] ==
        IF n = 0 THEN NoShares
        ELSE IF rows[n].cancelled THEN after[n - 1] ELSE Booked(after[n - 1], rows[n])
  IN  after[Len(rows)]

\* Only what is really held is reported.
Reported(rows) == IF Holding(rows).qty > 0 THEN Holding(rows) ELSE NoShares

\* get_cash_balance: injected rows are holdings from before the simulation.
Paid(r) ==
  IF r.cancelled \/ r.injected THEN 0
  ELSE IF r.side = "buy" THEN -(r.qty * r.price) ELSE r.qty * r.price

CashLeft(rows) == StartingCash + SumSeq([n \in DOMAIN rows |-> Paid(rows[n])])

Matching(rows, id) == {n \in DOMAIN rows : rows[n].id = id}

MutFill(rows, id) ==
  LET found == Matching(rows, id)
      row   == rows[Min(found)]
  IN  IF found = {} THEN [status |-> "submitted", qty |-> 0, price |-> 0]
      ELSE [status |-> "filled", qty |-> row.qty, price |-> row.price]

\* get_order_fill: filled at once in full, unless cancelled or unknown.
Fill(rows, id) ==
  LET found == Matching(rows, id)
      row   == rows[Min(found)]
  IN  IF found = {} THEN [status |-> "submitted", qty |-> 0, price |-> 0]
      ELSE IF row.cancelled THEN [status |-> "cancelled", qty |-> 0, price |-> 0]
      ELSE [status |-> "filled", qty |-> row.qty, price |-> row.price]
=============================================================================
