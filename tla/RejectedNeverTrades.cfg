SPECIFICATION Spec
CONSTANTS
  Row = {r1, r2}
  Key = {k1}
  Account = {a1}
  Worker = {w1}
  MaxQty = 2
  BuyQty = {2}
  Unbound = Unbound
  NoRow = NoRow
SYMMETRY Symmetric
INVARIANT RejectedNeverTrades
