SPECIFICATION Spec
CONSTANTS
  Row = {r1, r2}
  Key = {k1}
  Account = {a1, a2}
  Worker = {w1, w2}
  MaxQty = 2
  BuyQty = {2}
  Unbound = Unbound
  NoRow = NoRow
SYMMETRY Symmetric
INVARIANTS
  LiveTracked
  OneLiveOrder
  OneSubmitter
  NoGhostFill
  SettledSellExact
  ArchiveWhole
PROPERTIES
  ImplementsSlots
