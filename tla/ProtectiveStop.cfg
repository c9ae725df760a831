SPECIFICATION FairSpec
CONSTANTS
  Worker = {w1}
  Stop = {s1, s2}
  MaxLevel = 2
  Shares = 2
  Refused <- NoneRefused
  NoStop = NoStop
INVARIANTS
  NoOrphanStop
  NoSellBesideStop
PROPERTIES
  KeepsArming
  LowExits
CHECK_DEADLOCK FALSE
