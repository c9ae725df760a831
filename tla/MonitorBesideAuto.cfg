SPECIFICATION Spec
CONSTANTS
  Worker = {w1, w2}
  Stop = {s1, s2}
  MaxLevel = 1
  Shares = 1
  Refused <- NoneRefused
  NoStop = NoStop
INVARIANT NoSellBesideStop
CHECK_DEADLOCK FALSE
