SPECIFICATION FairSpec
CONSTANTS
  Proc = {p1, p2}
  MaxToken = 3
  MaxRate = 2
  MaxServer = 1
  NoProc = NoProc
INVARIANTS
  AtMostOnce
  ResultTrue
PROPERTIES
  NoRefreshLoop
  Returns
