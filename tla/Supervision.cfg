SPECIFICATION FairSpec
CONSTANTS
  Loop = {l1, l2}
  Timeout = 2
  MinTtl = 1
INVARIANTS
  SilenceNotMasked
PROPERTIES
  StopStops
  SilencePagedOrLost
