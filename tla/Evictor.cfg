SPECIFICATION MCSpec
CONSTANTS
  Key = {k1, k2, k3}
  MaxEntry = 3
  MaxStorage = 2
  Headroom = 1
  Threads = 2
  MaxInflight = 3
INVARIANTS
  Accounting
  ColdLast
  WarmWithinCap
  LeastRecentlyUsedLast
PROPERTY
  ColdGoesFirst
