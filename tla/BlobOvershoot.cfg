SPECIFICATION Spec
CONSTANTS
  Key <- FittingBlobs
  Size <- BlobSize
  MaxEntry = 3
  MaxStorage = 2
  Headroom = 1
  Proc = {p1, p2}
  Nobody = Nobody
  Capacity = 9
  Caps = {TRUE}
  Announce = {TRUE}
  StatfsOk = {TRUE}
  Faults = {}
  MaxLeaked = 0
INVARIANT
  PullsWithinCap
