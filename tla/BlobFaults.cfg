SPECIFICATION FairSpec
CONSTANTS
  Key <- BlobNames
  Size <- BlobSize
  MaxEntry = 3
  MaxStorage = 2
  Headroom = 1
  Proc = {p1, p2}
  Nobody = Nobody
  Capacity = 5
  Caps = {TRUE, FALSE}
  Announce = {TRUE}
  StatfsOk = {TRUE}
  Faults = {"create", "upstream", "stream", "close", "remove", "unlink", "crash"}
  MaxLeaked = 2
INVARIANTS
  BooksBalance
  OnlyWholeBlobs
  AnnouncedBytesFit
PROPERTIES
  DrivesEvictor
  EveryRequestAnswered
