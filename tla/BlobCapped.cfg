SPECIFICATION Spec
CONSTANTS
  Key <- BlobNames
  Size <- BlobSize
  MaxEntry = 3
  MaxStorage = 2
  Headroom = 1
  Proc = {p1, p2, p3}
  Nobody = Nobody
  Capacity = 5
  Caps = {TRUE}
  Announce = {TRUE, FALSE}
  StatfsOk = {TRUE, FALSE}
  Faults = {"create", "upstream", "stream"}
  MaxLeaked = 0
SYMMETRY Symmetry
INVARIANTS
  TypeOK
  IndexedFilesExist
  FilesIndexed
  OneDownload
  DiskCounted
