SPECIFICATION MCSpec
CONSTANTS
  Digest = {d1, d2}
  Tag = Tag
  Proc = {p1}
  Evictors = {e1}
  Nobody = Nobody
  TTL = 1
  MaxClock = 2
  MaxLatency = 1
  Faults = {"upstream", "write", "unlink"}
SYMMETRY Symmetry
INVARIANTS
  TagsFresh
  WholeUnlessTorn
