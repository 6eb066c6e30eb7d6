SPECIFICATION Spec
CONSTANTS
  Digest = {d1, d2}
  Tag = Tag
  Proc = {p1, p2}
  Evictors = {e1}
  Nobody = Nobody
  TTL = 1
  MaxClock = 1
  MaxLatency = 0
  Faults = {"upstream"}
SYMMETRY Symmetry
INVARIANTS
  TypeOK
  OneFetch
  ServedWhole
  DigestsImmutable
