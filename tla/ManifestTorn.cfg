SPECIFICATION Spec
CONSTANTS
  Digest = {d1, d2}
  Tag = Tag
  Proc = {p1}
  Evictors = {}
  Nobody = Nobody
  TTL = 1
  MaxClock = 2
  MaxLatency = 1
  Faults = {"write"}
INVARIANT
  DigestsImmutable
