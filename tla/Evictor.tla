------------------------------ MODULE Evictor ------------------------------
(***************************************************************************)
(* The evictor as its callers see it: any number of goroutines that touch, *)
(* add, reserve and release in any order, and that run evictIfNeeded some  *)
(* time after the critical section that made it necessary.                 *)
(***************************************************************************)
EXTENDS EvictorIndex

CONSTANTS Threads,      \* bound: goroutines between an add or reserve and
                        \* the evictIfNeeded that follows it
          MaxInflight   \* bound: bytes that may be booked at a time

ASSUME BoundAssumption == Threads \in Nat /\ MaxInflight \in Nat

VARIABLES index,   \* lru, entries, used and inflight, guarded by evictor.mu
          owed     \* goroutines that left evictor.mu and will evictIfNeeded

vars == <<index, owed>>

TypeOK ==
  /\ WellFormed(index)
  /\ index.inflight <= MaxInflight
  /\ owed \in 0..Threads

-----------------------------------------------------------------------------
Init == IsFresh(index) /\ owed = 0

Touch(k) ==
  /\ index' = Touched(index, k)
  /\ UNCHANGED owed

(* A writer marks a blob cold exactly when it does not fit; a manifest is  *)
(* never cold.                                                             *)
Add(k, size, cold) ==
  /\ cold => ~Fits(size)
  /\ owed < Threads
  /\ index' = Added(index, k, size, cold)
  /\ owed' = IF cold THEN owed ELSE owed + 1

Reserve(n) ==
  /\ owed < Threads
  /\ index.inflight + n <= MaxInflight
  /\ index' = Reserved(index, n)
  /\ owed' = owed + 1

Release(n) ==
  /\ n <= index.inflight
  /\ index' = Released(index, n)
  /\ UNCHANGED owed

EvictIfNeeded ==
  /\ owed > 0
  /\ \E n \in 0..Len(index.lru) : Evicts(index, n) /\ index' = Popped(index, n)
  /\ owed' = owed - 1

(* One turn of freeDisk's loop. *)
FreeOne ==
  /\ index.lru # <<>>
  /\ index' = Popped(index, 1)
  /\ UNCHANGED owed

(* The process dies and a new one indexes what the disk holds. *)
Restart == IsFresh(index') /\ owed' = 0

Next ==
  \/ \E k \in Key : Touch(k)
  \/ \E k \in Key, size \in 0..MaxEntry, cold \in BOOLEAN : Add(k, size, cold)
  \/ \E n \in 1..MaxInflight : Reserve(n)
  \/ \E n \in 1..MaxInflight : Release(n)
  \/ EvictIfNeeded
  \/ FreeOne
  \/ Restart

Spec == Init /\ [][Next]_vars

-----------------------------------------------------------------------------
(* used, which add, pop and replace adjust by differences, is the number   *)
(* of bytes of the entries listed: no sequence of replacements, evictions  *)
(* and restarts makes the counter drift.                                   *)
Accounting == Counted(index)

(* Oversized blobs stay at the back of the list whatever is touched, added *)
(* or replaced after them, so the next eviction takes them first.          *)
ColdLast == ColdBehind(index.lru, index.entries)

(* The cap: unless some goroutine still has to run evictIfNeeded, the      *)
(* entries that can be kept and the bytes in flight fit in MaxStorage      *)
(* together, or nothing is left to evict.  Only cold entries may push used *)
(* past it.                                                                *)
WarmWithinCap == owed > 0 \/ WarmFits(index)

(* An entry that fits is never evicted while an oversized one is kept. *)
ColdGoesFirst ==
  [][\A k \in WarmKeys(index) : k \notin DOMAIN index'.entries
       => \A c \in DOMAIN index'.entries : ~index'.entries[c].cold]_vars
=============================================================================
