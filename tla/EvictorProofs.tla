---------------------------- MODULE EvictorProofs ----------------------------
(***************************************************************************)
(* The evictor's invariants, for any keys, sizes, cap, headroom and number *)
(* of threads.  The inductive invariant is their conjunction: counting     *)
(* needs the list and the map to agree, and the cap needs both the counts  *)
(* and the place of cold entries.  The order of eviction is proved of the  *)
(* evictor with the history of MCEvictor beside it.                        *)
(***************************************************************************)
EXTENDS MCEvictor, EvictorIndexProofs

Inv == TypeOK /\ Accounting /\ ColdLast /\ WarmWithinCap

(* An add lists its key and no other new one. *)
LEMMA AddedLists ==
  ASSUME NEW ix, Sound(ix), NEW k \in Key, NEW size \in 0..MaxEntry, NEW cold \in BOOLEAN
  PROVE  DOMAIN Added(ix, k, size, cold).entries = DOMAIN ix.entries \cup {k}
  BY DEF Added, Sound, WellFormed, Index

(* The same, as a predicate of one index and one number of debts. *)
Good(ix, n) == /\ Sound(ix) /\ ix.inflight <= MaxInflight
               /\ n \in 0..Threads
               /\ n = 0 => WarmFits(ix)

(* Inv is Good of the two variables. *)
LEMMA InvIsGood == Inv <=> Good(index, owed)
<1>1. owed \in 0..Threads => (owed > 0 <=> owed # 0)
  BY BoundAssumption
<1>2. QED
  BY <1>1, Zenon DEF Inv, TypeOK, Accounting, ColdLast, WarmWithinCap, Sound, Good

(* So Inv gives Good of the state a step begins in, *)
LEMMA GoodNow == Inv => Good(index, owed)
  BY InvIsGood

(* and Good of the state it ends in gives Inv there. *)
LEMMA GoodNext == Good(index', owed') => Inv'
<1>1. owed' \in 0..Threads => (owed' > 0 <=> owed' # 0)
  BY BoundAssumption
<1>2. QED
  BY <1>1, Zenon DEF Inv, TypeOK, Accounting, ColdLast, WarmWithinCap, Sound, Good

(* A new evictor, at start-up or after a crash. *)
LEMMA FreshInv ==
  ASSUME NEW ix, IsFresh(ix)
  PROVE  Sound(ix) /\ ix.inflight <= MaxInflight /\ WarmFits(ix)
  BY FreshIsSound, BoundAssumption

(* Every critical section preserves the invariant. *)
LEMMA NextKeepsInv == Inv /\ [Next]_vars => Inv'
<1> SUFFICES ASSUME Inv, [Next]_vars PROVE Good(index', owed')
  BY GoodNext
<1> USE BoundAssumption
<1>1. /\ Sound(index) /\ index.inflight <= MaxInflight /\ owed \in 0..Threads
      /\ owed = 0 => WarmFits(index)
  BY GoodNow DEF Good
<1>2. index.inflight \in Nat /\ index.lru \in Seq(Key) /\ Len(index.lru) \in Nat
  BY <1>1, SoundParts, LenProperties
<1>3. ASSUME NEW k \in Key, Touch(k) PROVE Good(index', owed')
  <2>1. /\ Sound(index') /\ index'.entries = index.entries
        /\ index'.inflight = index.inflight /\ owed' = owed
    BY <1>1, <1>3, TouchedKeeps DEF Touch
  <2>2. WarmFits(index') <=> WarmFits(index)
    BY <2>1 DEF WarmFits, WarmKeys
  <2>3. QED BY <1>1, <2>1, <2>2 DEF Good
<1>4. ASSUME NEW k \in Key, NEW size \in 0..MaxEntry, NEW cold \in BOOLEAN,
             Add(k, size, cold)
      PROVE  Good(index', owed')
  <2>1. /\ Sound(index') /\ index'.inflight = index.inflight
        /\ DOMAIN index'.entries = DOMAIN index.entries \cup {k}
        /\ index'.entries[k] = [size |-> size, cold |-> cold]
        /\ \A x \in DOMAIN index.entries \ {k} : index'.entries[x] = index.entries[x]
    BY <1>1, <1>4, AddedKeeps DEF Add
  <2>2. CASE ~cold
    BY <1>1, <1>4, <2>1, <2>2 DEF Add, Good
  <2>3. CASE cold
    <3>1. owed' = owed
      BY <1>4, <2>3 DEF Add
    <3>2. WarmKeys(index') \subseteq WarmKeys(index) \ {k}
      BY <2>1, <2>3 DEF WarmKeys
    <3>3. \A x \in WarmKeys(index') : index'.entries[x].size = index.entries[x].size
      BY <2>1, <3>2 DEF WarmKeys
    <3>4. WarmFits(index) => WarmFits(index')
      BY <1>1, <1>2, <2>1, <3>2, <3>3, FewerStillFit
    <3>5. QED BY <1>1, <2>1, <3>1, <3>4 DEF Good
  <2>4. QED BY <2>2, <2>3
<1>5. ASSUME NEW n \in 1..MaxInflight, Reserve(n) PROVE Good(index', owed')
  <2>1. index' = [index EXCEPT !.inflight = index.inflight + n]
    BY <1>5 DEF Reserve, Reserved
  <2>2. index.inflight + n \in Nat
    BY <1>2
  <2>3. Sound(index') /\ index'.inflight = index.inflight + n
    BY <1>1, <2>1, <2>2, InflightKeeps
  <2>4. QED BY <1>1, <1>5, <2>3 DEF Reserve, Good
<1>6. ASSUME NEW n \in 1..MaxInflight, Release(n) PROVE Good(index', owed')
  <2>1. index' = [index EXCEPT !.inflight = index.inflight - n]
    BY <1>6 DEF Release, Released
  <2>2. index.inflight - n \in Nat /\ index.inflight - n <= index.inflight
    BY <1>2, <1>6 DEF Release
  <2>3. /\ Sound(index') /\ index'.inflight = index.inflight - n
        /\ index'.entries = index.entries
    BY <1>1, <2>1, <2>2, InflightKeeps
  <2>4. WarmFits(index) => WarmFits(index')
    BY <1>1, <2>2, <2>3, FewerStillFit DEF WarmKeys
  <2>5. owed' = owed
    BY <1>6 DEF Release
  <2>6. index'.inflight <= MaxInflight
    BY <1>1, <1>2, <2>2, <2>3
  <2>7. QED BY <1>1, <2>3, <2>4, <2>5, <2>6 DEF Good
<1>7. CASE EvictIfNeeded
  <2>1. PICK n \in 0..Len(index.lru) : Evicts(index, n) /\ index' = Popped(index, n)
    BY <1>7 DEF EvictIfNeeded
  <2>2. Sound(index') /\ index'.inflight = index.inflight
    BY <1>1, <2>1, PoppedKeeps
  <2>3. WarmFits(index')
    BY <1>1, <2>1, EvictionRestoresCap
  <2>4. owed' \in 0..Threads
    BY <1>1, <1>7 DEF EvictIfNeeded
  <2>5. QED BY <1>1, <2>2, <2>3, <2>4 DEF Good
<1>8. CASE FreeOne
  <2>1. index' = Popped(index, 1) /\ owed' = owed /\ index.lru # <<>>
    BY <1>8 DEF FreeOne
  <2>2. 1 \in 0..Len(index.lru)
    BY <1>2, <2>1, EmptySeq
  <2>3. /\ Sound(index') /\ index'.inflight = index.inflight
        /\ DOMAIN index'.entries \subseteq DOMAIN index.entries
        /\ \A k \in DOMAIN index'.entries : index'.entries[k] = index.entries[k]
    BY <1>1, <2>1, <2>2, PoppedKeeps
  <2>4. /\ WarmKeys(index') \subseteq WarmKeys(index)
        /\ \A k \in WarmKeys(index') : index'.entries[k].size = index.entries[k].size
    BY <2>3 DEF WarmKeys
  <2>5. WarmFits(index) => WarmFits(index')
    BY <1>1, <1>2, <2>3, <2>4, FewerStillFit
  <2>6. QED BY <1>1, <2>1, <2>3, <2>5 DEF Good
<1>9. CASE Restart
  <2>1. Sound(index') /\ index'.inflight <= MaxInflight /\ WarmFits(index')
    BY <1>9, FreshInv DEF Restart
  <2>2. owed' = 0
    BY <1>9 DEF Restart
  <2>3. QED BY <2>1, <2>2 DEF Good
<1>10. CASE UNCHANGED vars
  <2>1. index' = index /\ owed' = owed
    BY <1>10 DEF vars
  <2>2. QED BY GoodNow, <2>1
<1>11. QED
  BY <1>3, <1>4, <1>5, <1>6, <1>7, <1>8, <1>9, <1>10 DEF Next

(* The invariant holds in every state of every behaviour of the evictor. *)
LEMMA InvAlways == Spec => []Inv
<1>1. Init => Inv
  <2> SUFFICES ASSUME Init PROVE Inv
    OBVIOUS
  <2>1. Sound(index) /\ index.inflight <= MaxInflight /\ WarmFits(index)
    BY FreshInv DEF Init
  <2>2. owed = 0
    BY DEF Init
  <2>3. QED BY <2>1, <2>2, InvIsGood, BoundAssumption DEF Good
<1>2. QED BY <1>1, NextKeepsInv, PTL DEF Spec

(* The list and the map of evictor.go hold the same keys, once each, and   *)
(* no counter goes negative: every release is of bytes that were reserved. *)
THEOREM TypeCorrect == Spec => []TypeOK
  BY InvAlways, PTL DEF Inv

(* evictor.used never drifts from the sizes of the entries. *)
THEOREM UsedIsExact == Spec => []Accounting
  BY InvAlways, PTL DEF Inv

(* A cold entry is never in front of a warm one. *)
THEOREM ColdStaysLast == Spec => []ColdLast
  BY InvAlways, PTL DEF Inv

(* Whatever the order of adds, reserves, releases and evictions, the cap   *)
(* is kept as soon as no evictIfNeeded is outstanding.                     *)
THEOREM CapIsKept == Spec => []WarmWithinCap
  BY InvAlways, PTL DEF Inv

(* No eviction takes an entry that fits and leaves one that does not. *)
THEOREM ColdIsEvictedFirst == Spec => ColdGoesFirst
<1> DEFINE A == \A k \in WarmKeys(index) : k \notin DOMAIN index'.entries
                  => \A c \in DOMAIN index'.entries : ~index'.entries[c].cold
<1>1. Inv /\ [Next]_vars => [A]_vars
  <2> SUFFICES ASSUME Inv, Next, NEW k \in WarmKeys(index), k \notin DOMAIN index'.entries,
                      NEW c \in DOMAIN index'.entries
               PROVE  ~index'.entries[c].cold
    OBVIOUS
  <2>1. Sound(index) /\ k \in DOMAIN index.entries /\ ~index.entries[k].cold
    BY GoodNow DEF WarmKeys, Good
  <2>2. ASSUME NEW x \in Key, Touch(x) PROVE FALSE
    BY <2>1, <2>2, TouchedKeeps DEF Touch
  <2>3. ASSUME NEW x \in Key, NEW size \in 0..MaxEntry, NEW cold \in BOOLEAN,
               Add(x, size, cold)
        PROVE  FALSE
    <3>1. index' = Added(index, x, size, cold)
      BY <2>3 DEF Add
    <3>2. DOMAIN Added(index, x, size, cold).entries = DOMAIN index.entries \cup {x}
      BY <2>1, <2>3, AddedLists
    <3>3. QED BY <2>1, <3>1, <3>2
  <2>4. ASSUME NEW n \in 1..MaxInflight, Reserve(n) \/ Release(n) PROVE FALSE
    <3>1. index'.entries = index.entries
      BY <2>1, <2>4 DEF Reserve, Release, Reserved, Released, Sound, WellFormed, Index
    <3>2. QED BY <2>1, <3>1
  <2>5. ASSUME NEW n \in 0..Len(index.lru), index' = Popped(index, n)
        PROVE  ~index'.entries[c].cold
    <3>1. /\ DOMAIN index'.entries = DOMAIN index.entries \ Coldest(index, n)
          /\ index'.entries[c] = index.entries[c]
          /\ \A x \in Coldest(index, n), y \in DOMAIN index'.entries :
               index.entries[y].cold => index.entries[x].cold
      BY <2>1, <2>5, PoppedKeeps
    <3>2. k \in Coldest(index, n)
      BY <2>1, <3>1
    <3>3. QED BY <2>1, <3>1, <3>2
  <2>6. CASE EvictIfNeeded
    BY <2>5, <2>6 DEF EvictIfNeeded
  <2>7. CASE FreeOne
    <3>1. index.lru \in Seq(Key) /\ index.lru # <<>>
      BY <2>1, <2>7, SoundParts DEF FreeOne
    <3>2. 1 \in 0..Len(index.lru)
      BY <3>1, EmptySeq
    <3>3. QED BY <2>5, <2>7, <3>2 DEF FreeOne
  <2>8. CASE Restart
    <3>1. WarmKeys(index') = DOMAIN index'.entries
      BY <2>8, FreshIsSound DEF Restart
    <3>2. QED BY <3>1 DEF WarmKeys
  <2>9. QED BY <2>2, <2>3, <2>4, <2>6, <2>7, <2>8 DEF Next
<1>2. QED BY <1>1, InvAlways, PTL DEF Spec, ColdGoesFirst

-----------------------------------------------------------------------------
(* The order of eviction. *)

(* The warm keys W of the list l stand in it in the order y relates them. *)
InOrder(l, W, y) ==
  \A i, j \in DOMAIN l : i < j /\ l[i] \in W /\ l[j] \in W => <<l[i], l[j]>> \in y

(* The history y once k was used. *)
UsedLast(y, k) == {pair \in y : pair[2] # k} \cup {<<k, x>> : x \in Key \ {k}}

(* The property of the run is InOrder of the evictor's list. *)
LEMMA OrderOfList == LeastRecentlyUsedLast <=> InOrder(index.lru, WarmKeys(index), younger)
  BY DEF LeastRecentlyUsedLast, InOrder

(* What is picked in order from a list is in order. *)
LEMMA PickedInOrder ==
  ASSUME NEW l \in Seq(Key), NEW W, NEW y, InOrder(l, W, y), NEW V \in SUBSET W,
         NEW r \in Seq(Key), NEW h \in [1..Len(r) -> 1..Len(l)],
         \A i, j \in 1..Len(r) : i < j => h[i] < h[j],
         \A i \in 1..Len(r) : r[i] = l[h[i]]
  PROVE  InOrder(r, V, y)
<1>1. DOMAIN l = 1..Len(l) /\ DOMAIN r = 1..Len(r)
  BY LenProperties
<1>2. SUFFICES ASSUME NEW i \in 1..Len(r), NEW j \in 1..Len(r), i < j, r[i] \in V, r[j] \in V
               PROVE  <<r[i], r[j]>> \in y
  BY <1>1 DEF InOrder
<1>3. /\ h[i] \in DOMAIN l /\ h[j] \in DOMAIN l /\ h[i] < h[j]
      /\ r[i] = l[h[i]] /\ r[j] = l[h[j]]
  BY <1>1, <1>2
<1>4. l[h[i]] \in W /\ l[h[j]] \in W
  BY <1>2, <1>3
<1>5. QED BY <1>3, <1>4 DEF InOrder

(* Taking a key out leaves the others in order. *)
LEMMA WithoutInOrder ==
  ASSUME NEW l \in Seq(Key), Once(l), NEW k \in Elements(l), NEW W, NEW y, InOrder(l, W, y)
  PROVE  InOrder(Without(l, k), W, y)
<1> DEFINE r == Without(l, k)
<1>1. PICK p \in 1..Len(l) :
        /\ l[p] = k
        /\ r \in Seq(Key)
        /\ Len(r) = Len(l) - 1
        /\ \A i \in 1..(Len(l) - 1) : r[i] = IF i < p THEN l[i] ELSE l[i + 1]
  BY WithoutShifts
<1> HIDE DEF r
<1> DEFINE h == [i \in 1..Len(r) |-> IF i < p THEN i ELSE i + 1]
<1>2. Len(l) \in Nat /\ Len(r) \in Nat
  BY <1>1, LenProperties
<1>3. /\ h \in [1..Len(r) -> 1..Len(l)]
      /\ \A i, j \in 1..Len(r) : i < j => h[i] < h[j]
  BY <1>1, <1>2
<1>4. \A i \in 1..Len(r) : r[i] = l[h[i]]
  BY <1>1, <1>2
<1> HIDE DEF h
<1>5. InOrder(r, W, y)
  BY <1>1, <1>3, <1>4, PickedInOrder
<1>6. QED BY <1>5 DEF r

(* Evicting from the back leaves the rest in order. *)
LEMMA PoppedInOrder ==
  ASSUME NEW l \in Seq(Key), NEW W, NEW V \in SUBSET W, NEW y, InOrder(l, W, y),
         NEW n \in 0..Len(l)
  PROVE  InOrder(SubSeq(l, 1, Len(l) - n), V, y)
<1> DEFINE m == Len(l) - n
           r == SubSeq(l, 1, m)
<1>1. /\ Len(l) \in Nat /\ m \in 0..Len(l) /\ 1..m \subseteq 1..Len(l)
      /\ \A i \in 1..Len(l) : l[i] \in Key
  BY LenProperties
<1>2. /\ r \in Seq(Key) /\ Len(r) = m /\ \A i \in 1..m : r[i] = l[i]
  BY <1>1, SubSeqProperties
<1> DEFINE h == [i \in 1..Len(r) |-> i]
<1>3. /\ h \in [1..Len(r) -> 1..Len(l)]
      /\ \A i, j \in 1..Len(r) : i < j => h[i] < h[j]
      /\ \A i \in 1..Len(r) : r[i] = l[h[i]]
  BY <1>1, <1>2
<1> HIDE DEF r, h, m
<1>4. InOrder(r, V, y)
  BY <1>2, <1>3, PickedInOrder
<1>5. QED BY <1>4 DEF r, m

(* A key used and put in front is the one used last. *)
LEMMA FrontInOrder ==
  ASSUME NEW l \in Seq(Key), NEW k \in Key \ Elements(l), NEW W, NEW y, InOrder(l, W, y),
         NEW V, V \ {k} \subseteq W
  PROVE  InOrder(<<k>> \o l, V, UsedLast(y, k))
<1> DEFINE m == <<k>> \o l
<1>1. <<k>> \in Seq(Key) /\ Len(<<k>>) = 1 /\ <<k>>[1] = k
  OBVIOUS
<1>2. /\ m \in Seq(Key) /\ Len(m) = 1 + Len(l)
      /\ \A i \in 1..(1 + Len(l)) : m[i] = IF i <= 1 THEN <<k>>[i] ELSE l[i - 1]
  BY <1>1, ConcatProperties
<1> HIDE DEF m
<1>3. /\ Len(l) \in Nat /\ DOMAIN l = 1..Len(l) /\ DOMAIN m = 1..(1 + Len(l))
      /\ \A i \in 1..Len(l) : l[i] \in Key
  BY <1>2, LenProperties
<1>4. m[1] = k /\ \A i \in 2..(1 + Len(l)) : m[i] = l[i - 1] /\ i - 1 \in 1..Len(l)
  BY <1>1, <1>2, <1>3
<1>5. \A i \in 1..Len(l) : l[i] # k
  BY <1>3 DEF Elements
<1>6. ASSUME NEW i \in DOMAIN m, NEW j \in DOMAIN m, i < j, m[i] \in V, m[j] \in V
      PROVE  <<m[i], m[j]>> \in UsedLast(y, k)
  <2>1. j \in 2..(1 + Len(l)) /\ j - 1 \in 1..Len(l) /\ m[j] = l[j - 1] /\ m[j] # k
    BY <1>3, <1>4, <1>5, <1>6
  <2>2. m[j] \in Key \ {k}
    BY <2>1, <1>3
  <2>3. CASE i = 1
    BY <2>2, <2>3, <1>4 DEF UsedLast
  <2>4. CASE i # 1
    <3>1. i \in 2..(1 + Len(l)) /\ i - 1 \in 1..Len(l) /\ m[i] = l[i - 1] /\ m[i] # k
      BY <2>4, <1>3, <1>4, <1>5
    <3>2. i - 1 < j - 1 /\ l[i - 1] \in W /\ l[j - 1] \in W
      BY <2>1, <3>1, <1>6
    <3>3. <<m[i], m[j]>> \in y
      BY <2>1, <3>1, <3>2, <1>3 DEF InOrder
    <3>4. QED BY <2>1, <3>3 DEF UsedLast
  <2>5. QED BY <2>3, <2>4
<1>7. InOrder(m, V, UsedLast(y, k))
  BY <1>6 DEF InOrder
<1>8. QED BY <1>7 DEF m

(* A cold key at the back concerns no warm one. *)
LEMMA BackInOrder ==
  ASSUME NEW l \in Seq(Key), NEW k \in Key \ Elements(l), NEW W, NEW y, InOrder(l, W, y),
         NEW V \in SUBSET W, k \notin V
  PROVE  InOrder(Append(l, k), V, UsedLast(y, k))
<1> DEFINE m == Append(l, k)
<1>1. /\ Len(m) = Len(l) + 1 /\ m[Len(l) + 1] = k /\ m \in Seq(Key)
      /\ \A i \in 1..Len(l) : m[i] = l[i]
  BY AppendProperties
<1> HIDE DEF m
<1>2. Len(l) \in Nat /\ DOMAIN l = 1..Len(l) /\ DOMAIN m = 1..(Len(l) + 1)
  BY <1>1, LenProperties
<1>3. ASSUME NEW i \in DOMAIN m, NEW j \in DOMAIN m, i < j, m[i] \in V, m[j] \in V
      PROVE  <<m[i], m[j]>> \in UsedLast(y, k)
  <2>1. i \in DOMAIN l /\ j \in DOMAIN l /\ m[i] = l[i] /\ m[j] = l[j]
    BY <1>1, <1>2, <1>3
  <2>2. <<m[i], m[j]>> \in y /\ m[j] # k
    BY <2>1, <1>3 DEF InOrder
  <2>3. QED BY <2>2 DEF UsedLast
<1>4. InOrder(m, V, UsedLast(y, k))
  BY <1>3 DEF InOrder
<1>5. QED BY <1>4 DEF m

(* The evictor's list of an index, in order. *)
Recent(ix, y) == InOrder(ix.lru, WarmKeys(ix), y)

(* A touch uses its key, if that is warm. *)
LEMMA TouchedInOrder ==
  ASSUME NEW ix, Sound(ix), NEW k \in Key, NEW y, Recent(ix, y)
  PROVE  Recent(Touched(ix, k), IF k \in WarmKeys(ix) THEN UsedLast(y, k) ELSE y)
<1> DEFINE q == Touched(ix, k)
<1>1. CASE k \in WarmKeys(ix)
  <2>1. /\ ix.lru \in Seq(Key) /\ Once(ix.lru) /\ k \in Elements(ix.lru)
        /\ ColdBehind(ix.lru, ix.entries)
    BY <1>1, SoundParts DEF WarmKeys
  <2>2. q.lru = <<k>> \o Without(ix.lru, k)
    BY <1>1 DEF Touched, WarmKeys, Sound, WellFormed, Index
  <2>3. WarmKeys(q) = WarmKeys(ix)
    BY TouchedKeeps DEF WarmKeys
  <2> HIDE DEF q
  <2>4. /\ Without(ix.lru, k) \in Seq(Key) /\ k \in Key \ Elements(Without(ix.lru, k))
        /\ InOrder(Without(ix.lru, k), WarmKeys(ix), y)
    BY <2>1, WithoutKeeps, WithoutInOrder DEF Recent
  <2>5. InOrder(<<k>> \o Without(ix.lru, k), WarmKeys(ix), UsedLast(y, k))
    BY <2>4, FrontInOrder
  <2>6. QED BY <1>1, <2>2, <2>3, <2>5 DEF Recent, q
<1>2. CASE k \notin WarmKeys(ix)
  <2>1. q = ix
    BY <1>2 DEF Touched, WarmKeys
  <2>2. QED BY <1>2, <2>1
<1>3. QED BY <1>1, <1>2

(* An add uses its key. *)
LEMMA AddedInOrder ==
  ASSUME NEW ix, Sound(ix), NEW k \in Key, NEW size \in 0..MaxEntry, NEW cold \in BOOLEAN,
         NEW y, Recent(ix, y)
  PROVE  Recent(Added(ix, k, size, cold), UsedLast(y, k))
<1> DEFINE q == Added(ix, k, size, cold)
           known == k \in DOMAIN ix.entries
           rest == IF known THEN Without(ix.lru, k) ELSE ix.lru
<1>1. /\ ix.lru \in Seq(Key) /\ Once(ix.lru) /\ DOMAIN ix.entries = Elements(ix.lru)
      /\ ColdBehind(ix.lru, ix.entries)
  BY SoundParts
<1>2. rest \in Seq(Key) /\ k \in Key \ Elements(rest) /\ InOrder(rest, WarmKeys(ix), y)
  <2>1. CASE known
    BY <1>1, <2>1, WithoutKeeps, WithoutInOrder DEF Recent
  <2>2. CASE ~known
    BY <1>1, <2>2 DEF Recent
  <2>3. QED BY <2>1, <2>2
<1>3. q.lru = IF cold THEN Append(rest, k) ELSE <<k>> \o rest
  BY DEF Added, Sound, WellFormed, Index
<1> HIDE DEF q, rest
<1>4. /\ DOMAIN q.entries = DOMAIN ix.entries \cup {k} /\ q.entries[k].cold = cold
      /\ \A x \in DOMAIN ix.entries \ {k} : q.entries[x] = ix.entries[x]
  <2>1. /\ DOMAIN q.entries = DOMAIN ix.entries \cup {k}
        /\ q.entries[k] = [size |-> size, cold |-> cold]
        /\ \A x \in DOMAIN ix.entries \ {k} : q.entries[x] = ix.entries[x]
    BY AddedKeeps DEF q
  <2>2. QED BY <2>1
<1>5. WarmKeys(q) \ {k} \subseteq WarmKeys(ix) /\ (cold => k \notin WarmKeys(q))
  BY <1>4 DEF WarmKeys
<1>6. CASE cold
  <2>1. WarmKeys(q) \in SUBSET WarmKeys(ix)
    BY <1>5, <1>6
  <2>2. InOrder(Append(rest, k), WarmKeys(q), UsedLast(y, k))
    BY <1>2, <1>5, <1>6, <2>1, BackInOrder
  <2>3. QED BY <1>3, <1>6, <2>2 DEF Recent, q
<1>7. CASE ~cold
  <2>1. InOrder(<<k>> \o rest, WarmKeys(q), UsedLast(y, k))
    BY <1>2, <1>5, FrontInOrder
  <2>2. QED BY <1>3, <1>7, <2>1 DEF Recent, q
<1>8. QED BY <1>6, <1>7

(* The evictor and its history: Inv, and the list in order. *)
Ranked == Inv /\ Recent(index, younger)

(* A step of MCNext is one of the evictor. *)
LEMMA HistoryStep == [MCNext]_<<vars, younger>> => [Next]_vars
  BY DEF MCNext, Next, vars

(* What a scan lists is in the order it lists it. *)
LEMMA ListedInOrder ==
  ASSUME NEW ix, Sound(ix)
  PROVE  Recent(ix, Listed(ix.lru))
<1>1. ix.lru \in Seq(Key)
  BY SoundParts
<1>2. \A i \in DOMAIN ix.lru : ix.lru[i] \in Key
  BY <1>1, LenProperties
<1>3. QED BY <1>2 DEF Recent, InOrder, Listed

(* Every critical section keeps the list in order. *)
LEMMA NextKeepsOrder == Ranked /\ [MCNext]_<<vars, younger>> => Ranked'
<1> SUFFICES ASSUME Ranked, [MCNext]_<<vars, younger>> PROVE Ranked'
  OBVIOUS
<1>1. Sound(index) /\ Recent(index, younger)
  BY GoodNow DEF Ranked, Good
<1>2. Inv' /\ Sound(index')
  <2>1. Inv'
    BY HistoryStep, NextKeepsInv DEF Ranked
  <2>2. QED BY <2>1 DEF Inv, TypeOK, Accounting, ColdLast, Sound
<1>3. ASSUME NEW k \in Key, Touch(k),
             younger' = IF k \in WarmKeys(index) THEN Used(k) ELSE younger
      PROVE  Recent(index', younger')
  BY <1>1, <1>3, TouchedInOrder DEF Touch, Used, UsedLast
<1>4. ASSUME NEW k \in Key, NEW size \in 0..MaxEntry, NEW cold \in BOOLEAN,
             Add(k, size, cold), younger' = Used(k)
      PROVE  Recent(index', younger')
  BY <1>1, <1>4, AddedInOrder DEF Add, Used, UsedLast
<1>5. ASSUME NEW n \in 1..MaxInflight, Reserve(n) \/ Release(n), younger' = younger
      PROVE  Recent(index', younger')
  <2>1. index'.lru = index.lru /\ index'.entries = index.entries
    BY <1>1, <1>5 DEF Reserve, Release, Reserved, Released, Sound, WellFormed, Index
  <2>2. QED BY <1>1, <1>5, <2>1 DEF Recent, WarmKeys
<1>6. ASSUME NEW n \in 0..Len(index.lru), index' = Popped(index, n), younger' = younger
      PROVE  Recent(index', younger')
  <2>1. /\ index'.lru = SubSeq(index.lru, 1, Len(index.lru) - n)
        /\ DOMAIN index'.entries \subseteq DOMAIN index.entries
        /\ \A k \in DOMAIN index'.entries : index'.entries[k] = index.entries[k]
    BY <1>1, <1>6, PoppedKeeps
  <2>2. WarmKeys(index') \in SUBSET WarmKeys(index) /\ index.lru \in Seq(Key)
    BY <1>1, <2>1, SoundParts DEF WarmKeys
  <2>3. InOrder(SubSeq(index.lru, 1, Len(index.lru) - n), WarmKeys(index'), younger)
    BY <1>1, <2>2, PoppedInOrder DEF Recent
  <2>4. QED BY <1>6, <2>1, <2>3 DEF Recent
<1>7. ASSUME EvictIfNeeded /\ younger' = younger
      PROVE  Recent(index', younger')
  BY <1>6, <1>7 DEF EvictIfNeeded
<1>8. ASSUME FreeOne /\ younger' = younger
      PROVE  Recent(index', younger')
  <2>1. index.lru \in Seq(Key) /\ index.lru # <<>>
    BY <1>1, <1>8, SoundParts DEF FreeOne
  <2>2. 1 \in 0..Len(index.lru)
    BY <2>1, EmptySeq
  <2>3. QED BY <1>6, <1>8, <2>2 DEF FreeOne
<1>9. ASSUME Restart /\ younger' = Listed(index'.lru)
      PROVE  Recent(index', younger')
  BY <1>2, <1>9, ListedInOrder
<1>10. ASSUME UNCHANGED <<vars, younger>>
      PROVE  Recent(index', younger')
  BY <1>1, <1>10 DEF vars
<1>11. Recent(index', younger')
  BY <1>3, <1>4, <1>5, <1>7, <1>8, <1>9, <1>10 DEF MCNext
<1>12. QED BY <1>2, <1>11 DEF Ranked

(* Whatever is touched, added again, evicted or indexed afresh after a     *)
(* restart, the evictor's list stays in order of last use: of the entries  *)
(* that fit, the next one evicted is the one used longest ago.             *)
THEOREM EvictsLeastRecent == MCSpec => []LeastRecentlyUsedLast
<1>1. MCInit => Ranked
  <2> SUFFICES ASSUME MCInit PROVE Ranked
    OBVIOUS
  <2>1. Sound(index) /\ index.inflight <= MaxInflight /\ WarmFits(index) /\ owed = 0
    BY FreshInv DEF MCInit, Init
  <2>2. Inv
    BY <2>1, InvIsGood, BoundAssumption DEF Good
  <2>3. QED BY <2>1, <2>2, ListedInOrder DEF MCInit, Ranked
<1>2. Ranked => LeastRecentlyUsedLast
  BY OrderOfList DEF Ranked, Recent
<1>3. QED BY <1>1, <1>2, NextKeepsOrder, PTL DEF MCSpec
=============================================================================
