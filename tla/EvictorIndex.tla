---------------------------- MODULE EvictorIndex ----------------------------
(***************************************************************************)
(* The LRU index the evictor keeps of the files under the cache root, as   *)
(* operators from index to index.  Each operator is the body of one        *)
(* critical section of evictor.mu, so a module that models the threads     *)
(* applies one of them in one step.                                        *)
(*                                                                         *)
(* An index is a record                                                    *)
(*   lru       the keys, hottest first (the container/list)                *)
(*   entries   for every key listed, its size and whether it is cold       *)
(*   used      bytes of the committed entries                              *)
(*   inflight  bytes booked by downloads that have not committed           *)
(***************************************************************************)
EXTENDS Integers, Sequences, FiniteSets, SequencesExt

CONSTANTS Key,         \* paths an entry may be stored under
          MaxEntry,    \* bound: largest size of an entry
          MaxStorage,  \* the cap, evictor.max
          Headroom     \* how far below the cap an eviction frees

ASSUME KeyAssumption  == IsFiniteSet(Key)
ASSUME SizeAssumption == /\ MaxEntry \in Nat
                         /\ MaxStorage \in Nat
                         /\ Headroom \in 0..MaxStorage

Low == MaxStorage - Headroom

Entry == [size : 0..MaxEntry, cold : BOOLEAN]

Index == [lru : Seq(Key), entries : UNION {[K -> Entry] : K \in SUBSET Key},
          used : Nat, inflight : Nat]

(* The sum of a function's values, none of them above MaxEntry: the number *)
(* of bytes <<x, 1>>, .., <<x, f[x]>> of all x.                            *)
Total(f) ==
  Cardinality({b \in (DOMAIN f) \X (1..MaxEntry) : b[2] <= f[b[1]]})

Bytes(entries, K) == Total([k \in K |-> entries[k].size])

Fits(size) == size <= MaxStorage

Without(lru, k) == RemoveAt(lru, CHOOSE i \in DOMAIN lru : lru[i] = k)

Once(l) == \A i, j \in DOMAIN l : l[i] = l[j] => i = j

Elements(l) == {l[i] : i \in DOMAIN l}

(* The list and the map hold the same keys, each of them once. *)
WellFormed(ix) ==
  /\ ix \in Index
  /\ Once(ix.lru)
  /\ DOMAIN ix.entries = Elements(ix.lru)

Counted(ix) == ix.used = Bytes(ix.entries, DOMAIN ix.entries)

(* Behind a cold key of the list l all keys are cold. *)
ColdBehind(l, entries) ==
  \A i, j \in DOMAIN l : i < j /\ entries[l[i]].cold => entries[l[j]].cold

WarmKeys(ix) == {k \in DOMAIN ix.entries : ~ix.entries[k].cold}

(* Entries that can be kept and bytes in flight fit under the cap together, *)
(* or no such entry is left to evict.                                       *)
WarmFits(ix) ==
  \/ WarmKeys(ix) = {}
  \/ Bytes(ix.entries, WarmKeys(ix)) + ix.inflight <= MaxStorage

-----------------------------------------------------------------------------
(* Mutants of Touched: an oversized entry is moved to the front as well,   *)
(* and the move is forgotten.                                              *)
TouchedThoughCold(ix, k) ==
  IF k \in DOMAIN ix.entries
    THEN [ix EXCEPT !.lru = <<k>> \o Without(@, k)]
    ELSE ix

TouchedInPlace(ix, k) == ix

Touched(ix, k) ==
  IF k \in DOMAIN ix.entries /\ ~ix.entries[k].cold
    THEN [ix EXCEPT !.lru = <<k>> \o Without(@, k)]
    ELSE ix

(* Mutants of Added: the entry replaced stays in the list, its size stays  *)
(* in used, and an oversized entry goes to the front.                      *)
AddedTwice(ix, k, size, cold) ==
  [ix EXCEPT !.lru     = IF cold THEN Append(@, k) ELSE <<k>> \o @,
             !.entries = (k :> [size |-> size, cold |-> cold]) @@ @,
             !.used    = @ - (IF k \in DOMAIN ix.entries THEN ix.entries[k].size ELSE 0) + size]

AddedWithoutRefund(ix, k, size, cold) ==
  LET rest == IF k \in DOMAIN ix.entries THEN Without(ix.lru, k) ELSE ix.lru IN
  [ix EXCEPT !.lru     = IF cold THEN Append(rest, k) ELSE <<k>> \o rest,
             !.entries = (k :> [size |-> size, cold |-> cold]) @@ @,
             !.used    = @ + size]

AddedInFront(ix, k, size, cold) ==
  LET known == k \in DOMAIN ix.entries IN
  [ix EXCEPT !.lru     = <<k>> \o (IF known THEN Without(@, k) ELSE @),
             !.entries = (k :> [size |-> size, cold |-> cold]) @@ @,
             !.used    = @ - (IF known THEN ix.entries[k].size ELSE 0) + size]

Added(ix, k, size, cold) ==
  LET known == k \in DOMAIN ix.entries
      rest  == IF known THEN Without(ix.lru, k) ELSE ix.lru
      old   == IF known THEN ix.entries[k].size ELSE 0
      new   == [size |-> size, cold |-> cold]
  IN  [ix EXCEPT !.lru     = IF cold THEN Append(rest, k) ELSE <<k>> \o rest,
                 !.entries = [x \in DOMAIN @ \cup {k} |->
                                IF x = k THEN new ELSE ix.entries[x]],
                 !.used    = @ - old + size]

Reserved(ix, n) == [ix EXCEPT !.inflight = @ + n]

Released(ix, n) == [ix EXCEPT !.inflight = @ - n]

(* The n keys at the back of the list. *)
Coldest(ix, n) == {ix.lru[i] : i \in (Len(ix.lru) - n + 1)..Len(ix.lru)}

(* The same keys in the order they are popped, and later unlinked. *)
Victims(ix, n) == [i \in 1..n |-> ix.lru[Len(ix.lru) + 1 - i]]

(* Mutant of Popped: the victims leave the list and stay in the map. *)
PoppedFromListOnly(ix, n) ==
  [ix EXCEPT !.lru  = SubSeq(@, 1, Len(@) - n),
             !.used = @ - Bytes(ix.entries, Coldest(ix, n))]

Popped(ix, n) ==
  [ix EXCEPT !.lru     = SubSeq(@, 1, Len(@) - n),
             !.entries = [k \in DOMAIN @ \ Coldest(ix, n) |-> ix.entries[k]],
             !.used    = @ - Bytes(ix.entries, Coldest(ix, n))]

(* Mutant of OverCap: only what is committed counts. *)
OverCapCommitted(ix) == ix.used > MaxStorage

OverCap(ix) == ix.used + ix.inflight > MaxStorage

OverLow(ix, n) == Popped(ix, n).used + ix.inflight > Low

(* evictIfNeeded pops exactly n entries: none while the cap holds, else    *)
(* one at a time until the low mark is reached or the list is empty.       *)
Evicts(ix, n) ==
  IF OverCap(ix)
    THEN /\ \A m \in 0..(n - 1) : OverLow(ix, m)
         /\ n = Len(ix.lru) \/ ~OverLow(ix, n)
    ELSE n = 0

-----------------------------------------------------------------------------
(* An index as newEvictor leaves it: files found on disk, in the order of  *)
(* their mtimes, none of them cold, evicted down if they exceeded the cap. *)
Listing(K) == {l \in [1..Cardinality(K) -> K] :
                 Elements(l) = K /\ Once(l)}

Scanned(l, size) ==
  LET K == Elements(l)
      entries == [k \in K |-> [size |-> size[k], cold |-> FALSE]]
  IN  [lru |-> l, entries |-> entries, used |-> Bytes(entries, K), inflight |-> 0]

IsFresh(ix) ==
  \E K \in SUBSET Key :
    \E l \in Listing(K), size \in [K -> 0..MaxEntry] :
      /\ ix = Scanned(l, size)
      /\ ~OverCap(Scanned(l, size))
=============================================================================
