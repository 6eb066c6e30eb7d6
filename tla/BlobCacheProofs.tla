--------------------------- MODULE BlobCacheProofs ---------------------------
(***************************************************************************)
(* Blobs are downloaded by one request at a time, are whole under their    *)
(* final path, and stay there as long as the index has them; every byte    *)
(* reserved is given back once.  The blob cache implements the evictor and *)
(* keeps its promises; no file escapes the index, and what is counted and  *)
(* granted agrees with the disk.  For any blobs, sizes, requests, faults.  *)
(***************************************************************************)
EXTENDS BlobCache, EvictorIndexProofs

-----------------------------------------------------------------------------
(* Sums over the goroutines. *)
Units(f) == {b \in (DOMAIN f) \X (1..MaxEntry) : b[2] <= f[b[1]]}

LEMMA TotalIsNat ==
  ASSUME NEW f, IsFiniteSet(DOMAIN f)
  PROVE  Total(f) \in Nat /\ IsFiniteSet(Units(f)) /\ Total(f) = Cardinality(Units(f))
<1>1. IsFiniteSet(1..MaxEntry)
  BY SizeAssumption, FS_Interval
<1>2. IsFiniteSet((DOMAIN f) \X (1..MaxEntry))
  BY <1>1, FS_Product
<1>3. Units(f) \in SUBSET ((DOMAIN f) \X (1..MaxEntry))
  BY DEF Units
<1>4. IsFiniteSet(Units(f))
  BY <1>2, <1>3, FS_Subset
<1>5. Total(f) = Cardinality(Units(f))
  BY DEF Total, Units
<1>6. QED
  BY <1>4, <1>5, FS_CardinalityType

(* The units of one goroutine, and those of the others. *)
LEMMA UnitsSplit ==
  ASSUME NEW D, IsFiniteSet(D), NEW f \in [D -> 0..MaxEntry], NEW p \in D
  PROVE  LET others == {b \in Units(f) : b[1] # p} IN
         /\ IsFiniteSet(others)
         /\ Cardinality(others) \in Nat
         /\ Total(f) = Cardinality(others) + f[p]
<1> DEFINE others == {b \in Units(f) : b[1] # p}
           own == {p} \X (1..f[p])
<1>1. /\ IsFiniteSet(Units(f)) /\ Total(f) = Cardinality(Units(f))
  BY TotalIsNat
<1>2. f[p] \in Nat /\ f[p] <= MaxEntry
  BY SizeAssumption
<1>3. IsFiniteSet(others)
  BY <1>1, FS_Subset
<1>4. Units(f) = others \cup own /\ others \cap own = {}
  BY <1>2, SizeAssumption DEF Units
<1>5. IsFiniteSet(own) /\ Cardinality(own) = f[p]
  <2>1. IsFiniteSet(1..f[p]) /\ Cardinality(1..f[p]) = f[p]
    BY <1>2, OneToN
  <2>2. IsFiniteSet({p}) /\ Cardinality({p}) = 1
    BY FS_Singleton
  <2>3. IsFiniteSet(own) /\ Cardinality(own) = Cardinality({p}) * Cardinality(1..f[p])
    BY <2>1, <2>2, FS_Product
  <2> HIDE DEF own
  <2>4. QED
    BY <1>2, <2>1, <2>2, <2>3
<1> HIDE DEF others, own
<1>6. Cardinality(others) \in Nat /\ Cardinality(own) \in Nat
  BY <1>3, <1>5, FS_CardinalityType
<1>7. Cardinality(others \cup own) = Cardinality(others) + Cardinality(own) - Cardinality(others \cap own)
  BY <1>3, <1>5, FS_Union
<1>8. Cardinality(others \cap own) = 0
  BY <1>4, FS_EmptySet
<1>9. Total(f) = Cardinality(others) + f[p]
  BY <1>1, <1>2, <1>4, <1>5, <1>6, <1>7, <1>8
<1>10. QED
  BY <1>3, <1>6, <1>9 DEF others

(* A sum follows what one goroutine holds. *)
LEMMA TotalOfOneChanged ==
  ASSUME NEW D, IsFiniteSet(D), NEW f \in [D -> 0..MaxEntry], NEW g \in [D -> 0..MaxEntry],
         NEW p \in D, \A q \in D \ {p} : g[q] = f[q]
  PROVE  /\ Total(f) \in Nat /\ Total(g) \in Nat
         /\ f[p] <= Total(f)
         /\ Total(g) = Total(f) - f[p] + g[p]
<1> DEFINE F == {b \in Units(f) : b[1] # p}
           G == {b \in Units(g) : b[1] # p}
<1>1. F = G
  BY DEF Units
<1>2. /\ Cardinality(F) \in Nat /\ Total(f) = Cardinality(F) + f[p]
      /\ Total(g) = Cardinality(G) + g[p]
  BY UnitsSplit
<1>3. f[p] \in Nat /\ g[p] \in Nat
  BY SizeAssumption
<1> HIDE DEF F, G
<1>4. QED
  BY <1>1, <1>2, <1>3

LEMMA TotalOfZeros ==
  ASSUME NEW D, NEW f, DOMAIN f = D, \A q \in D : f[q] = 0
  PROVE  Total(f) = 0
<1>1. {b \in (DOMAIN f) \X (1..MaxEntry) : b[2] <= f[b[1]]} = {}
  BY SizeAssumption
<1>2. QED
  BY <1>1, FS_EmptySet DEF Total

(* No goroutine holds more than the largest blob. *)
LEMMA TotalBound ==
  ASSUME NEW D, IsFiniteSet(D), NEW f \in [D -> 0..MaxEntry]
  PROVE  Total(f) <= MaxEntry * Cardinality(D)
<1>1. IsFiniteSet(1..MaxEntry) /\ Cardinality(1..MaxEntry) = MaxEntry
  BY SizeAssumption, OneToN
<1>2. /\ IsFiniteSet(D \X (1..MaxEntry))
      /\ Cardinality(D \X (1..MaxEntry)) = Cardinality(D) * Cardinality(1..MaxEntry)
  BY <1>1, FS_Product
<1>3. Units(f) \in SUBSET (D \X (1..MaxEntry))
  BY DEF Units
<1>4. Cardinality(Units(f)) <= Cardinality(D \X (1..MaxEntry))
  BY <1>2, <1>3, FS_Subset
<1>5. Total(f) = Cardinality(Units(f)) /\ Cardinality(D) \in Nat
  BY TotalIsNat, FS_CardinalityType
<1>6. Cardinality(D) * MaxEntry = MaxEntry * Cardinality(D)
  BY <1>5, SizeAssumption
<1>7. QED
  BY <1>1, <1>2, <1>4, <1>5, <1>6

-----------------------------------------------------------------------------
(* Victims: popped from the back, unlinked one by one. *)
LEMMA VictimsArePopped ==
  ASSUME NEW ix, Sound(ix), NEW n \in 0..Len(ix.lru)
  PROVE  /\ Victims(ix, n) \in Seq(Key) /\ Once(Victims(ix, n))
         /\ ToSet(Victims(ix, n)) = Coldest(ix, n)
         /\ (Victims(ix, n) = <<>>) = (n = 0)
<1> DEFINE v == Victims(ix, n)
           L == Len(ix.lru)
<1>1. /\ ix.lru \in Seq(Key) /\ Once(ix.lru) /\ L \in Nat /\ n \in Nat /\ n <= L
      /\ DOMAIN ix.lru = 1..L /\ \A i \in 1..L : ix.lru[i] \in Key
  BY SoundParts, LenProperties, ElementOfSeq
<1>2. v = [i \in 1..n |-> ix.lru[L + 1 - i]]
  BY DEF Victims
<1>3. \A i \in 1..n : L + 1 - i \in 1..L
  BY <1>1
<1> HIDE DEF L
<1>4. v \in [1..n -> Key]
  BY <1>1, <1>2, <1>3
<1>5. v \in Seq(Key) /\ Len(v) = n
  <2>1. v \in Seq(Key)
    BY <1>1, <1>4, SeqDef
  <2>2. DOMAIN v = 1..n /\ DOMAIN v = 1..Len(v) /\ Len(v) \in Nat
    BY <1>2, <2>1, LenProperties
  <2>3. QED
    BY <1>1, <2>1, <2>2
<1>6. Once(v)
  <2>1. DOMAIN v = 1..n /\ \A i \in 1..n : v[i] = ix.lru[L + 1 - i]
    BY <1>2
  <2> HIDE DEF v
  <2>2. ASSUME NEW i \in 1..n, NEW j \in 1..n, v[i] = v[j] PROVE i = j
    <3>1. L + 1 - i = L + 1 - j
      BY <1>1, <1>3, <2>1, <2>2 DEF Once
    <3>2. QED
      BY <1>1, <3>1
  <2>3. QED
    BY <2>1, <2>2 DEF Once
<1>7. ToSet(v) = Coldest(ix, n)
  <2>1. ToSet(v) = {v[i] : i \in 1..n}
    BY <1>2 DEF ToSet
  <2>2. Coldest(ix, n) = {ix.lru[i] : i \in (L - n + 1)..L}
    BY DEF Coldest, L
  <2>3. ASSUME NEW i \in 1..n PROVE v[i] \in Coldest(ix, n)
    BY <1>1, <1>2, <2>2
  <2>4. ASSUME NEW i \in (L - n + 1)..L PROVE ix.lru[i] \in ToSet(v)
    <3>1. L + 1 - i \in 1..n /\ L + 1 - (L + 1 - i) = i
      BY <1>1
    <3>2. QED
      BY <1>2, <2>1, <3>1
  <2>5. QED
    BY <2>1, <2>2, <2>3, <2>4
<1>8. (v = <<>>) = (n = 0)
  BY <1>1, <1>5, EmptySeq
<1>9. QED
  BY <1>5, <1>6, <1>7, <1>8

LEMMA UnlinkedOne ==
  ASSUME NEW v \in Seq(Key), Once(v), v # <<>>
  PROVE  /\ Head(v) \in Key /\ Head(v) \in ToSet(v)
         /\ Tail(v) \in Seq(Key) /\ Once(Tail(v))
         /\ ToSet(Tail(v)) = ToSet(v) \ {Head(v)}
<1>1. /\ Len(v) \in Nat /\ Len(v) >= 1 /\ DOMAIN v = 1..Len(v) /\ Head(v) = v[1]
      /\ Tail(v) \in Seq(Key) /\ Len(Tail(v)) = Len(v) - 1
      /\ \A i \in 1..(Len(v) - 1) : Tail(v)[i] = v[i + 1]
  BY LenProperties, EmptySeq, HeadTailProperties
<1>2. DOMAIN Tail(v) = 1..(Len(v) - 1)
  BY <1>1, LenProperties
<1>3. Once(Tail(v))
  BY <1>1, <1>2 DEF Once
<1>4. Head(v) \in ToSet(v) /\ Head(v) \in Key
  BY <1>1, ElementOfSeq DEF ToSet
<1>5. ASSUME NEW k \in ToSet(Tail(v)) PROVE k \in ToSet(v) \ {Head(v)}
  BY <1>1, <1>2 DEF ToSet, Once
<1>6. ASSUME NEW k \in ToSet(v) \ {Head(v)} PROVE k \in ToSet(Tail(v))
  <2>1. PICK i \in 1..Len(v) : v[i] = k
    BY <1>1 DEF ToSet
  <2>2. i - 1 \in 1..(Len(v) - 1) /\ (i - 1) + 1 = i
    BY <1>1, <2>1
  <2>3. Tail(v)[i - 1] = k
    BY <1>1, <2>1, <2>2
  <2>4. QED
    BY <1>2, <2>2, <2>3 DEF ToSet
<1>7. QED
  BY <1>1, <1>3, <1>4, <1>5, <1>6

-----------------------------------------------------------------------------
(* The invariant.  Where a goroutine is, and what it may then hold.         *)
Frame == [pc : PC, key : Key, answer : Answers, tmp : BOOLEAN, written : 0..MaxEntry,
          booked : 0..MaxEntry, due : 0..MaxEntry, oversized : BOOLEAN,
          victims : Seq(Key), then : PC]

(* Between the Lock and the unlock of its key. *)
Locked == PC \ {"idle", "stat", "head", "lock", "serve"}

Evicting == {"evict", "unlink"}
Settling == {"settle", "settleDisk"}

(* Its file is in place and not yet in the index. *)
Commits(w) == w.pc = "add" \/ (w.pc \in Settling /\ w.then = "add")

Books(w) ==
  \/ w.pc \in {"claim", "measure", "free", "copy", "landed", "book", "close", "settle"}
  \/ w.pc \in Evicting /\ w.then # "reopen"

Owes(w) ==
  \/ w.pc \in {"copy", "landed", "book", "close", "settle", "settleDisk"}
  \/ w.pc \in Evicting /\ w.then = "copy"

(* The temp file of PutBlob is there. *)
Writing(w) ==
  \/ w.pc \in {"fetch", "reserve", "claim", "measure", "free", "copy", "landed", "book", "close"}
  \/ w.pc \in Evicting /\ w.then # "reopen"

Work(w) ==
  /\ w.pc \in Evicting => w.then \in {"claim", "copy", "measure", "reopen"}
  /\ w.pc \in Settling => w.then \in {"remove", "add", "unlock"}
  /\ w.pc = "unlink" <=> w.victims # <<>>
  /\ w.written <= Size[w.key]
  /\ w.pc = "close" \/ Commits(w) => w.written = Size[w.key]
  /\ w.tmp => w.pc \in Locked
  /\ Writing(w) => w.tmp
  /\ w.booked # 0 => Books(w)
  /\ w.due # 0 => Owes(w)

Control == \A p \in Proc : Work(proc[p])

Exclusive == \A p \in Proc : proc[p].pc \in Locked => keyLock[proc[p].key] = p

(* Whoever downloads a blob, or is about to, has found no file. *)
Wants(w) == w.tmp \/ w.pc = "put"

Absent == \A p \in Proc : Wants(proc[p]) => proc[p].key \notin DOMAIN linked

Indexed ==
  \A k \in DOMAIN index.entries : k \in DOMAIN linked /\ index.entries[k].size = Size[k]

(* Each victim still has its file, and one goroutine that will unlink it. *)
OnlyVictims ==
  /\ \A p \in Proc : /\ Once(proc[p].victims)
                     /\ ToSet(proc[p].victims) \subseteq DOMAIN linked \ DOMAIN index.entries
  /\ \A p, q \in Proc : p # q => ToSet(proc[p].victims) \cap ToSet(proc[q].victims) = {}

Committed ==
  \A p \in Proc : Commits(proc[p]) =>
    /\ proc[p].key \in DOMAIN linked \ DOMAIN index.entries
    /\ \A q \in Proc : proc[p].key \notin ToSet(proc[q].victims)

Capping == Sound(index) /\ (~capped => index = Empty)

Inv ==
  /\ TypeOK /\ Capping /\ BooksBalance
  /\ Control /\ Exclusive /\ Absent
  /\ OnlyWholeBlobs /\ Indexed /\ OnlyVictims /\ Committed

LEMMA Sizes == /\ MaxEntry \in Nat /\ MaxStorage \in Nat
               /\ \A k \in Key : Size[k] \in Nat /\ Size[k] <= MaxEntry /\ Size[k] \in 0..MaxEntry
  BY SizeAssumption, BlobAssumption

LEMMA AnyKeyIsKey == AnyKey \in Key
  BY BlobAssumption DEF AnyKey

LEMMA FrameOf ==
  ASSUME TypeOK
  PROVE  proc \in [Proc -> Frame] /\ \A p \in Proc : proc[p] \in Frame
  BY DEF TypeOK, Frame

(* A step of one goroutine. *)
LEMMA LocalsOf ==
  ASSUME TypeOK, NEW p \in Proc, NEW w \in Frame, Locals(p, w)
  PROVE  /\ proc' \in [Proc -> Frame]
         /\ proc'[p] = w
         /\ \A q \in Proc : q # p => proc'[q] = proc[q]
<1>1. proc \in [Proc -> Frame]
  BY FrameOf
<1>2. QED
  BY <1>1 DEF Locals

LEMMA TypeStep ==
  ASSUME TypeOK, NEW p \in Proc, NEW w \in Frame, Locals(p, w), capped' = capped,
         pending' \in Nat, ledger' \in Proc \cup {Nobody},
         keyLock' \in [Key -> Proc \cup {Nobody}],
         DOMAIN linked' \subseteq Key, \A k \in DOMAIN linked' : linked'[k] \in 0..MaxEntry,
         reading' \in [Key -> SUBSET Proc],
         orphans' \subseteq [size : 0..MaxEntry, by : (SUBSET Proc) \ {{}}],
         leaked' \in Nat
  PROVE  TypeOK'
<1>1. proc' \in [Proc -> Frame]
  BY LocalsOf
<1>2. QED
  BY <1>1 DEF TypeOK, Frame

LEMMA ControlStep ==
  ASSUME TypeOK, Control, NEW p \in Proc, NEW w \in Frame, Locals(p, w), Work(w)
  PROVE  Control'
<1>1. proc'[p] = w /\ \A q \in Proc : q # p => proc'[q] = proc[q]
  BY LocalsOf
<1> SUFFICES ASSUME NEW q \in Proc PROVE Work(proc[q])'
  BY DEF Control
<1>2. Work(proc[q])' <=> Work(proc'[q])
  BY DEF Work, Writing, Commits, Books, Owes
<1>3. QED
  BY <1>1, <1>2 DEF Control

LEMMA BooksStep ==
  ASSUME TypeOK, BooksBalance, NEW p \in Proc, NEW w \in Frame, Locals(p, w), capped' = capped,
         capped => index'.inflight = index.inflight - proc[p].booked + w.booked,
         pending' = pending - proc[p].due + w.due
  PROVE  BooksBalance' /\ pending' \in Nat /\ (capped => index'.inflight \in Nat)
<1> DEFINE b == [q \in Proc |-> proc[q].booked]
           c == [q \in Proc |-> proc'[q].booked]
           d == [q \in Proc |-> proc[q].due]
           e == [q \in Proc |-> proc'[q].due]
<1>1. /\ \A q \in Proc : proc[q] \in Frame /\ proc'[q] \in Frame
      /\ proc'[p] = w /\ \A q \in Proc : q # p => proc'[q] = proc[q]
  BY FrameOf, LocalsOf
<1>2. /\ b \in [Proc -> 0..MaxEntry] /\ c \in [Proc -> 0..MaxEntry]
      /\ d \in [Proc -> 0..MaxEntry] /\ e \in [Proc -> 0..MaxEntry]
  BY <1>1 DEF Frame
<1>3. /\ b[p] = proc[p].booked /\ c[p] = w.booked /\ d[p] = proc[p].due /\ e[p] = w.due
      /\ \A q \in Proc \ {p} : c[q] = b[q] /\ e[q] = d[q]
  BY <1>1
<1>4. (capped => index.inflight = Total(b)) /\ pending = Total(d)
  BY DEF BooksBalance
<1>5. BooksBalance' <=> (capped' => index'.inflight = Total(c)) /\ pending' = Total(e)
  BY DEF BooksBalance
<1> HIDE DEF b, c, d, e
<1>6. /\ Total(c) = Total(b) - b[p] + c[p] /\ Total(c) \in Nat
      /\ Total(e) = Total(d) - d[p] + e[p] /\ Total(e) \in Nat
  BY <1>2, <1>3, BlobAssumption, TotalOfOneChanged
<1>7. (capped => index'.inflight = Total(c)) /\ pending' = Total(e)
  BY <1>3, <1>4, <1>6
<1>8. QED
  BY <1>5, <1>6, <1>7

(* What one goroutine holds is part of the sums. *)
LEMMA BooksCover ==
  ASSUME TypeOK, BooksBalance, NEW p \in Proc
  PROVE  /\ proc[p].due <= pending /\ pending \in Nat
         /\ capped => proc[p].booked <= index.inflight /\ index.inflight \in Nat
<1> DEFINE b == [q \in Proc |-> proc[q].booked]
           d == [q \in Proc |-> proc[q].due]
<1>1. b \in [Proc -> 0..MaxEntry] /\ d \in [Proc -> 0..MaxEntry]
  BY FrameOf DEF Frame
<1>2. b[p] = proc[p].booked /\ d[p] = proc[p].due
  OBVIOUS
<1>3. (capped => index.inflight = Total(b)) /\ pending = Total(d)
  BY DEF BooksBalance
<1> HIDE DEF b, d
<1>4. b[p] <= Total(b) /\ d[p] <= Total(d) /\ Total(b) \in Nat /\ Total(d) \in Nat
  BY <1>1, BlobAssumption, TotalOfOneChanged
<1>5. QED
  BY <1>2, <1>3, <1>4

(* The three things that happen to the lock of a key. *)
LEMMA LockKept ==
  ASSUME TypeOK, Exclusive, NEW p \in Proc, NEW w \in Frame, Locals(p, w), keyLock' = keyLock,
         w.pc \in Locked => proc[p].pc \in Locked /\ w.key = proc[p].key
  PROVE  Exclusive' /\ keyLock' \in [Key -> Proc \cup {Nobody}]
<1>1. proc'[p] = w /\ \A q \in Proc : q # p => proc'[q] = proc[q]
  BY LocalsOf
<1>2. QED
  BY <1>1 DEF Exclusive, TypeOK

LEMMA LockGiven ==
  ASSUME TypeOK, Exclusive, NEW p \in Proc, NEW w \in Frame, Locals(p, w),
         proc[p].pc \in Locked, Unlock(p), w.pc \notin Locked
  PROVE  Exclusive' /\ keyLock' \in [Key -> Proc \cup {Nobody}]
<1>1. /\ proc'[p] = w /\ \A q \in Proc : q # p => proc'[q] = proc[q]
      /\ \A q \in Proc : proc[q].key \in Key
  BY LocalsOf, FrameOf DEF Frame
<1>2. /\ keyLock \in [Key -> Proc \cup {Nobody}]
      /\ keyLock' = [keyLock EXCEPT ![proc[p].key] = Nobody]
  BY DEF TypeOK, Unlock
<1>3. \A q \in Proc \ {p} : proc[q].pc \in Locked => proc[q].key # proc[p].key
  BY DEF Exclusive
<1>4. QED
  BY <1>1, <1>2, <1>3 DEF Exclusive

LEMMA LockTaken ==
  ASSUME TypeOK, Exclusive, NEW p \in Proc, NEW w \in Frame, Locals(p, w),
         w.key = proc[p].key, keyLock[w.key] = Nobody,
         keyLock' = [keyLock EXCEPT ![w.key] = p]
  PROVE  Exclusive' /\ keyLock' \in [Key -> Proc \cup {Nobody}]
<1>1. /\ proc'[p] = w /\ \A q \in Proc : q # p => proc'[q] = proc[q]
      /\ \A q \in Proc : proc[q].key \in Key
      /\ Nobody \notin Proc
  BY LocalsOf, FrameOf, BlobAssumption DEF Frame
<1>2. keyLock \in [Key -> Proc \cup {Nobody}]
  BY DEF TypeOK
<1>3. \A q \in Proc : proc[q].pc \in Locked => proc[q].key # w.key
  BY <1>1 DEF Exclusive
<1>4. QED
  BY <1>1, <1>2, <1>3 DEF Exclusive

(* A step that neither moves files nor changes the entries of the index. *)
LEMMA QuietStep ==
  ASSUME Inv, NEW p \in Proc, NEW w \in Frame, Locals(p, w), Work(w),
         capped' = capped, linked' = linked,
         Exclusive', keyLock' \in [Key -> Proc \cup {Nobody}],
         Capping', index'.entries = index.entries,
         BooksBalance', pending' \in Nat,
         ledger' \in Proc \cup {Nobody}, reading' \in [Key -> SUBSET Proc],
         orphans' \subseteq [size : 0..MaxEntry, by : (SUBSET Proc) \ {{}}], leaked' \in Nat,
         w.victims = proc[p].victims,
         Wants(w) => w.key \notin DOMAIN linked,
         Commits(w) => Commits(proc[p]) /\ w.key = proc[p].key
  PROVE  Inv'
<1>1. proc'[p] = w /\ \A q \in Proc : q # p => proc'[q] = proc[q]
  BY LocalsOf DEF Inv
<1>2. TypeOK'
  <2>1. DOMAIN linked' \subseteq Key /\ \A k \in DOMAIN linked' : linked'[k] \in 0..MaxEntry
    BY DEF Inv, TypeOK
  <2>2. QED
    BY <2>1, TypeStep DEF Inv
<1>3. Control'
  BY ControlStep DEF Inv
<1>4. Absent'
  BY <1>1 DEF Inv, Absent, Wants
<1>5. OnlyWholeBlobs' /\ Indexed'
  BY DEF Inv, OnlyWholeBlobs, Indexed
<1>6. \A q \in Proc : proc'[q].victims = proc[q].victims
  BY <1>1
<1>7. OnlyVictims'
  BY <1>6 DEF Inv, OnlyVictims
<1>8. \A q \in Proc : Commits(proc'[q]) => Commits(proc[q]) /\ proc'[q].key = proc[q].key
  BY <1>1
<1>9. Committed'
  <2> SUFFICES ASSUME NEW q \in Proc, Commits(proc[q])'
               PROVE  /\ proc'[q].key \in DOMAIN linked' \ DOMAIN index'.entries
                      /\ \A r \in Proc : proc'[q].key \notin ToSet(proc'[r].victims)
    BY DEF Committed
  <2>1. Commits(proc'[q])
    BY DEF Commits
  <2>2. QED
    BY <1>6, <1>8, <2>1 DEF Inv, Committed
<1>10. QED
  BY <1>2, <1>3, <1>4, <1>5, <1>7, <1>9 DEF Inv

LEMMA InvParts ==
  ASSUME Inv
  PROVE  /\ TypeOK /\ Capping /\ BooksBalance /\ Control /\ Exclusive /\ Absent
         /\ OnlyWholeBlobs /\ Indexed /\ OnlyVictims /\ Committed
         /\ capped \in BOOLEAN /\ pending \in Nat /\ leaked \in Nat
         /\ ledger \in Proc \cup {Nobody} /\ keyLock \in [Key -> Proc \cup {Nobody}]
         /\ reading \in [Key -> SUBSET Proc]
         /\ orphans \subseteq [size : 0..MaxEntry, by : (SUBSET Proc) \ {{}}]
         /\ \A p \in Proc : proc[p] \in Frame /\ Work(proc[p])
  BY FrameOf, BlobAssumption DEF Inv, TypeOK, Control

LEMMA OwnFrame == ASSUME Inv, NEW p \in Proc PROVE proc[p] \in Frame
  BY InvParts

(* And leaves the index and every sum alone. *)
LEMMA IdleStep ==
  ASSUME Inv, NEW p \in Proc, NEW w \in Frame, Locals(p, w), Work(w),
         UNCHANGED <<index, capped, pending, linked>>,
         Exclusive', keyLock' \in [Key -> Proc \cup {Nobody}],
         ledger' \in Proc \cup {Nobody}, reading' \in [Key -> SUBSET Proc],
         orphans' \subseteq [size : 0..MaxEntry, by : (SUBSET Proc) \ {{}}], leaked' \in Nat,
         w.victims = proc[p].victims, w.booked = proc[p].booked, w.due = proc[p].due,
         Wants(w) => w.key \notin DOMAIN linked,
         Commits(w) => Commits(proc[p]) /\ w.key = proc[p].key
  PROVE  Inv'
<1>1. Capping'
  BY DEF Inv, Capping
<1>2. capped => index.inflight \in Nat
  BY BooksCover, InvParts
<1>3. /\ capped => index'.inflight = index.inflight - proc[p].booked + w.booked
      /\ pending' = pending - proc[p].due + w.due
  <2>1. /\ proc[p].booked \in Int /\ proc[p].due \in Int /\ pending \in Int
    BY InvParts, Sizes DEF Frame
  <2>2. QED
    BY <1>2, <2>1
<1>4. BooksBalance' /\ pending' \in Nat
  BY <1>3, BooksStep, InvParts
<1>5. QED
  BY <1>1, <1>4, QuietStep

LEMMA IdleIsIdle ==
  ASSUME NEW k \in Key
  PROVE  /\ Idle(k) \in Frame /\ Work(Idle(k)) /\ ~Wants(Idle(k)) /\ ~Commits(Idle(k))
         /\ Idle(k).pc = "idle" /\ Idle(k).victims = <<>>
         /\ Idle(k).booked = 0 /\ Idle(k).due = 0
<1>1. <<>> \in Seq(Key)
  OBVIOUS
<1>2. 0 \in 0..MaxEntry /\ 0 <= Size[k]
  BY Sizes
<1>3. Idle(k) \in Frame
  BY <1>1, <1>2 DEF Idle, Frame, PC, Answers
<1>4. QED
  BY <1>2, <1>3 DEF Idle, Work, Writing, Wants, Commits, Books, Owes, Evicting, Settling, Locked

LEMMA ArriveKeepsInv == ASSUME Inv, NEW p \in Proc, Arrive(p) PROVE Inv'
<1>1. PICK k \in Key, first \in {"lock", "stat"} : Locals(p, [Idle(k) EXCEPT !.pc = first])
  BY DEF Arrive
<1> DEFINE w == [Idle(k) EXCEPT !.pc = first]
<1>2. /\ UNCHANGED <<index, capped, pending, ledger, keyLock, linked, reading, orphans, leaked>>
      /\ proc[p].pc = "idle"
  BY DEF Arrive, mem, disk, At
<1>3. /\ w \in Frame /\ w.pc = first /\ w.victims = <<>> /\ w.booked = 0 /\ w.due = 0
      /\ w.tmp = FALSE /\ w.written = 0 /\ w.key = k /\ w.then = "idle"
  BY IdleIsIdle DEF Idle, Frame, PC
<1> HIDE DEF w
<1>4. Work(w) /\ ~Wants(w) /\ ~Commits(w)
  BY <1>3, Sizes DEF Work, Writing, Wants, Commits, Books, Owes, Evicting, Settling, Locked
<1>5. proc[p].victims = <<>> /\ proc[p].booked = 0 /\ proc[p].due = 0
  BY <1>2, InvParts DEF Work, Writing, Books, Owes, Evicting
<1>6. Exclusive' /\ keyLock' \in [Key -> Proc \cup {Nobody}]
  BY <1>1, <1>2, <1>3, LockKept, InvParts DEF Locked, w
<1>7. QED
  BY <1>1, <1>2, <1>3, <1>4, <1>5, <1>6, IdleStep, InvParts DEF w

(* A goroutine that only goes on, within its critical section or outside. *)
LEMMA GotoStep ==
  ASSUME Inv, NEW p \in Proc, NEW w \in Frame, Locals(p, w),
         UNCHANGED <<index, capped, pending, keyLock, linked, orphans, leaked>>,
         ledger' \in Proc \cup {Nobody}, reading' \in [Key -> SUBSET Proc],
         w.pc \in PC, w.pc # "unlink", proc[p].pc # "unlink",
         w.key = proc[p].key, w.victims = proc[p].victims, w.booked = proc[p].booked,
         w.due = proc[p].due, w.written = proc[p].written, w.tmp = proc[p].tmp,
         w.pc \in Locked => proc[p].pc \in Locked, w.tmp => w.pc \in Locked,
         w.pc = "put" => w.key \notin DOMAIN linked,
         ~Commits(w), w.pc = "close" => w.written = Size[w.key], w.pc \notin Evicting,
         w.pc \in Settling => w.then \in {"remove", "unlock"},
         Writing(w) => Writing(proc[p]), w.booked # 0 => Books(w), w.due # 0 => Owes(w)
  PROVE  Inv'
<1>1. Work(proc[p]) /\ (proc[p].tmp => proc[p].key \notin DOMAIN linked)
  BY InvParts DEF Absent, Wants
<1>2. Work(w)
  BY <1>1 DEF Work
<1>3. Wants(w) => w.key \notin DOMAIN linked
  BY <1>1 DEF Wants
<1>4. Exclusive' /\ keyLock' \in [Key -> Proc \cup {Nobody}]
  BY LockKept, InvParts
<1>5. QED
  BY <1>2, <1>3, <1>4, IdleStep, InvParts

LEMMA FailStep ==
  ASSUME Inv, NEW p \in Proc, proc[p].pc \in {"fetch", "claim", "measure", "free", "copy"},
         NEW answer \in Answers, Fail(p, answer),
         UNCHANGED <<index, capped, pending, keyLock, linked, reading, orphans, leaked>>,
         ledger' \in Proc \cup {Nobody}
  PROVE  Inv'
<1> DEFINE w == [proc[p] EXCEPT !.pc = "settle", !.then = "remove", !.answer = answer]
<1>1. Locals(p, w)
  BY DEF Fail
<1>2. /\ w \in Frame /\ w.pc = "settle" /\ w.then = "remove"
      /\ w.key = proc[p].key /\ w.victims = proc[p].victims /\ w.booked = proc[p].booked
      /\ w.due = proc[p].due /\ w.written = proc[p].written /\ w.tmp = proc[p].tmp
  BY OwnFrame DEF Frame, PC
<1> HIDE DEF w
<1>3. /\ ~Commits(w) /\ Books(w) /\ Owes(w) /\ w.pc \in Locked /\ proc[p].pc \in Locked
      /\ w.pc \in PC /\ w.pc \notin Evicting /\ ~Writing(w)
  BY <1>2 DEF Commits, Writing, Books, Owes, Locked, Settling, Evicting, PC
<1>4. QED
  BY <1>1, <1>2, <1>3, GotoStep, InvParts

LEMMA StatKeepsInv == ASSUME Inv, NEW p \in Proc, Stat(p) PROVE Inv'
<1> DEFINE w == [proc[p] EXCEPT !.pc = IF proc[p].key \in DOMAIN linked THEN "head" ELSE "lock"]
<1>1. /\ Locals(p, w) /\ proc[p].pc = "stat"
      /\ UNCHANGED <<index, capped, pending, ledger, keyLock, linked, reading, orphans, leaked>>
  BY DEF Stat, Goto, At, mem, disk
<1>2. /\ w \in Frame /\ w.pc \in {"head", "lock"}
      /\ w.key = proc[p].key /\ w.victims = proc[p].victims /\ w.booked = proc[p].booked
      /\ w.due = proc[p].due /\ w.written = proc[p].written /\ w.tmp = proc[p].tmp
  BY OwnFrame DEF Frame, PC
<1> HIDE DEF w
<1>3. w.booked = 0 /\ w.due = 0 /\ ~w.tmp
  BY <1>1, <1>2, InvParts DEF Work, Writing, Books, Owes, Locked, Evicting
<1>4. /\ ~Commits(w) /\ w.pc \notin Locked /\ w.pc \in PC
      /\ w.pc \notin Evicting \cup Settling /\ ~Writing(w)
  BY <1>2 DEF Commits, Writing, Locked, Settling, Evicting, PC
<1>5. QED
  BY <1>1, <1>2, <1>3, <1>4, GotoStep, InvParts

LEMMA CreateTempKeepsInv == ASSUME Inv, NEW p \in Proc, CreateTemp(p) PROVE Inv'
<1>1. /\ proc[p].pc = "put" /\ proc[p].pc \in Locked
      /\ UNCHANGED <<index, capped, pending, ledger, keyLock, linked, reading, orphans, leaked>>
  BY DEF CreateTemp, At, mem, disk, Locked, PC
<1>2. /\ proc[p].booked = 0 /\ proc[p].due = 0 /\ proc[p].victims = <<>>
      /\ proc[p].key \notin DOMAIN linked /\ proc[p].written <= Size[proc[p].key]
  BY <1>1, InvParts DEF Work, Writing, Books, Owes, Evicting, Absent, Wants
<1>3. CASE Locals(p, [proc[p] EXCEPT !.pc = "fetch", !.tmp = TRUE])
  <2> DEFINE w == [proc[p] EXCEPT !.pc = "fetch", !.tmp = TRUE]
  <2>1. /\ w \in Frame /\ w.pc = "fetch" /\ w.key = proc[p].key /\ w.victims = <<>>
        /\ w.booked = 0 /\ w.due = 0 /\ w.written = proc[p].written /\ w.tmp
    BY <1>2, OwnFrame DEF Frame, PC
  <2>2. Locals(p, w)
    BY <1>3
  <2> HIDE DEF w
  <2>3. Work(w) /\ ~Commits(w) /\ w.pc \in Locked
    BY <1>2, <2>1 DEF Work, Writing, Commits, Books, Owes, Evicting, Settling, Locked, PC
  <2>4. Exclusive' /\ keyLock' \in [Key -> Proc \cup {Nobody}]
    BY <1>1, <2>1, <2>2, LockKept, InvParts
  <2>5. QED
    BY <1>1, <1>2, <2>1, <2>2, <2>3, <2>4, IdleStep, InvParts
<1>4. CASE Locals(p, [proc[p] EXCEPT !.pc = "unlock", !.answer = "badGateway"])
  <2> DEFINE w == [proc[p] EXCEPT !.pc = "unlock", !.answer = "badGateway"]
  <2>1. /\ w \in Frame /\ w.pc = "unlock" /\ w.key = proc[p].key /\ w.victims = proc[p].victims
        /\ w.booked = proc[p].booked /\ w.due = proc[p].due /\ w.written = proc[p].written
        /\ w.tmp = proc[p].tmp
    BY <1>2, OwnFrame DEF Frame, PC, Answers
  <2>2. Locals(p, w)
    BY <1>4
  <2> HIDE DEF w
  <2>3. ~Commits(w) /\ w.pc \in Locked /\ w.pc \in PC /\ w.pc \notin Evicting \cup Settling /\ ~Writing(w)
    BY <2>1 DEF Commits, Writing, Evicting, Settling, Locked, PC
  <2>4. QED
    BY <1>1, <1>2, <2>1, <2>2, <2>3, GotoStep, InvParts
<1>5. QED
  BY <1>3, <1>4 DEF CreateTemp

LEMMA RespondKeepsInv == ASSUME Inv, NEW p \in Proc, Respond(p) PROVE Inv'
<1>1. /\ proc[p].pc = "fetch" /\ proc[p].pc \in Locked
      /\ UNCHANGED <<index, capped, pending, ledger, keyLock, linked, reading, orphans, leaked>>
  BY DEF Respond, At, mem, disk, Locked, PC
<1>2. ASSUME NEW answer \in {"notFound", "badGateway"}, Fail(p, answer) PROVE Inv'
  BY <1>1, <1>2, FailStep, InvParts DEF Answers
<1>3. ASSUME NEW pc \in {"reserve", "copy"}, Goto(p, pc) PROVE Inv'
  <2> DEFINE w == [proc[p] EXCEPT !.pc = pc]
  <2>1. /\ w \in Frame /\ w.pc = pc /\ w.key = proc[p].key /\ w.victims = proc[p].victims
        /\ w.booked = proc[p].booked /\ w.due = proc[p].due /\ w.written = proc[p].written
        /\ w.tmp = proc[p].tmp
    BY OwnFrame DEF Frame, PC
  <2>2. Locals(p, w)
    BY <1>3 DEF Goto
  <2> HIDE DEF w
  <2>3. ~Commits(w) /\ w.pc \in Locked /\ w.pc \in PC /\ w.pc \notin Evicting \cup Settling /\ Writing(proc[p])
    BY <1>1, <2>1 DEF Commits, Writing, Evicting, Settling, Locked, PC
  <2>4. w.booked = 0 /\ w.due = 0
    BY <1>1, <2>1, InvParts DEF Work, Writing, Books, Owes, Evicting
  <2>5. QED
    BY <1>1, <2>1, <2>2, <2>3, <2>4, GotoStep, InvParts
<1>4. QED
  BY <1>2, <1>3 DEF Respond

LEMMA TouchedCapping ==
  ASSUME Inv, NEW k \in Key, index' = Touched(index, k), capped' = capped
  PROVE  Capping' /\ index'.entries = index.entries /\ index'.inflight = index.inflight
<1>1. Sound(index) /\ (~capped => index = Empty)
  BY DEF Inv, Capping
<1>2. /\ Sound(index') /\ index'.entries = index.entries /\ index'.inflight = index.inflight
  BY <1>1, TouchedKeeps
<1>3. ASSUME ~capped PROVE index' = Empty
  BY <1>1, <1>3 DEF Touched, Empty
<1>4. QED
  BY <1>2, <1>3 DEF Capping

(* A goroutine that holds nothing and goes on holding nothing. *)
LEMMA EmptyHandedStep ==
  ASSUME Inv, NEW p \in Proc, NEW w \in Frame, Locals(p, w),
         UNCHANGED <<capped, pending, ledger, linked>>, Exclusive',
         keyLock' \in [Key -> Proc \cup {Nobody}], Capping',
         index'.entries = index.entries, index'.inflight = index.inflight,
         reading' \in [Key -> SUBSET Proc],
         orphans' \subseteq [size : 0..MaxEntry, by : (SUBSET Proc) \ {{}}], leaked' \in Nat,
         ~Books(proc[p]), ~Owes(proc[p]), proc[p].pc # "unlink",
         w.pc \in {"idle", "serve"}, w.victims = <<>>, w.booked = 0, w.due = 0,
         w.written <= Size[w.key], ~w.tmp
  PROVE  Inv'
<1>1. /\ Work(w) /\ ~Wants(w) /\ ~Commits(w)
  BY DEF Work, Writing, Wants, Commits, Books, Owes, Evicting, Settling, Locked, PC
<1>2. proc[p].victims = <<>> /\ proc[p].booked = 0 /\ proc[p].due = 0
  BY InvParts DEF Work, Writing
<1>3. capped => index.inflight \in Nat
  BY BooksCover, InvParts
<1>4. /\ capped => index'.inflight = index.inflight - proc[p].booked + w.booked
      /\ pending' = pending - proc[p].due + w.due
  BY <1>2, <1>3, InvParts
<1>5. BooksBalance' /\ pending' \in Nat
  BY <1>4, BooksStep, InvParts
<1>6. ledger' \in Proc \cup {Nobody}
  BY InvParts
<1>7. QED
  BY <1>1, <1>2, <1>5, <1>6, QuietStep

LEMMA AnyIdle ==
  LET w == Idle(AnyKey) IN
  /\ w \in Frame /\ w.pc = "idle" /\ w.victims = <<>> /\ w.booked = 0 /\ w.due = 0
  /\ w.written <= Size[w.key] /\ ~w.tmp /\ w.pc \notin Locked
<1>1. AnyKey \in Key /\ Idle(AnyKey) \in Frame
  BY AnyKeyIsKey, IdleIsIdle
<1>2. QED
  BY <1>1, Sizes DEF Idle, Locked

LEMMA TouchHeadKeepsInv == ASSUME Inv, NEW p \in Proc, TouchHead(p) PROVE Inv'
<1> DEFINE w == Idle(AnyKey)
<1>1. /\ proc[p].pc = "head" /\ index' = Touched(index, proc[p].key) /\ Locals(p, w)
      /\ UNCHANGED <<capped, pending, ledger, keyLock, linked, reading, orphans, leaked>>
  BY DEF TouchHead, At, Finish, mem, disk
<1>2. /\ w \in Frame /\ w.pc = "idle" /\ w.victims = <<>> /\ w.booked = 0 /\ w.due = 0
      /\ w.written <= Size[w.key] /\ ~w.tmp /\ w.pc \notin Locked
  BY AnyIdle
<1> HIDE DEF w
<1>3. proc[p].key \in Key
  BY OwnFrame DEF Frame
<1>4. Capping' /\ index'.entries = index.entries /\ index'.inflight = index.inflight
  BY <1>1, <1>3, TouchedCapping
<1>5. Exclusive' /\ keyLock' \in [Key -> Proc \cup {Nobody}]
  BY <1>1, <1>2, LockKept, InvParts
<1>6. ~Books(proc[p]) /\ ~Owes(proc[p])
  BY <1>1 DEF Books, Owes, Evicting
<1>7. QED
  BY <1>1, <1>2, <1>4, <1>5, <1>6, EmptyHandedStep, InvParts

LEMMA LockKeepsInv == ASSUME Inv, NEW p \in Proc, Lock(p) PROVE Inv'
<1> DEFINE w == [proc[p] EXCEPT !.pc = "open"]
<1>1. /\ proc[p].pc = "lock" /\ Locals(p, w) /\ keyLock[proc[p].key] = Nobody
      /\ keyLock' = [keyLock EXCEPT ![proc[p].key] = p]
      /\ UNCHANGED <<index, capped, pending, ledger, linked, reading, orphans, leaked>>
  BY DEF Lock, At, Goto, disk
<1>2. /\ w \in Frame /\ w.pc = "open" /\ w.key = proc[p].key /\ w.victims = proc[p].victims
      /\ w.booked = proc[p].booked /\ w.due = proc[p].due /\ w.written = proc[p].written
      /\ w.tmp = proc[p].tmp
  BY OwnFrame DEF Frame, PC
<1> HIDE DEF w
<1>3. /\ proc[p].booked = 0 /\ proc[p].due = 0 /\ proc[p].victims = <<>> /\ ~proc[p].tmp
      /\ proc[p].written <= Size[proc[p].key]
  BY <1>1, InvParts DEF Work, Writing, Books, Owes, Evicting, Locked
<1>4. Work(w) /\ ~Commits(w) /\ ~Wants(w)
  BY <1>2, <1>3 DEF Work, Writing, Commits, Wants, Books, Owes, Evicting, Settling, Locked, PC
<1>5. Exclusive' /\ keyLock' \in [Key -> Proc \cup {Nobody}]
  BY <1>1, <1>2, LockTaken, InvParts
<1>6. QED
  BY <1>1, <1>2, <1>4, <1>5, IdleStep, InvParts

LEMMA OpenKeepsInv == ASSUME Inv, NEW p \in Proc, Open(p) PROVE Inv'
<1>1. /\ proc[p].pc \in {"open", "reopen"} /\ proc[p].pc \in Locked
      /\ UNCHANGED <<index, capped, pending, ledger, keyLock, linked, orphans, leaked>>
  BY DEF Open, At, mem, Locked, PC
<1>2. reading' \in [Key -> SUBSET Proc]
  BY InvParts DEF Open
<1>3. proc[p].booked = 0 /\ proc[p].due = 0
  BY <1>1, InvParts DEF Work, Writing, Books, Owes, Evicting
<1>4. PICK pc \in {"touch", "put", "unlock"}, answer \in {proc[p].answer, "notFound"} :
        /\ Locals(p, [proc[p] EXCEPT !.pc = pc, !.answer = answer])
        /\ pc = "put" => proc[p].key \notin DOMAIN linked
  <2>1. \A pc \in PC : [proc[p] EXCEPT !.pc = pc] =
                         [proc[p] EXCEPT !.pc = pc, !.answer = proc[p].answer]
    BY OwnFrame DEF Frame
  <2>2. CASE proc[p].key \in DOMAIN linked
    <3>1. Locals(p, [proc[p] EXCEPT !.pc = "touch"])
      BY <2>2 DEF Open, Goto
    <3>2. QED
      BY <2>1, <3>1 DEF PC
  <2>3. CASE proc[p].key \notin DOMAIN linked
    <3>1. \/ Locals(p, [proc[p] EXCEPT !.pc = "put"])
          \/ Locals(p, [proc[p] EXCEPT !.pc = "unlock", !.answer = "notFound"])
      BY <2>3 DEF Open, Goto
    <3>2. QED
      BY <2>1, <2>3, <3>1 DEF PC
  <2>4. QED
    BY <2>2, <2>3
<1> DEFINE w == [proc[p] EXCEPT !.pc = pc, !.answer = answer]
<1>5. /\ w \in Frame /\ w.pc = pc /\ w.key = proc[p].key /\ w.victims = proc[p].victims
      /\ w.booked = proc[p].booked /\ w.due = proc[p].due /\ w.written = proc[p].written
      /\ w.tmp = proc[p].tmp
  <2>1. pc \in PC
    BY DEF PC
  <2>2. answer \in Answers
    BY OwnFrame DEF Answers, Frame
  <2>3. proc[p] \in Frame
    BY OwnFrame
  <2>4. QED
    BY <2>1, <2>2, <2>3 DEF Frame
<1>6. Locals(p, w)
  BY <1>4
<1> HIDE DEF w
<1>7. ~Commits(w) /\ w.pc \in Locked /\ w.pc \in PC /\ w.pc \notin Evicting \cup Settling /\ ~Writing(w)
  BY <1>5 DEF Commits, Writing, Evicting, Settling, Locked, PC
<1>8. QED
  BY <1>1, <1>2, <1>3, <1>4, <1>5, <1>6, <1>7, GotoStep, InvParts

LEMMA TouchKeepsInv == ASSUME Inv, NEW p \in Proc, Touch(p) PROVE Inv'
<1> DEFINE k == proc[p].key
           w == [Idle(k) EXCEPT !.pc = "serve", !.answer = "ok"]
<1>1. /\ proc[p].pc = "touch" /\ index' = Touched(index, k) /\ Locals(p, w) /\ Unlock(p)
      /\ UNCHANGED <<capped, pending, ledger, linked, reading, orphans, leaked>>
  BY DEF Touch, At, disk
<1>2. k \in Key
  BY OwnFrame DEF Frame
<1> HIDE DEF k
<1>3. /\ w \in Frame /\ w.pc = "serve" /\ w.victims = <<>> /\ w.booked = 0 /\ w.due = 0
      /\ w.written <= Size[w.key] /\ ~w.tmp
  <2>1. "serve" \in PC /\ "ok" \in Answers
    BY DEF PC, Answers
  <2>2. Idle(k) \in Frame /\ Idle(k).written = 0 /\ ~Idle(k).tmp /\ Idle(k).key = k
    BY <1>2, IdleIsIdle DEF Idle
  <2>3. Idle(k).victims = <<>> /\ Idle(k).booked = 0 /\ Idle(k).due = 0
    BY <1>2, IdleIsIdle
  <2>4. /\ w \in Frame /\ w.pc = "serve" /\ w.victims = <<>> /\ w.booked = 0 /\ w.due = 0
        /\ w.written = 0 /\ w.key = k /\ w.tmp = Idle(k).tmp
    BY <2>1, <2>2, <2>3 DEF Frame
  <2>5. QED
    BY <1>2, <2>2, <2>4, Sizes
<1> HIDE DEF w
<1>4. w.pc \notin Locked /\ proc[p].pc \in Locked
  BY <1>1, <1>3 DEF Locked, PC
<1>5. Capping' /\ index'.entries = index.entries /\ index'.inflight = index.inflight
  BY <1>1, <1>2, TouchedCapping
<1>6. Exclusive' /\ keyLock' \in [Key -> Proc \cup {Nobody}]
  BY <1>1, <1>3, <1>4, LockGiven, InvParts
<1>7. ~Books(proc[p]) /\ ~Owes(proc[p])
  BY <1>1 DEF Books, Owes, Evicting
<1>8. QED
  BY <1>1, <1>3, <1>5, <1>6, <1>7, EmptyHandedStep, InvParts

(* A request ends. *)
LEMMA FinishStep ==
  ASSUME Inv, NEW p \in Proc, Finish(p), UNCHANGED <<index, capped, pending, ledger, linked>>,
         proc[p].pc \in {"serve", "unlock", "remove"},
         \/ UNCHANGED keyLock /\ proc[p].pc \notin Locked
         \/ Unlock(p) /\ proc[p].pc \in Locked,
         reading' \in [Key -> SUBSET Proc],
         orphans' \subseteq [size : 0..MaxEntry, by : (SUBSET Proc) \ {{}}], leaked' \in Nat
  PROVE  Inv'
<1> DEFINE w == Idle(AnyKey)
<1>1. Locals(p, w)
  BY DEF Finish
<1>2. /\ w \in Frame /\ w.pc = "idle" /\ w.victims = <<>> /\ w.booked = 0 /\ w.due = 0
      /\ w.written <= Size[w.key] /\ ~w.tmp /\ w.pc \notin Locked
  BY AnyIdle
<1> HIDE DEF w
<1>3. Capping'
  BY DEF Inv, Capping
<1>4. Exclusive' /\ keyLock' \in [Key -> Proc \cup {Nobody}]
  BY <1>1, <1>2, LockKept, LockGiven, InvParts
<1>5. ~Books(proc[p]) /\ ~Owes(proc[p])
  BY DEF Books, Owes, Evicting
<1>6. QED
  BY <1>1, <1>2, <1>3, <1>4, <1>5, EmptyHandedStep, InvParts

LEMMA ServeKeepsInv == ASSUME Inv, NEW p \in Proc, Serve(p) PROVE Inv'
<1>1. /\ proc[p].pc = "serve" /\ proc[p].pc \notin Locked /\ Finish(p)
      /\ UNCHANGED <<index, capped, pending, ledger, keyLock, linked, leaked>>
  BY DEF Serve, At, mem, Locked
<1>2. reading' \in [Key -> SUBSET Proc]
  BY InvParts DEF Serve
<1>3. orphans' \subseteq [size : 0..MaxEntry, by : (SUBSET Proc) \ {{}}]
  <2>1. orphans' = {o \in {[f EXCEPT !.by = @ \ {p}] : f \in orphans} : o.by # {}}
    BY DEF Serve
  <2>2. orphans \subseteq [size : 0..MaxEntry, by : (SUBSET Proc) \ {{}}]
    BY InvParts
  <2>3. ASSUME NEW o \in orphans' PROVE o \in [size : 0..MaxEntry, by : (SUBSET Proc) \ {{}}]
    <3>1. PICK f \in orphans : o = [f EXCEPT !.by = @ \ {p}]
      BY <2>1
    <3>2. f \in [size : 0..MaxEntry, by : (SUBSET Proc) \ {{}}] /\ o.by # {}
      BY <2>1, <2>2
    <3>3. QED
      BY <3>1, <3>2
  <2>4. QED
    BY <2>3
<1>4. QED
  BY <1>1, <1>2, <1>3, FinishStep, InvParts

LEMMA LeaveKeepsInv == ASSUME Inv, NEW p \in Proc, Leave(p) PROVE Inv'
<1>1. /\ proc[p].pc = "unlock" /\ proc[p].pc \in Locked /\ Finish(p) /\ Unlock(p)
      /\ UNCHANGED <<index, capped, pending, ledger, linked, reading, orphans, leaked>>
  BY DEF Leave, At, disk, Locked, PC
<1>2. QED
  BY <1>1, FinishStep, InvParts

LEMMA RemoveTempKeepsInv == ASSUME Inv, NEW p \in Proc, RemoveTemp(p) PROVE Inv'
<1>1. /\ proc[p].pc = "remove" /\ proc[p].pc \in Locked /\ Finish(p) /\ Unlock(p)
      /\ UNCHANGED <<index, capped, pending, ledger, linked, reading, orphans>>
  BY DEF RemoveTemp, At, Locked, PC
<1>2. leaked' = leaked \/ leaked' = leaked + proc[p].written
  BY DEF RemoveTemp
<1>3. proc[p].written \in Nat
  BY OwnFrame, Sizes DEF Frame
<1>4. leaked' \in Nat
  BY <1>2, <1>3, InvParts
<1>5. QED
  BY <1>1, <1>4, FinishStep, InvParts

-----------------------------------------------------------------------------
(* The ledger. *)
LEMMA GrantStep ==
  ASSUME Inv, NEW p \in Proc, proc[p].pc \in {"claim", "measure"}, Grant(p),
         UNCHANGED <<index, capped, keyLock, linked, reading, orphans, leaked>>
  PROVE  Inv'
<1> DEFINE n == Size[proc[p].key]
           w == [proc[p] EXCEPT !.pc = "copy", !.due = n]
<1>1. Locals(p, w) /\ pending' = pending + n /\ ledger' = Nobody
  BY DEF Grant
<1>2. n \in Nat /\ n \in 0..MaxEntry
  BY Sizes, OwnFrame DEF Frame
<1> HIDE DEF n
<1>3. /\ w \in Frame /\ w.pc = "copy" /\ w.key = proc[p].key /\ w.victims = proc[p].victims
      /\ w.booked = proc[p].booked /\ w.due = n /\ w.written = proc[p].written
      /\ w.tmp = proc[p].tmp
  BY <1>2, OwnFrame DEF Frame, PC
<1> HIDE DEF w
<1>4. /\ proc[p].due = 0 /\ proc[p].victims = <<>> /\ proc[p].written <= Size[proc[p].key]
      /\ proc[p].pc \in Locked /\ proc[p].booked \in Nat
      /\ proc[p].tmp /\ proc[p].key \notin DOMAIN linked
  BY InvParts, Sizes DEF Work, Writing, Owes, Evicting, Locked, PC, Absent, Wants, Frame
<1>5. Work(w) /\ ~Commits(w) /\ (Wants(w) => w.key \notin DOMAIN linked)
  BY <1>3, <1>4 DEF Work, Writing, Commits, Wants, Books, Owes, Evicting, Settling, Locked, PC
<1>6. Capping'
  BY DEF Inv, Capping
<1>7. /\ capped => index'.inflight = index.inflight - proc[p].booked + w.booked
      /\ pending' = pending - proc[p].due + w.due
  <2>1. capped => index.inflight \in Nat
    BY BooksCover, InvParts
  <2>2. QED
    BY <1>1, <1>2, <1>3, <1>4, <2>1, InvParts
<1>8. BooksBalance' /\ pending' \in Nat
  BY <1>1, <1>3, <1>7, BooksStep, InvParts
<1>9. Exclusive' /\ keyLock' \in [Key -> Proc \cup {Nobody}]
  BY <1>1, <1>3, <1>4, LockKept, InvParts
<1>10. QED
  BY <1>1, <1>3, <1>5, <1>6, <1>8, <1>9, QuietStep, InvParts

LEMMA ClaimKeepsInv == ASSUME Inv, NEW p \in Proc, Claim(p) PROVE Inv'
<1>1. /\ proc[p].pc = "claim" /\ proc[p].pc \in Locked
      /\ UNCHANGED <<index, capped, keyLock, linked, reading, orphans, leaked>>
  BY DEF Claim, At, disk, Locked, PC
<1>2. Grant(p) \/ (Goto(p, "measure") /\ ledger' = p /\ UNCHANGED pending)
  BY DEF Claim
<1>3. CASE Goto(p, "measure") /\ ledger' = p /\ UNCHANGED pending
  <2> DEFINE w == [proc[p] EXCEPT !.pc = "measure"]
  <2>1. /\ w \in Frame /\ w.pc = "measure" /\ w.key = proc[p].key /\ w.victims = proc[p].victims
        /\ w.booked = proc[p].booked /\ w.due = proc[p].due /\ w.written = proc[p].written
        /\ w.tmp = proc[p].tmp
    BY OwnFrame DEF Frame, PC
  <2>2. Locals(p, w)
    BY <1>3 DEF Goto
  <2> HIDE DEF w
  <2>3. /\ ~Commits(w) /\ w.pc \in Locked /\ w.pc \in PC /\ w.pc \notin Evicting \cup Settling
        /\ Books(w) /\ Writing(proc[p])
    BY <1>1, <2>1 DEF Commits, Writing, Evicting, Settling, Locked, PC, Books
  <2>4. w.due = 0
    BY <1>1, <2>1, InvParts DEF Work, Writing, Owes, Evicting
  <2>5. QED
    BY <1>1, <1>3, <2>1, <2>2, <2>3, <2>4, GotoStep, InvParts
<1>4. QED
  BY <1>1, <1>2, <1>3, GrantStep

LEMMA MeasureKeepsInv == ASSUME Inv, NEW p \in Proc, Measure(p) PROVE Inv'
<1>1. /\ proc[p].pc = "measure" /\ proc[p].pc \in Locked
      /\ UNCHANGED <<index, capped, keyLock, linked, reading, orphans, leaked>>
  BY DEF Measure, At, disk, Locked, PC
<1>2. \/ Grant(p) \/ Refuse(p)
      \/ Goto(p, "free") /\ UNCHANGED <<ledger, pending>>
  BY DEF Measure
<1>3. CASE Goto(p, "free") /\ UNCHANGED <<ledger, pending>>
  <2> DEFINE w == [proc[p] EXCEPT !.pc = "free"]
  <2>1. /\ w \in Frame /\ w.pc = "free" /\ w.key = proc[p].key /\ w.victims = proc[p].victims
        /\ w.booked = proc[p].booked /\ w.due = proc[p].due /\ w.written = proc[p].written
        /\ w.tmp = proc[p].tmp
    BY OwnFrame DEF Frame, PC
  <2>2. Locals(p, w)
    BY <1>3 DEF Goto
  <2> HIDE DEF w
  <2>3. /\ ~Commits(w) /\ w.pc \in Locked /\ w.pc \in PC /\ w.pc \notin Evicting \cup Settling
        /\ Books(w) /\ Writing(proc[p])
    BY <1>1, <2>1 DEF Commits, Writing, Evicting, Settling, Locked, PC, Books
  <2>4. w.due = 0
    BY <1>1, <2>1, InvParts DEF Work, Writing, Owes, Evicting
  <2>5. QED
    BY <1>1, <1>3, <2>1, <2>2, <2>3, <2>4, GotoStep, InvParts
<1>4. CASE Refuse(p)
  <2>1. Fail(p, "insufficient") /\ ledger' = Nobody /\ UNCHANGED pending /\ "insufficient" \in Answers
    BY <1>4 DEF Refuse, Answers
  <2>2. QED
    BY <1>1, <2>1, FailStep
<1>5. QED
  BY <1>1, <1>2, <1>3, <1>4, GrantStep

-----------------------------------------------------------------------------
(* The writer. *)
LEMMA CopyKeepsInv == ASSUME Inv, NEW p \in Proc, Copy(p) PROVE Inv'
<1>1. /\ proc[p].pc = "copy" /\ proc[p].pc \in Locked
      /\ UNCHANGED <<index, capped, pending, ledger, keyLock, linked, reading, orphans, leaked>>
  BY DEF Copy, At, mem, disk, Locked, PC
<1>2. \/ proc[p].written = Size[proc[p].key] /\ Goto(p, "close")
      \/ Fail(p, "badGateway")
      \/ /\ proc[p].written < Size[proc[p].key]
         /\ Locals(p, [proc[p] EXCEPT !.pc = "landed", !.written = @ + 1])
  BY DEF Copy
<1>3. CASE proc[p].written = Size[proc[p].key] /\ Goto(p, "close")
  <2> DEFINE w == [proc[p] EXCEPT !.pc = "close"]
  <2>1. /\ w \in Frame /\ w.pc = "close" /\ w.key = proc[p].key /\ w.victims = proc[p].victims
        /\ w.booked = proc[p].booked /\ w.due = proc[p].due /\ w.written = proc[p].written
        /\ w.tmp = proc[p].tmp
    BY OwnFrame DEF Frame, PC
  <2>2. Locals(p, w)
    BY <1>3 DEF Goto
  <2> HIDE DEF w
  <2>3. /\ ~Commits(w) /\ w.pc \in Locked /\ w.pc \in PC /\ w.pc \notin Evicting \cup Settling
        /\ Books(w) /\ Owes(w) /\ Writing(proc[p])
    BY <1>1, <2>1 DEF Commits, Writing, Evicting, Settling, Locked, PC, Books, Owes
  <2>4. QED
    BY <1>1, <1>3, <2>1, <2>2, <2>3, GotoStep, InvParts
<1>4. CASE /\ proc[p].written < Size[proc[p].key]
           /\ Locals(p, [proc[p] EXCEPT !.pc = "landed", !.written = @ + 1])
  <2> DEFINE w == [proc[p] EXCEPT !.pc = "landed", !.written = @ + 1]
  <2>1. proc[p].written \in Nat /\ proc[p].written + 1 <= Size[proc[p].key] /\ proc[p].written + 1 \in 0..MaxEntry
    BY <1>4, OwnFrame, Sizes DEF Frame
  <2>2. /\ w \in Frame /\ w.pc = "landed" /\ w.key = proc[p].key /\ w.victims = proc[p].victims
        /\ w.booked = proc[p].booked /\ w.due = proc[p].due /\ w.written = proc[p].written + 1
        /\ w.tmp = proc[p].tmp
    BY <2>1, OwnFrame DEF Frame, PC
  <2>3. Locals(p, w)
    BY <1>4
  <2> HIDE DEF w
  <2>4. proc[p].victims = <<>> /\ proc[p].tmp /\ proc[p].key \notin DOMAIN linked
    BY <1>1, InvParts DEF Work, Writing, Absent, Wants
  <2>5. Work(w) /\ ~Commits(w) /\ (Wants(w) => w.key \notin DOMAIN linked)
    BY <2>1, <2>2, <2>4 DEF Work, Writing, Commits, Wants, Books, Owes, Evicting, Settling, Locked, PC
  <2>6. Exclusive' /\ keyLock' \in [Key -> Proc \cup {Nobody}]
    BY <1>1, <2>2, <2>3, LockKept, InvParts
  <2>7. QED
    BY <1>1, <2>2, <2>3, <2>5, <2>6, IdleStep, InvParts
<1>5. CASE Fail(p, "badGateway")
  BY <1>1, <1>5, FailStep, InvParts DEF Answers
<1>6. QED
  BY <1>2, <1>3, <1>4, <1>5

(* Part of what is due has been written, or all of it is given back. *)
LEMMA GiveBackStep ==
  ASSUME Inv, NEW p \in Proc, NEW w \in Frame, Locals(p, w), NEW n \in Nat, n <= proc[p].due,
         pending' = pending - n, w.due = proc[p].due - n, w.booked = proc[p].booked,
         UNCHANGED <<index, capped, ledger, keyLock, linked, reading, orphans, leaked>>,
         Work(w), w.victims = proc[p].victims, w.key = proc[p].key,
         w.tmp = proc[p].tmp, w.pc # "put", Commits(w) => Commits(proc[p]),
         proc[p].pc \in Locked
  PROVE  Inv'
<1>1. /\ proc[p].due \in Nat /\ proc[p].booked \in Nat
  BY OwnFrame, Sizes DEF Frame
<1>2. /\ capped => index'.inflight = index.inflight - proc[p].booked + w.booked
      /\ pending' = pending - proc[p].due + w.due
  <2>1. capped => index.inflight \in Nat
    BY BooksCover, InvParts
  <2>2. QED
    BY <1>1, <2>1, InvParts
<1>3. BooksBalance' /\ pending' \in Nat
  BY <1>2, BooksStep, InvParts
<1>4. Capping'
  BY DEF Inv, Capping
<1>5. Exclusive' /\ keyLock' \in [Key -> Proc \cup {Nobody}]
  BY LockKept, InvParts
<1>6. Wants(w) => w.key \notin DOMAIN linked
  BY InvParts DEF Wants, Absent
<1>7. QED
  BY <1>3, <1>4, <1>5, <1>6, QuietStep, InvParts

LEMMA LandedKeepsInv == ASSUME Inv, NEW p \in Proc, Landed(p) PROVE Inv'
<1> DEFINE n == IF proc[p].due > 0 THEN 1 ELSE 0
           w == [proc[p] EXCEPT !.pc = "book", !.due = @ - n]
<1>1. /\ proc[p].pc = "landed" /\ proc[p].pc \in Locked /\ Locals(p, w) /\ pending' = pending - n
      /\ UNCHANGED <<index, capped, ledger, keyLock, linked, reading, orphans, leaked>>
  BY DEF Landed, GiveBack, At, disk, Locked, PC
<1>2. /\ n \in Nat /\ n <= proc[p].due /\ proc[p].due \in Nat /\ proc[p].due - n \in 0..MaxEntry
  BY OwnFrame, Sizes DEF Frame
<1> HIDE DEF n
<1>3. /\ w \in Frame /\ w.pc = "book" /\ w.key = proc[p].key /\ w.victims = proc[p].victims
      /\ w.booked = proc[p].booked /\ w.due = proc[p].due - n /\ w.written = proc[p].written
      /\ w.tmp = proc[p].tmp
  BY <1>2, OwnFrame DEF Frame, PC
<1> HIDE DEF w
<1>4. proc[p].victims = <<>> /\ proc[p].written <= Size[proc[p].key] /\ proc[p].tmp
  BY <1>1, InvParts DEF Work, Writing
<1>5. Work(w) /\ ~Commits(w)
  BY <1>3, <1>4 DEF Work, Writing, Commits, Books, Owes, Evicting, Settling, Locked, PC
<1>6. QED
  BY <1>1, <1>2, <1>3, <1>5, GiveBackStep

LEMMA SettleDiskKeepsInv == ASSUME Inv, NEW p \in Proc, SettleDisk(p) PROVE Inv'
<1> DEFINE n == proc[p].due
           w == [proc[p] EXCEPT !.pc = proc[p].then, !.due = 0]
<1>1. /\ proc[p].pc = "settleDisk" /\ proc[p].pc \in Locked /\ Locals(p, w) /\ pending' = pending - n
      /\ UNCHANGED <<index, capped, ledger, keyLock, linked, reading, orphans, leaked>>
  BY DEF SettleDisk, GiveBack, At, disk, Locked, PC
<1>2. n \in Nat /\ 0 \in 0..MaxEntry /\ proc[p].then \in PC /\ n - n = 0
  BY OwnFrame, Sizes DEF Frame
<1>3. /\ w \in Frame /\ w.pc = proc[p].then /\ w.key = proc[p].key /\ w.victims = proc[p].victims
      /\ w.booked = proc[p].booked /\ w.due = 0 /\ w.written = proc[p].written
      /\ w.tmp = proc[p].tmp
  BY <1>2, OwnFrame DEF Frame
<1> HIDE DEF w
<1>4. /\ proc[p].victims = <<>> /\ proc[p].written <= Size[proc[p].key]
      /\ proc[p].then \in {"remove", "add", "unlock"} /\ proc[p].booked = 0
      /\ proc[p].then = "add" => Commits(proc[p]) /\ proc[p].written = Size[proc[p].key]
  BY <1>1, InvParts DEF Work, Writing, Settling, Commits, Books, Evicting
<1>5. Work(w) /\ (Commits(w) => Commits(proc[p]))
  BY <1>3, <1>4 DEF Work, Writing, Commits, Books, Owes, Evicting, Settling, Locked, PC
<1>6. QED
  BY <1>1, <1>2, <1>3, <1>4, <1>5, GiveBackStep

LEMMA InflightCapping ==
  ASSUME Inv, capped, NEW n \in Nat, index' = [index EXCEPT !.inflight = n], capped' = capped
  PROVE  Capping' /\ index'.entries = index.entries /\ index'.inflight = n
<1>1. Sound(index)
  BY DEF Inv, Capping
<1>2. Sound(index') /\ index'.entries = index.entries /\ index'.inflight = n
  BY <1>1, InflightKeeps
<1>3. QED
  BY <1>2 DEF Capping

(* A writer books more, or gives all back. *)
LEMMA BookedStep ==
  ASSUME Inv, NEW p \in Proc, NEW w \in Frame, Locals(p, w), w.due = proc[p].due,
         index' = IF capped THEN [index EXCEPT !.inflight = @ - proc[p].booked + w.booked] ELSE index,
         UNCHANGED <<capped, pending, ledger, keyLock, linked, reading, orphans, leaked>>,
         Work(w), w.victims = proc[p].victims, w.key = proc[p].key,
         w.tmp = proc[p].tmp, w.pc # "put", Commits(w) => Commits(proc[p]),
         proc[p].pc \in Locked
  PROVE  Inv'
<1>1. /\ proc[p].due \in Nat /\ proc[p].booked \in Nat /\ w.booked \in Nat
  BY OwnFrame, Sizes DEF Frame
<1>2. capped => /\ index.inflight - proc[p].booked + w.booked \in Nat
                /\ index' = [index EXCEPT !.inflight = index.inflight - proc[p].booked + w.booked]
  BY <1>1, BooksCover, InvParts
<1>3. /\ Capping' /\ index'.entries = index.entries
      /\ capped => index'.inflight = index.inflight - proc[p].booked + w.booked
  <2>1. CASE capped
    BY <1>2, <2>1, InflightCapping
  <2>2. CASE ~capped
    BY <2>2 DEF Inv, Capping
  <2>3. QED
    BY <2>1, <2>2
<1>4. pending' = pending - proc[p].due + w.due
  BY <1>1, InvParts
<1>5. BooksBalance' /\ pending' \in Nat
  BY <1>3, <1>4, BooksStep, InvParts
<1>6. Exclusive' /\ keyLock' \in [Key -> Proc \cup {Nobody}]
  BY LockKept, InvParts
<1>7. Wants(w) => w.key \notin DOMAIN linked
  BY InvParts DEF Wants, Absent
<1>8. QED
  BY <1>3, <1>5, <1>6, <1>7, QuietStep, InvParts

LEMMA InflightMoves ==
  ASSUME Inv, NEW p \in Proc, NEW n \in Nat, capped
  PROVE  /\ Released(index, proc[p].booked) = [index EXCEPT !.inflight = @ - proc[p].booked + 0]
         /\ Reserved(index, n - proc[p].booked) = [index EXCEPT !.inflight = @ - proc[p].booked + n]
<1>1. proc[p].booked \in Nat /\ index.inflight \in Nat
  BY OwnFrame, Sizes, BooksCover, InvParts DEF Frame
<1>2. /\ index.inflight - proc[p].booked + 0 = index.inflight - proc[p].booked
      /\ index.inflight - proc[p].booked + n = index.inflight + (n - proc[p].booked)
  BY <1>1
<1>3. QED
  BY <1>2 DEF Released, Reserved

LEMMA SettleKeepsInv == ASSUME Inv, NEW p \in Proc, Settle(p) PROVE Inv'
<1> DEFINE w == [proc[p] EXCEPT !.pc = "settleDisk", !.booked = 0]
<1>1. /\ proc[p].pc = "settle" /\ proc[p].pc \in Locked /\ Locals(p, w)
      /\ index' = IF capped THEN Released(index, proc[p].booked) ELSE index
      /\ UNCHANGED <<capped, pending, ledger, keyLock, linked, reading, orphans, leaked>>
  BY DEF Settle, At, mem, disk, Locked, PC
<1>a. "settleDisk" \in PC /\ 0 \in 0..MaxEntry
  BY Sizes DEF PC
<1>2. /\ w \in Frame /\ w.pc = "settleDisk" /\ w.key = proc[p].key /\ w.victims = proc[p].victims
      /\ w.booked = 0 /\ w.due = proc[p].due /\ w.written = proc[p].written
      /\ w.tmp = proc[p].tmp /\ w.then = proc[p].then
  BY <1>a, OwnFrame DEF Frame
<1> HIDE DEF w
<1>3. index' = IF capped THEN [index EXCEPT !.inflight = @ - proc[p].booked + w.booked] ELSE index
  BY <1>1, <1>2, InflightMoves
<1>4. Work(proc[p])
  BY InvParts
<1>5. Work(w) /\ (Commits(w) => Commits(proc[p]))
  BY <1>1, <1>2, <1>4 DEF Work, Writing, Commits, Books, Owes, Evicting, Settling, Locked, PC
<1>6. QED
  BY <1>1, <1>2, <1>3, <1>5, BookedStep

(* The three outcomes of book. *)
LEMMA BookStep ==
  ASSUME Inv, NEW p \in Proc, NEW total \in 0..MaxEntry, NEW next, Book(p, total, next),
         <<proc[p].pc, next>> \in {<<"reserve", "claim">>, <<"book", "copy">>},
         UNCHANGED <<capped, pending, ledger, keyLock, linked, reading, orphans, leaked>>
  PROVE  Inv'
<1> DEFINE goes(w) ==
             /\ w \in Frame /\ w.key = proc[p].key /\ w.victims = proc[p].victims
             /\ w.due = proc[p].due /\ w.written = proc[p].written /\ w.tmp = proc[p].tmp
             /\ w.pc = next \/ (w.pc = "evict" /\ w.then = next)
<1>1. /\ next \in {"claim", "copy"} /\ next \in PC /\ proc[p].pc \in {"reserve", "book"}
      /\ proc[p].pc \in Locked /\ "evict" \in PC /\ total \in Nat /\ 0 \in 0..MaxEntry
  BY Sizes DEF PC, Locked
<1>2. /\ proc[p].victims = <<>> /\ proc[p].written <= Size[proc[p].key] /\ proc[p].tmp
      /\ next = "copy" \/ proc[p].due = 0
  BY <1>1, InvParts DEF Work, Writing, Owes, Evicting
<1>3. ASSUME NEW w, goes(w)
      PROVE  Work(w) /\ ~Commits(w) /\ w.pc # "put"
  BY <1>1, <1>2, <1>3 DEF Work, Writing, Commits, Books, Owes, Evicting, Settling, Locked, PC
<1>4. ASSUME NEW w, goes(w), Locals(p, w),
             index' = IF capped THEN [index EXCEPT !.inflight = @ - proc[p].booked + w.booked] ELSE index
      PROVE  Inv'
  <2>1. Work(w) /\ ~Commits(w) /\ w.pc # "put"
    BY <1>3, <1>4
  <2>2. QED
    BY <1>1, <1>4, <2>1, BookedStep
<1>5. CASE Goto(p, next) /\ UNCHANGED index
  <2> DEFINE w == [proc[p] EXCEPT !.pc = next]
  <2>1. goes(w) /\ w.booked = proc[p].booked
    BY <1>1, OwnFrame DEF Frame
  <2>2. Locals(p, w)
    BY <1>5 DEF Goto
  <2> HIDE DEF w
  <2>3. Work(w) /\ ~Commits(w) /\ w.pc # "put"
    BY <1>3, <2>1
  <2>4. Exclusive' /\ keyLock' \in [Key -> Proc \cup {Nobody}]
    BY <1>1, <2>1, <2>2, LockKept, InvParts
  <2>5. Wants(w) => w.key \notin DOMAIN linked
    BY <2>1, <2>3, InvParts DEF Wants, Absent
  <2>6. QED
    BY <1>5, <2>1, <2>2, <2>3, <2>4, <2>5, IdleStep, InvParts
<1>6. CASE /\ capped /\ index' = Released(index, proc[p].booked)
           /\ Locals(p, [proc[p] EXCEPT !.pc = next, !.oversized = TRUE, !.booked = 0])
  <2> DEFINE w == [proc[p] EXCEPT !.pc = next, !.oversized = TRUE, !.booked = 0]
  <2>1. goes(w) /\ w.booked = 0
    BY <1>1, OwnFrame DEF Frame
  <2>2. Locals(p, w)
    BY <1>6
  <2> HIDE DEF w
  <2>3. QED
    BY <1>4, <1>6, <2>1, <2>2, InflightMoves
<1>7. CASE /\ index' = IF capped THEN Reserved(index, total - proc[p].booked) ELSE index
           /\ Locals(p, [proc[p] EXCEPT !.pc = IF capped THEN "evict" ELSE next,
                                        !.then = next, !.booked = total])
  <2> DEFINE w == [proc[p] EXCEPT !.pc = IF capped THEN "evict" ELSE next,
                                  !.then = next, !.booked = total]
  <2>1. goes(w) /\ w.booked = total
    BY <1>1, OwnFrame DEF Frame
  <2>2. Locals(p, w)
    BY <1>7
  <2> HIDE DEF w
  <2>3. QED
    BY <1>1, <1>4, <1>7, <2>1, <2>2, InflightMoves
<1>8. QED
  BY <1>5, <1>6, <1>7 DEF Book

LEMMA ReserveKeepsInv == ASSUME Inv, NEW p \in Proc, Reserve(p) PROVE Inv'
<1>1. /\ proc[p].pc = "reserve" /\ Book(p, Size[proc[p].key], "claim")
      /\ UNCHANGED <<capped, pending, ledger, keyLock, linked, reading, orphans, leaked>>
  BY DEF Reserve, At, mem, disk
<1>2. Size[proc[p].key] \in 0..MaxEntry
  BY OwnFrame, Sizes DEF Frame
<1>3. QED
  BY <1>1, <1>2, BookStep

LEMMA BookWrittenKeepsInv == ASSUME Inv, NEW p \in Proc, BookWritten(p) PROVE Inv'
<1>1. /\ proc[p].pc = "book" /\ Book(p, proc[p].written, "copy")
      /\ UNCHANGED <<capped, pending, ledger, keyLock, linked, reading, orphans, leaked>>
  BY DEF BookWritten, At, mem, disk
<1>2. proc[p].written \in 0..MaxEntry
  BY OwnFrame DEF Frame
<1>3. QED
  BY <1>1, <1>2, BookStep

-----------------------------------------------------------------------------
(* Evictions. *)
LEMMA NothingPopped ==
  ASSUME NEW n \in 0..Len(Empty.lru)
  PROVE  n = 0 /\ Popped(Empty, n) = Empty
<1> DEFINE l == SubSeq(Empty.lru, 1, Len(Empty.lru) - n)
           e == [k \in DOMAIN Empty.entries \ Coldest(Empty, n) |-> Empty.entries[k]]
           u == Empty.used - Bytes(Empty.entries, Coldest(Empty, n))
<1>1. Empty.lru = <<>> /\ Len(Empty.lru) = 0 /\ n = 0
  BY DEF Empty
<1>2. Coldest(Empty, n) = {}
  BY <1>1 DEF Coldest
<1>3. Bytes(Empty.entries, Coldest(Empty, n)) = 0
  BY <1>2, BytesOfNone
<1>4. e = [k \in {} |-> 0]
  BY <1>2 DEF Empty
<1>5. l = <<>>
  BY <1>1, SubSeqProperties
<1>6. u = 0
  BY <1>3 DEF Empty
<1>7. Popped(Empty, n) = [Empty EXCEPT !.lru = l, !.entries = e, !.used = u]
  BY DEF Popped
<1> HIDE DEF l, e, u
<1>8. QED
  BY <1>1, <1>4, <1>5, <1>6, <1>7 DEF Empty

(* One goroutine takes victims from the index. *)
LEMMA PopStep ==
  ASSUME Inv, NEW p \in Proc, NEW w \in Frame, Locals(p, w), NEW n \in 0..Len(index.lru),
         index' = Popped(index, n), w.victims = Victims(index, n), Work(w), ~Commits(w),
         proc[p].pc \in Locked, w.key = proc[p].key, w.booked = proc[p].booked,
         w.due = proc[p].due, w.tmp = proc[p].tmp, w.pc # "put",
         UNCHANGED <<capped, pending, ledger, keyLock, linked, reading, orphans, leaked>>
  PROVE  Inv'
<1>1. /\ proc'[p] = w /\ \A q \in Proc : q # p => proc'[q] = proc[q]
  BY LocalsOf, InvParts
<1>2. Sound(index) /\ (~capped => index = Empty)
  BY DEF Inv, Capping
<1>3. /\ Sound(index') /\ index'.inflight = index.inflight
      /\ Coldest(index, n) \subseteq DOMAIN index.entries
      /\ DOMAIN index'.entries = DOMAIN index.entries \ Coldest(index, n)
      /\ \A k \in DOMAIN index'.entries : index'.entries[k] = index.entries[k]
  BY <1>2, PoppedKeeps
<1>4. Capping'
  BY <1>2, <1>3, NothingPopped DEF Capping
<1>5. Once(w.victims) /\ ToSet(w.victims) = Coldest(index, n)
  BY <1>2, VictimsArePopped
<1>6. /\ capped => index'.inflight = index.inflight - proc[p].booked + w.booked
      /\ pending' = pending - proc[p].due + w.due
  <2>1. /\ proc[p].booked \in Nat /\ proc[p].due \in Nat /\ (capped => index.inflight \in Nat)
    BY OwnFrame, Sizes, BooksCover, InvParts DEF Frame
  <2>2. QED
    BY <1>3, <2>1, InvParts
<1>7. BooksBalance' /\ pending' \in Nat
  BY <1>6, BooksStep, InvParts
<1>8. Exclusive' /\ keyLock' \in [Key -> Proc \cup {Nobody}]
  BY LockKept, InvParts
<1>9. TypeOK'
  <2>1. DOMAIN linked' \subseteq Key /\ \A k \in DOMAIN linked' : linked'[k] \in 0..MaxEntry
    BY DEF Inv, TypeOK
  <2>2. QED
    BY <1>7, <1>8, <2>1, TypeStep, InvParts
<1>10. Control'
  BY ControlStep, InvParts
<1>11. Absent'
  BY <1>1, InvParts DEF Absent, Wants
<1>12. OnlyWholeBlobs' /\ Indexed'
  BY <1>3 DEF Inv, OnlyWholeBlobs, Indexed
<1>13. Coldest(index, n) \subseteq DOMAIN linked \ DOMAIN index'.entries
  BY <1>3, InvParts DEF Indexed
<1>14. \A q \in Proc : ToSet(proc[q].victims) \cap Coldest(index, n) = {}
  BY <1>3, InvParts DEF OnlyVictims
<1>15. OnlyVictims'
  <2>1. \A q \in Proc : /\ Once(proc'[q].victims)
                        /\ ToSet(proc'[q].victims) \subseteq DOMAIN linked' \ DOMAIN index'.entries
    BY <1>1, <1>3, <1>5, <1>13, InvParts DEF OnlyVictims
  <2>2. ASSUME NEW q \in Proc, NEW r \in Proc, q # r
        PROVE  ToSet(proc'[q].victims) \cap ToSet(proc'[r].victims) = {}
    <3>1. ToSet(proc'[p].victims) = Coldest(index, n)
      BY <1>1, <1>5
    <3>2. ToSet(proc[q].victims) \cap ToSet(proc[r].victims) = {}
      BY <2>2, InvParts DEF OnlyVictims
    <3>3. CASE q = p
      BY <1>1, <1>14, <2>2, <3>1, <3>3
    <3>4. CASE r = p
      BY <1>1, <1>14, <2>2, <3>1, <3>4
    <3>5. CASE q # p /\ r # p
      BY <1>1, <3>2, <3>5
    <3>6. QED
      BY <3>3, <3>4, <3>5
  <2>3. QED
    BY <2>1, <2>2 DEF OnlyVictims
<1>16. Committed'
  <2> SUFFICES ASSUME NEW q \in Proc, Commits(proc[q])'
               PROVE  /\ proc'[q].key \in DOMAIN linked' \ DOMAIN index'.entries
                      /\ \A r \in Proc : proc'[q].key \notin ToSet(proc'[r].victims)
    BY DEF Committed
  <2>1. Commits(proc'[q])
    BY DEF Commits
  <2>2. q # p /\ proc'[q] = proc[q] /\ Commits(proc[q])
    BY <1>1, <2>1
  <2>3. /\ proc[q].key \in DOMAIN linked \ DOMAIN index.entries
        /\ \A r \in Proc : proc[q].key \notin ToSet(proc[r].victims)
    BY <2>2, InvParts DEF Committed
  <2>4. QED
    BY <1>1, <1>3, <1>5, <2>2, <2>3
<1>17. QED
  BY <1>4, <1>7, <1>8, <1>9, <1>10, <1>11, <1>12, <1>15, <1>16 DEF Inv

LEMMA EvictKeepsInv == ASSUME Inv, NEW p \in Proc, Evict(p) PROVE Inv'
<1>1. PICK n \in 0..Len(index.lru) :
        /\ index' = Popped(index, n)
        /\ Locals(p, [proc[p] EXCEPT !.victims = Victims(index, n),
                       !.pc = IF n = 0 THEN proc[p].then ELSE "unlink"])
  BY DEF Evict
<1> DEFINE w == [proc[p] EXCEPT !.victims = Victims(index, n),
                                !.pc = IF n = 0 THEN proc[p].then ELSE "unlink"]
<1>2. /\ proc[p].pc = "evict" /\ proc[p].pc \in Locked
      /\ UNCHANGED <<capped, pending, ledger, keyLock, linked, reading, orphans, leaked>>
  BY DEF Evict, At, mem, disk, Locked, PC
<1>3. Victims(index, n) \in Seq(Key) /\ ((Victims(index, n) = <<>>) = (n = 0))
  BY VictimsArePopped DEF Inv, Capping
<1>4. "unlink" \in PC
  BY DEF PC
<1>5. /\ w \in Frame /\ w.pc = (IF n = 0 THEN proc[p].then ELSE "unlink")
      /\ w.victims = Victims(index, n) /\ w.then = proc[p].then
      /\ w.key = proc[p].key /\ w.booked = proc[p].booked /\ w.due = proc[p].due
      /\ w.written = proc[p].written /\ w.tmp = proc[p].tmp
  BY <1>3, <1>4, OwnFrame DEF Frame
<1>6. Locals(p, w)
  BY <1>1
<1> HIDE DEF w
<1>7. Work(proc[p]) /\ proc[p].then \in {"claim", "copy", "measure", "reopen"}
  BY <1>2, InvParts DEF Work, Evicting
<1>8. w.pc = "unlink" <=> w.victims # <<>>
  BY <1>3, <1>5, <1>7
<1>9. Work(w) /\ ~Commits(w) /\ w.pc # "put"
  BY <1>2, <1>5, <1>7, <1>8 DEF Work, Writing, Commits, Books, Owes, Evicting, Settling, Locked, PC
<1>10. QED
  BY <1>1, <1>2, <1>5, <1>6, <1>9, PopStep

LEMMA FreeOneKeepsInv == ASSUME Inv, NEW p \in Proc, FreeOne(p) PROVE Inv'
<1>1. /\ proc[p].pc = "free" /\ proc[p].pc \in Locked
      /\ UNCHANGED <<capped, keyLock, linked, reading, orphans, leaked>>
  BY DEF FreeOne, At, disk, Locked, PC
<1>2. CASE Refuse(p) /\ UNCHANGED index
  <2>1. Fail(p, "insufficient") /\ ledger' = Nobody /\ UNCHANGED pending /\ "insufficient" \in Answers
    BY <1>2 DEF Refuse, Answers
  <2>2. QED
    BY <1>1, <1>2, <2>1, FailStep
<1>3. CASE /\ index.lru # <<>> /\ index' = Popped(index, 1)
           /\ Locals(p, [proc[p] EXCEPT !.pc = "unlink", !.then = "measure",
                                        !.victims = Victims(index, 1)])
           /\ UNCHANGED <<pending, ledger>>
  <2> DEFINE w == [proc[p] EXCEPT !.pc = "unlink", !.then = "measure",
                                  !.victims = Victims(index, 1)]
  <2>1. 1 \in 0..Len(index.lru)
    <3>1. index.lru \in Seq(Key) /\ Len(index.lru) \in Nat
      BY SoundParts, LenProperties DEF Inv, Capping
    <3>2. QED
      BY <1>3, <3>1, EmptySeq
  <2>2. Victims(index, 1) \in Seq(Key) /\ Victims(index, 1) # <<>>
    BY <2>1, VictimsArePopped DEF Inv, Capping
  <2>3. "unlink" \in PC /\ "measure" \in PC
    BY DEF PC
  <2>4. /\ w \in Frame /\ w.pc = "unlink" /\ w.then = "measure" /\ w.victims = Victims(index, 1)
        /\ w.key = proc[p].key /\ w.booked = proc[p].booked /\ w.due = proc[p].due
        /\ w.written = proc[p].written /\ w.tmp = proc[p].tmp
    BY <2>2, <2>3, OwnFrame DEF Frame
  <2>5. Locals(p, w)
    BY <1>3
  <2> HIDE DEF w
  <2>6. /\ proc[p].due = 0 /\ proc[p].tmp /\ proc[p].written <= Size[proc[p].key]
    BY <1>1, InvParts DEF Work, Writing, Owes, Evicting
  <2>7. Work(w) /\ ~Commits(w) /\ w.pc # "put"
    BY <2>2, <2>4, <2>6 DEF Work, Writing, Commits, Books, Owes, Evicting, Settling, Locked, PC
  <2>8. QED
    BY <1>1, <1>3, <2>1, <2>4, <2>5, <2>7, PopStep
<1>4. QED
  BY <1>2, <1>3 DEF FreeOne
-----------------------------------------------------------------------------
(* Files come and go. *)

(* A file is removed, or is not. *)
LEMMA RemovedTypes ==
  ASSUME Inv, NEW k \in Key, RemoveFile(k) \/ UNCHANGED disk
  PROVE  /\ DOMAIN linked' \subseteq DOMAIN linked
         /\ DOMAIN linked \ {k} \subseteq DOMAIN linked'
         /\ \A x \in DOMAIN linked' : linked'[x] = linked[x]
         /\ reading' \in [Key -> SUBSET Proc] /\ leaked' \in Nat
         /\ orphans' \subseteq [size : 0..MaxEntry, by : (SUBSET Proc) \ {{}}]
<1>1. CASE UNCHANGED disk
  BY <1>1, InvParts DEF disk
<1>2. CASE RemoveFile(k)
  <2>1. /\ linked' = [x \in DOMAIN linked \ {k} |-> linked[x]]
        /\ reading' = [reading EXCEPT ![k] = {}]
        /\ orphans' = orphans \cup
             {[size |-> linked[x], by |-> reading[x]] :
                x \in {y \in DOMAIN linked \cap {k} : reading[y] # {}}}
        /\ leaked' = leaked
    BY <1>2 DEF RemoveFile
  <2>2. reading \in [Key -> SUBSET Proc] /\ \A x \in DOMAIN linked : x \in Key /\ linked[x] \in 0..MaxEntry
    BY DEF Inv, TypeOK
  <2>3. orphans' \subseteq [size : 0..MaxEntry, by : (SUBSET Proc) \ {{}}]
    <3>1. \A x \in {y \in DOMAIN linked \cap {k} : reading[y] # {}} :
            [size |-> linked[x], by |-> reading[x]] \in [size : 0..MaxEntry, by : (SUBSET Proc) \ {{}}]
      BY <2>2
    <3>2. QED
      BY <2>1, <3>1, InvParts
  <2>4. QED
    BY <2>1, <2>2, <2>3, InvParts
<1>3. QED
  BY <1>1, <1>2

LEMMA UnlinkKeepsInv == ASSUME Inv, NEW p \in Proc, Unlink(p) PROVE Inv'
<1> DEFINE v == proc[p].victims
           h == Head(v)
           rest == Tail(v)
           w == [proc[p] EXCEPT !.victims = rest,
                                !.pc = IF rest = <<>> THEN proc[p].then ELSE "unlink"]
<1>1. /\ proc[p].pc = "unlink" /\ proc[p].pc \in Locked /\ Locals(p, w)
      /\ RemoveFile(h) \/ UNCHANGED disk
      /\ UNCHANGED <<index, capped, pending, ledger, keyLock>>
  BY DEF Unlink, At, mem, Locked, PC
<1>2. v \in Seq(Key) /\ Once(v) /\ v # <<>>
  BY <1>1, InvParts DEF Work, OnlyVictims, Frame
<1>3. /\ h \in Key /\ h \in ToSet(v) /\ rest \in Seq(Key) /\ Once(rest)
      /\ ToSet(rest) = ToSet(v) \ {h}
  BY <1>2, UnlinkedOne
<1>4. "unlink" \in PC
  BY DEF PC
<1> HIDE DEF h, rest
<1>5. /\ w \in Frame /\ w.victims = rest /\ w.pc = (IF rest = <<>> THEN proc[p].then ELSE "unlink")
      /\ w.key = proc[p].key /\ w.booked = proc[p].booked /\ w.due = proc[p].due
      /\ w.written = proc[p].written /\ w.tmp = proc[p].tmp /\ w.then = proc[p].then
  BY <1>3, <1>4, OwnFrame DEF Frame
<1> HIDE DEF w
<1>6. /\ DOMAIN linked' \subseteq DOMAIN linked
      /\ DOMAIN linked \ {h} \subseteq DOMAIN linked'
      /\ \A x \in DOMAIN linked' : linked'[x] = linked[x]
      /\ reading' \in [Key -> SUBSET Proc] /\ leaked' \in Nat
      /\ orphans' \subseteq [size : 0..MaxEntry, by : (SUBSET Proc) \ {{}}]
  BY <1>1, <1>3, RemovedTypes
<1>7. proc'[p] = w /\ \A q \in Proc : q # p => proc'[q] = proc[q]
  BY <1>1, <1>5, LocalsOf, InvParts
<1>8. Work(proc[p]) /\ proc[p].then \in {"claim", "copy", "measure", "reopen"}
  BY <1>1, InvParts DEF Work, Evicting
<1>9. Work(w) /\ ~Commits(w) /\ w.pc # "put"
  <2>1. w.pc = "unlink" <=> w.victims # <<>>
    BY <1>5, <1>8
  <2>2. QED
    BY <1>1, <1>5, <1>8, <2>1 DEF Work, Writing, Commits, Books, Owes, Evicting, Settling, Locked, PC
<1>10. BooksBalance' /\ pending' \in Nat
  <2>1. /\ proc[p].booked \in Nat /\ proc[p].due \in Nat /\ (capped => index.inflight \in Nat)
    BY OwnFrame, Sizes, BooksCover, InvParts DEF Frame
  <2>2. /\ capped => index'.inflight = index.inflight - proc[p].booked + w.booked
        /\ pending' = pending - proc[p].due + w.due
    BY <1>1, <1>5, <2>1, InvParts
  <2>3. QED
    BY <1>1, <1>5, <2>2, BooksStep, InvParts
<1>11. Exclusive' /\ keyLock' \in [Key -> Proc \cup {Nobody}]
  BY <1>1, <1>5, LockKept, InvParts
<1>12. TypeOK'
  <2>1. DOMAIN linked' \subseteq Key /\ \A k \in DOMAIN linked' : linked'[k] \in 0..MaxEntry
    BY <1>6 DEF Inv, TypeOK
  <2>2. ledger' \in Proc \cup {Nobody} /\ capped' = capped
    BY <1>1, InvParts
  <2>3. QED
    BY <1>1, <1>5, <1>6, <1>10, <1>11, <2>1, <2>2, TypeStep, InvParts
<1>13. Control'
  BY <1>1, <1>5, <1>9, ControlStep, InvParts
<1>14. Absent'
  BY <1>5, <1>6, <1>7, <1>9, InvParts DEF Absent, Wants
<1>15. Capping' /\ OnlyWholeBlobs'
  BY <1>1, <1>6 DEF Inv, Capping, OnlyWholeBlobs
<1>16. /\ h \notin DOMAIN index.entries
       /\ \A q \in Proc \ {p} : h \notin ToSet(proc[q].victims)
       /\ \A q \in Proc : Commits(proc[q]) => proc[q].key # h
  BY <1>3, InvParts DEF OnlyVictims, Committed
<1>17. Indexed'
  BY <1>1, <1>6, <1>16, InvParts DEF Indexed
<1>18. /\ \A q \in Proc : Once(proc'[q].victims) /\ ToSet(proc'[q].victims) \subseteq ToSet(proc[q].victims) \ {h}
  BY <1>3, <1>5, <1>7, <1>16, InvParts DEF OnlyVictims
<1>19. OnlyVictims'
  <2>1. \A q \in Proc : ToSet(proc'[q].victims) \subseteq DOMAIN linked' \ DOMAIN index'.entries
    BY <1>1, <1>6, <1>18, InvParts DEF OnlyVictims
  <2>2. \A q, r \in Proc : q # r => ToSet(proc'[q].victims) \cap ToSet(proc'[r].victims) = {}
    BY <1>18, InvParts DEF OnlyVictims
  <2>3. QED
    BY <1>18, <2>1, <2>2 DEF OnlyVictims
<1>20. Committed'
  <2> SUFFICES ASSUME NEW q \in Proc, Commits(proc[q])'
               PROVE  /\ proc'[q].key \in DOMAIN linked' \ DOMAIN index'.entries
                      /\ \A r \in Proc : proc'[q].key \notin ToSet(proc'[r].victims)
    BY DEF Committed
  <2>1. Commits(proc'[q])
    BY DEF Commits
  <2>2. q # p /\ proc'[q] = proc[q] /\ Commits(proc[q])
    BY <1>7, <1>9, <2>1
  <2>3. /\ proc[q].key \in DOMAIN linked \ DOMAIN index.entries
        /\ \A r \in Proc : proc[q].key \notin ToSet(proc[r].victims)
    BY <2>2, InvParts DEF Committed
  <2>4. QED
    BY <1>1, <1>6, <1>16, <1>18, <2>2, <2>3
<1>21. QED
  BY <1>10, <1>11, <1>12, <1>13, <1>14, <1>15, <1>17, <1>19, <1>20 DEF Inv
(* Whoever wants a blob, or commits it, holds the lock of its key. *)
LEMMA OneAtWork ==
  ASSUME Inv, NEW p \in Proc, proc[p].pc \in Locked, NEW q \in Proc, q # p,
         Wants(proc[q]) \/ Commits(proc[q])
  PROVE  proc[q].key # proc[p].key
<1>1. proc[q].pc \in Locked
  BY InvParts DEF Work, Wants, Commits, Settling, Locked, PC
<1>2. QED
  BY <1>1, InvParts DEF Exclusive

LEMMA RenameKeepsInv ==
  ASSUME Inv, NEW p \in Proc, proc[p].pc = "close",
         linked' = [k \in DOMAIN linked \cup {proc[p].key} |->
                      IF k = proc[p].key THEN proc[p].written ELSE linked[k]],
         Locals(p, [proc[p] EXCEPT !.pc = "settle", !.then = "add", !.tmp = FALSE]),
         UNCHANGED <<index, capped, pending, ledger, keyLock, reading, orphans, leaked>>
  PROVE  Inv'
<1> DEFINE k == proc[p].key
           w == [proc[p] EXCEPT !.pc = "settle", !.then = "add", !.tmp = FALSE]
<1>1. "settle" \in PC /\ "add" \in PC /\ proc[p].pc \in Locked
  BY DEF PC, Locked
<1>2. /\ w \in Frame /\ w.pc = "settle" /\ w.then = "add" /\ w.key = k /\ ~w.tmp
      /\ w.victims = proc[p].victims /\ w.booked = proc[p].booked /\ w.due = proc[p].due
      /\ w.written = proc[p].written
  BY <1>1, OwnFrame DEF Frame
<1>3. Locals(p, w)
  OBVIOUS
<1> HIDE DEF w
<1>4. /\ proc[p].victims = <<>> /\ proc[p].written = Size[k] /\ k \notin DOMAIN linked
      /\ k \in Key /\ Size[k] \in 0..MaxEntry /\ Size[k] \in Nat
  BY InvParts, OwnFrame, Sizes DEF Work, Writing, Absent, Wants, Frame
<1>5. /\ DOMAIN linked' = DOMAIN linked \cup {k} /\ linked'[k] = Size[k]
      /\ \A x \in DOMAIN linked : linked'[x] = linked[x]
  BY <1>4
<1>6. proc'[p] = w /\ \A q \in Proc : q # p => proc'[q] = proc[q]
  BY <1>2, <1>3, LocalsOf, InvParts
<1>7. Work(w) /\ Commits(w) /\ ~Wants(w)
  BY <1>2, <1>4 DEF Work, Writing, Commits, Wants, Books, Owes, Evicting, Settling, Locked, PC
<1>8. BooksBalance' /\ pending' \in Nat
  <2>1. /\ proc[p].booked \in Nat /\ proc[p].due \in Nat /\ (capped => index.inflight \in Nat)
    BY OwnFrame, Sizes, BooksCover, InvParts DEF Frame
  <2>2. /\ capped => index'.inflight = index.inflight - proc[p].booked + w.booked
        /\ pending' = pending - proc[p].due + w.due
    BY <1>2, <2>1, InvParts
  <2>3. QED
    BY <1>2, <1>3, <2>2, BooksStep, InvParts
<1>9. Exclusive' /\ keyLock' \in [Key -> Proc \cup {Nobody}]
  BY <1>1, <1>2, <1>3, LockKept, InvParts
<1>10. TypeOK'
  <2>1. DOMAIN linked' \subseteq Key /\ \A x \in DOMAIN linked' : linked'[x] \in 0..MaxEntry
    BY <1>4, <1>5, InvParts DEF TypeOK
  <2>2. /\ capped' = capped /\ ledger' \in Proc \cup {Nobody} /\ reading' \in [Key -> SUBSET Proc]
        /\ orphans' \subseteq [size : 0..MaxEntry, by : (SUBSET Proc) \ {{}}] /\ leaked' \in Nat
    BY InvParts
  <2>3. QED
    BY <1>2, <1>3, <1>8, <1>9, <2>1, <2>2, TypeStep, InvParts
<1>11. Control'
  BY <1>2, <1>3, <1>7, ControlStep, InvParts
<1>12. Capping'
  BY DEF Inv, Capping
<1>13. Absent'
  <2> SUFFICES ASSUME NEW q \in Proc, Wants(proc[q])' PROVE proc'[q].key \notin DOMAIN linked'
    BY DEF Absent
  <2>1. Wants(proc'[q])
    BY DEF Wants
  <2>2. q # p /\ proc'[q] = proc[q] /\ Wants(proc[q])
    BY <1>6, <1>7, <2>1
  <2>3. proc[q].key # k
    BY <1>1, <2>2, OneAtWork
  <2>4. QED
    BY <1>5, <2>2, <2>3, InvParts DEF Absent
<1>14. OnlyWholeBlobs'
  BY <1>5, InvParts DEF OnlyWholeBlobs
<1>15. Indexed'
  BY <1>5, InvParts DEF Indexed
<1>16. \A q \in Proc : proc'[q].victims = proc[q].victims
  BY <1>2, <1>6
<1>17. OnlyVictims'
  BY <1>5, <1>16, InvParts DEF OnlyVictims
<1>18. k \notin DOMAIN index.entries /\ \A q \in Proc : k \notin ToSet(proc[q].victims)
  BY <1>4, InvParts DEF Indexed, OnlyVictims
<1>19. Committed'
  <2> SUFFICES ASSUME NEW q \in Proc, Commits(proc[q])'
               PROVE  /\ proc'[q].key \in DOMAIN linked' \ DOMAIN index'.entries
                      /\ \A r \in Proc : proc'[q].key \notin ToSet(proc'[r].victims)
    BY DEF Committed
  <2>1. Commits(proc'[q])
    BY DEF Commits
  <2>2. CASE q = p
    BY <1>2, <1>5, <1>6, <1>16, <1>18, <2>2
  <2>3. CASE q # p
    <3>1. proc'[q] = proc[q] /\ Commits(proc[q])
      BY <1>6, <2>1, <2>3
    <3>2. QED
      BY <1>5, <1>16, <3>1, InvParts DEF Committed
  <2>4. QED
    BY <2>2, <2>3
<1>20. QED
  BY <1>8, <1>9, <1>10, <1>11, <1>12, <1>13, <1>14, <1>15, <1>17, <1>19 DEF Inv

LEMMA CloseKeepsInv == ASSUME Inv, NEW p \in Proc, Close(p) PROVE Inv'
<1>1. /\ proc[p].pc = "close" /\ proc[p].pc \in Locked
      /\ UNCHANGED <<index, capped, pending, ledger, keyLock, reading, orphans>>
  BY DEF Close, At, mem, Locked, PC
<1>2. CASE /\ linked' = [k \in DOMAIN linked \cup {proc[p].key} |->
                           IF k = proc[p].key THEN proc[p].written ELSE linked[k]]
           /\ Locals(p, [proc[p] EXCEPT !.pc = "settle", !.then = "add", !.tmp = FALSE])
           /\ UNCHANGED leaked
  BY <1>1, <1>2, RenameKeepsInv
<1>3. CASE /\ leaked' = leaked + proc[p].written /\ UNCHANGED linked
           /\ Locals(p, [proc[p] EXCEPT !.pc = "settle", !.then = "unlock", !.tmp = FALSE,
                                        !.answer = "badGateway"])
  <2> DEFINE w == [proc[p] EXCEPT !.pc = "settle", !.then = "unlock", !.tmp = FALSE,
                                  !.answer = "badGateway"]
  <2>1. "settle" \in PC /\ "unlock" \in PC /\ "badGateway" \in Answers
    BY DEF PC, Answers
  <2>2. /\ w \in Frame /\ w.pc = "settle" /\ w.then = "unlock" /\ w.key = proc[p].key /\ ~w.tmp
        /\ w.victims = proc[p].victims /\ w.booked = proc[p].booked /\ w.due = proc[p].due
        /\ w.written = proc[p].written
    BY <2>1, OwnFrame DEF Frame
  <2>3. Locals(p, w)
    BY <1>3
  <2> HIDE DEF w
  <2>4. proc[p].victims = <<>> /\ proc[p].written <= Size[proc[p].key]
    BY <1>1, InvParts DEF Work
  <2>5. Work(w) /\ ~Commits(w) /\ ~Wants(w)
    BY <2>2, <2>4 DEF Work, Writing, Commits, Wants, Books, Owes, Evicting, Settling, Locked, PC
  <2>6. leaked' \in Nat
    BY <1>3, OwnFrame, InvParts, Sizes DEF Frame
  <2>7. Exclusive' /\ keyLock' \in [Key -> Proc \cup {Nobody}]
    BY <1>1, <2>2, <2>3, LockKept, InvParts
  <2>8. QED
    BY <1>1, <1>3, <2>2, <2>3, <2>5, <2>6, <2>7, IdleStep, InvParts
<1>4. QED
  BY <1>2, <1>3 DEF Close
LEMMA AddedCapping ==
  ASSUME Inv, NEW p \in Proc, Commits(proc[p]), capped' = capped,
         index' = IF capped THEN Added(index, proc[p].key, proc[p].written, proc[p].oversized)
                  ELSE index
  PROVE  /\ Capping' /\ index'.inflight = index.inflight
         /\ DOMAIN index'.entries \subseteq DOMAIN index.entries \cup {proc[p].key}
         /\ \A x \in DOMAIN index'.entries :
              index'.entries[x].size = IF x = proc[p].key THEN Size[x] ELSE index.entries[x].size
<1> DEFINE k == proc[p].key
           size == proc[p].written
           cold == proc[p].oversized
<1>1. Sound(index) /\ (~capped => index = Empty)
  BY DEF Inv, Capping
<1>2. k \in Key /\ size \in 0..MaxEntry /\ cold \in BOOLEAN /\ size = Size[k]
  BY OwnFrame, InvParts DEF Frame, Work
<1>3. CASE capped
  <2>1. index' = Added(index, k, size, cold)
    BY <1>3
  <2> HIDE DEF k, size, cold
  <2>2. /\ Sound(index')
        /\ DOMAIN index'.entries = DOMAIN index.entries \cup {k}
        /\ index'.entries[k] = [size |-> size, cold |-> cold]
        /\ \A x \in DOMAIN index.entries \ {k} : index'.entries[x] = index.entries[x]
        /\ index'.inflight = index.inflight
    BY <1>1, <1>2, <2>1, AddedKeeps
  <2>3. index'.entries[k].size = Size[k]
    BY <1>2, <2>2
  <2>4. Capping'
    BY <1>3, <2>2 DEF Capping
  <2>5. QED
    BY <2>2, <2>3, <2>4 DEF k
<1>4. CASE ~capped
  <2>1. index' = index /\ index = Empty
    BY <1>1, <1>4
  <2>2. DOMAIN index'.entries = {}
    BY <2>1 DEF Empty
  <2>3. QED
    BY <1>1, <1>4, <2>1, <2>2 DEF Capping
<1>5. QED
  BY <1>3, <1>4

LEMMA AddKeepsInv == ASSUME Inv, NEW p \in Proc, Add(p) PROVE Inv'
<1> DEFINE k == proc[p].key
           w == [proc[p] EXCEPT !.then = "reopen",
                   !.pc = IF capped /\ ~proc[p].oversized THEN "evict" ELSE "reopen"]
<1>1. /\ proc[p].pc = "add" /\ proc[p].pc \in Locked /\ Commits(proc[p]) /\ Locals(p, w)
      /\ index' = IF capped THEN Added(index, k, proc[p].written, proc[p].oversized) ELSE index
      /\ UNCHANGED <<capped, pending, ledger, keyLock, linked, reading, orphans, leaked>>
  BY DEF Add, At, mem, disk, Locked, PC, Commits
<1>2. "evict" \in PC /\ "reopen" \in PC
  BY DEF PC
<1>3. /\ w \in Frame /\ w.then = "reopen" /\ w.pc \in {"evict", "reopen"} /\ w.key = k
      /\ w.victims = proc[p].victims /\ w.booked = proc[p].booked /\ w.due = proc[p].due
      /\ w.written = proc[p].written /\ w.tmp = proc[p].tmp
  BY <1>2, OwnFrame DEF Frame
<1> HIDE DEF w
<1>4. /\ Capping' /\ index'.inflight = index.inflight
      /\ DOMAIN index'.entries \subseteq DOMAIN index.entries \cup {k}
      /\ \A x \in DOMAIN index'.entries :
           index'.entries[x].size = IF x = k THEN Size[x] ELSE index.entries[x].size
  BY <1>1, AddedCapping
<1>5. /\ k \in DOMAIN linked \ DOMAIN index.entries
      /\ \A q \in Proc : k \notin ToSet(proc[q].victims)
  BY <1>1, InvParts DEF Committed
<1>6. proc'[p] = w /\ \A q \in Proc : q # p => proc'[q] = proc[q]
  BY <1>1, <1>3, LocalsOf, InvParts
<1>7. /\ proc[p].victims = <<>> /\ proc[p].written <= Size[k] /\ proc[p].booked = 0 /\ proc[p].due = 0
  BY <1>1, InvParts DEF Work, Books, Owes, Evicting
<1>8. Work(w) /\ ~Commits(w) /\ w.pc # "put" /\ w.pc \in Locked
  BY <1>3, <1>7 DEF Work, Writing, Commits, Books, Owes, Evicting, Settling, Locked, PC
<1>9. BooksBalance' /\ pending' \in Nat
  <2>1. capped => index.inflight \in Nat
    BY BooksCover, InvParts
  <2>2. /\ capped => index'.inflight = index.inflight - proc[p].booked + w.booked
        /\ pending' = pending - proc[p].due + w.due
    BY <1>1, <1>3, <1>4, <1>7, <2>1, InvParts
  <2>3. QED
    BY <1>1, <1>3, <2>2, BooksStep, InvParts
<1>10. Exclusive' /\ keyLock' \in [Key -> Proc \cup {Nobody}]
  BY <1>1, <1>3, LockKept, InvParts
<1>11. TypeOK'
  <2>1. DOMAIN linked' \subseteq Key /\ \A x \in DOMAIN linked' : linked'[x] \in 0..MaxEntry
    BY <1>1, InvParts DEF TypeOK
  <2>2. /\ capped' = capped /\ ledger' \in Proc \cup {Nobody} /\ reading' \in [Key -> SUBSET Proc]
        /\ orphans' \subseteq [size : 0..MaxEntry, by : (SUBSET Proc) \ {{}}] /\ leaked' \in Nat
    BY <1>1, InvParts
  <2>3. QED
    BY <1>1, <1>3, <1>9, <1>10, <2>1, <2>2, TypeStep, InvParts
<1>12. Control'
  BY <1>1, <1>3, <1>8, ControlStep, InvParts
<1>13. Absent'
  BY <1>1, <1>3, <1>6, <1>8, InvParts DEF Absent, Wants
<1>14. OnlyWholeBlobs'
  BY <1>1, InvParts DEF OnlyWholeBlobs
<1>15. Indexed'
  BY <1>1, <1>4, <1>5, InvParts DEF Indexed
<1>16. \A q \in Proc : proc'[q].victims = proc[q].victims
  BY <1>3, <1>6
<1>17. OnlyVictims'
  <2>1. \A q \in Proc : ToSet(proc[q].victims) \subseteq DOMAIN linked \ (DOMAIN index.entries \cup {k})
    BY <1>5, InvParts DEF OnlyVictims
  <2>2. QED
    BY <1>1, <1>4, <1>16, <2>1, InvParts DEF OnlyVictims
<1>18. Committed'
  <2> SUFFICES ASSUME NEW q \in Proc, Commits(proc[q])'
               PROVE  /\ proc'[q].key \in DOMAIN linked' \ DOMAIN index'.entries
                      /\ \A r \in Proc : proc'[q].key \notin ToSet(proc'[r].victims)
    BY DEF Committed
  <2>1. Commits(proc'[q])
    BY DEF Commits
  <2>2. q # p /\ proc'[q] = proc[q] /\ Commits(proc[q])
    BY <1>6, <1>8, <2>1
  <2>3. proc[q].key # k
    BY <1>1, <2>2, OneAtWork
  <2>4. QED
    BY <1>1, <1>4, <1>16, <2>2, <2>3, InvParts DEF Committed
<1>19. QED
  BY <1>4, <1>9, <1>10, <1>11, <1>12, <1>13, <1>14, <1>15, <1>17, <1>18 DEF Inv

-----------------------------------------------------------------------------
(* The process starts, for the first time or again. *)
Started ==
  /\ capped \in Caps /\ Sound(index) /\ index.inflight = 0 /\ (~capped => index = Empty)
  /\ pending = 0 /\ ledger = Nobody
  /\ keyLock = [k \in Key |-> Nobody] /\ reading = [k \in Key |-> {}] /\ orphans = {}
  /\ leaked \in Nat
  /\ DOMAIN linked \subseteq Key /\ (\A k \in DOMAIN linked : linked[k] = Size[k]) /\ Indexed
  /\ proc = [p \in Proc |-> Idle(AnyKey)]

LEMMA StartedIsInv == Started => Inv
<1> SUFFICES ASSUME Started PROVE Inv
  OBVIOUS
<1> DEFINE w == Idle(AnyKey)
<1>1. AnyKey \in Key
  BY AnyKeyIsKey
<1>2. /\ w \in Frame /\ Work(w) /\ ~Wants(w) /\ ~Commits(w)
      /\ w.pc = "idle" /\ w.victims = <<>> /\ w.booked = 0 /\ w.due = 0
  BY <1>1, IdleIsIdle
<1> HIDE DEF w
<1>3. proc = [p \in Proc |-> w] /\ \A p \in Proc : proc[p] = w
  BY DEF Started, w
<1>4. TypeOK
  <2>1. proc \in [Proc -> Frame]
    BY <1>2, <1>3
  <2>2. \A k \in DOMAIN linked : linked[k] \in 0..MaxEntry
    BY Sizes DEF Started
  <2>3. /\ keyLock \in [Key -> Proc \cup {Nobody}] /\ reading \in [Key -> SUBSET Proc]
        /\ orphans \subseteq [size : 0..MaxEntry, by : (SUBSET Proc) \ {{}}]
    BY DEF Started
  <2>4. QED
    BY <2>1, <2>2, <2>3 DEF Started, TypeOK, Frame
<1>5. Capping
  BY DEF Started, Capping
<1>6. BooksBalance
  <2> DEFINE b == [p \in Proc |-> proc[p].booked]
             d == [p \in Proc |-> proc[p].due]
  <2>1. /\ DOMAIN b = Proc /\ DOMAIN d = Proc /\ (\A p \in Proc : b[p] = 0) /\ \A p \in Proc : d[p] = 0
    BY <1>2, <1>3
  <2>2. BooksBalance <=> (capped => index.inflight = Total(b)) /\ pending = Total(d)
    BY DEF BooksBalance
  <2> HIDE DEF b, d
  <2>3. Total(b) = 0 /\ Total(d) = 0
    BY <2>1, TotalOfZeros
  <2>4. QED
    BY <2>2, <2>3 DEF Started
<1>7. Control /\ Absent /\ Committed
  BY <1>2, <1>3 DEF Control, Absent, Committed
<1>8. Exclusive
  BY <1>2, <1>3 DEF Exclusive, Locked
<1>9. OnlyVictims
  <2>1. Once(<<>>) /\ ToSet(<<>>) = {}
    BY DEF Once, ToSet
  <2>2. QED
    BY <1>2, <1>3, <2>1 DEF OnlyVictims
<1>10. OnlyWholeBlobs /\ Indexed
  BY DEF Started, OnlyWholeBlobs
<1>11. QED
  BY <1>4, <1>5, <1>6, <1>7, <1>8, <1>9, <1>10 DEF Inv

LEMMA EmptyIsSound == Sound(Empty) /\ Empty.inflight = 0 /\ DOMAIN Empty.entries = {}
<1>1. /\ Empty.lru = <<>> /\ Empty.used = 0 /\ Empty.inflight = 0
      /\ Empty.entries = [k \in {} |-> 0] /\ DOMAIN Empty.entries = {}
      /\ Empty = [lru |-> Empty.lru, entries |-> Empty.entries, used |-> Empty.used, inflight |-> Empty.inflight]
  BY DEF Empty
<1>2. Empty.entries \in [{} -> Entry] /\ {} \in SUBSET Key
  BY <1>1
<1>3. Empty \in Index
  <2>1. Empty.entries \in UNION {[K -> Entry] : K \in SUBSET Key}
    BY <1>2
  <2>2. Empty.lru \in Seq(Key) /\ Empty.used \in Nat /\ Empty.inflight \in Nat
    BY <1>1
  <2> DEFINE l == Empty.lru
             e == Empty.entries
             u == Empty.used
             i == Empty.inflight
  <2> HIDE DEF l, e, u, i
  <2>3. [lru |-> l, entries |-> e, used |-> u, inflight |-> i] \in Index
    BY <2>1, <2>2 DEF Index, l, e, u, i
  <2>4. QED
    BY <1>1, <2>3 DEF l, e, u, i
<1>4. Once(Empty.lru) /\ Elements(Empty.lru) = {} /\ ColdBehind(Empty.lru, Empty.entries)
  BY <1>1 DEF Once, Elements, ColdBehind
<1>5. Bytes(Empty.entries, {}) = 0
  BY BytesOfNone
<1>6. QED
  BY <1>1, <1>3, <1>4, <1>5 DEF Sound, WellFormed, Counted

LEMMA InitIsInv == Init => Inv
<1>1. Init => Started
  BY EmptyIsSound DEF Init, Started, Indexed
<1>2. QED
  BY <1>1, StartedIsInv

LEMMA CrashRestartKeepsInv == ASSUME Inv, CrashRestart PROVE Inv'
<1>1. /\ leaked' = leaked + TempBytes /\ capped' \in Caps /\ pending' = 0 /\ ledger' = Nobody
      /\ keyLock' = [k \in Key |-> Nobody] /\ reading' = [k \in Key |-> {}] /\ orphans' = {}
      /\ proc' = [p \in Proc |-> Idle(AnyKey)]
  BY DEF CrashRestart
<1>2. leaked' \in Nat
  <2> DEFINE f == [p \in {q \in Proc : proc[q].tmp} |-> proc[p].written]
  <2>1. DOMAIN f \in SUBSET Proc
    OBVIOUS
  <2>2. IsFiniteSet(DOMAIN f)
    BY <2>1, BlobAssumption, FS_Subset
  <2>3. TempBytes = Total(f)
    BY DEF TempBytes
  <2> HIDE DEF f
  <2>4. TempBytes \in Nat
    BY <2>2, <2>3, TotalIsNat
  <2>5. QED
    BY <1>1, <2>4, InvParts
<1>3. /\ DOMAIN linked \in SUBSET Key /\ Measures(linked, DOMAIN linked)
      /\ \A k \in DOMAIN linked : linked[k] = Size[k]
  BY InvParts DEF TypeOK, Measures, OnlyWholeBlobs
<1>4. CASE capped'
  <2>1. PICK l \in Listing(DOMAIN linked) :
          \E n \in 0..Len(l) : /\ index' = Popped(Scanned(l, linked), n)
                               /\ linked' = [k \in DOMAIN index'.entries |-> linked[k]]
    BY <1>4 DEF CrashRestart
  <2>2. PICK n \in 0..Len(l) : /\ index' = Popped(Scanned(l, linked), n)
                               /\ linked' = [k \in DOMAIN index'.entries |-> linked[k]]
    BY <2>1
  <2> DEFINE scanned == Scanned(l, linked)
  <2>3. IsScan(scanned, l, DOMAIN linked, linked)
    BY <1>3, ScannedIsSound
  <2>4. index' = Popped(scanned, n)
    BY <2>2
  <2> HIDE DEF scanned
  <2>5. /\ Sound(scanned) /\ scanned.inflight = 0 /\ DOMAIN scanned.entries = DOMAIN linked
        /\ n \in 0..Len(scanned.lru)
        /\ \A k \in DOMAIN linked : scanned.entries[k].size = linked[k]
    BY <2>3 DEF IsScan
  <2>6. /\ Sound(index') /\ index'.inflight = 0
        /\ DOMAIN index'.entries \subseteq DOMAIN linked
        /\ \A k \in DOMAIN index'.entries : index'.entries[k] = scanned.entries[k]
    BY <2>4, <2>5, PoppedKeeps
  <2>7. DOMAIN linked' = DOMAIN index'.entries /\ \A k \in DOMAIN linked' : linked'[k] = linked[k]
    BY <2>2
  <2>8. \A k \in DOMAIN index'.entries : index'.entries[k].size = Size[k]
    BY <1>3, <2>5, <2>6
  <2>9. Indexed' /\ DOMAIN linked' \subseteq Key /\ \A k \in DOMAIN linked' : linked'[k] = Size[k]
    BY <1>3, <2>6, <2>7, <2>8 DEF Indexed
  <2>10. Started'
    BY <1>1, <1>2, <1>4, <2>6, <2>9 DEF Started
  <2>11. QED
    BY <2>10, StartedIsInv, PTL
<1>5. CASE ~capped'
  <2>1. index' = Empty /\ linked' = linked
    BY <1>5 DEF CrashRestart
  <2>2. Sound(index') /\ index'.inflight = 0 /\ Indexed'
    BY <2>1, EmptyIsSound DEF Indexed
  <2>3. Started'
    BY <1>1, <1>2, <1>3, <2>1, <2>2 DEF Started
  <2>4. QED
    BY <2>3, StartedIsInv, PTL
<1>6. QED
  BY <1>4, <1>5

LEMMA NextKeepsInv == Inv /\ [Next]_vars => Inv'
<1> SUFFICES ASSUME Inv, [Next]_vars PROVE Inv'
  OBVIOUS
<1>1. CASE UNCHANGED vars
  <2>1. UNCHANGED <<capped, index, pending, ledger, keyLock, linked, reading, orphans, leaked, proc>>
    BY <1>1 DEF vars
  <2>2. TypeOK' /\ Capping' /\ BooksBalance'
    BY <2>1, InvParts DEF TypeOK, Capping, BooksBalance
  <2>3. Control' /\ Exclusive' /\ Absent'
    BY <2>1, InvParts DEF Control, Work, Writing, Commits, Books, Owes, Exclusive, Absent, Wants
  <2>4. OnlyWholeBlobs' /\ Indexed' /\ OnlyVictims' /\ Committed'
    BY <2>1, InvParts DEF OnlyWholeBlobs, Indexed, OnlyVictims, Committed, Commits
  <2>5. QED
    BY <2>2, <2>3, <2>4 DEF Inv
<1>2. CASE CrashRestart
  BY <1>2, CrashRestartKeepsInv
<1>3. ASSUME NEW p \in Proc, Arrive(p) PROVE Inv'
  BY <1>3, ArriveKeepsInv
<1>4. ASSUME NEW p \in Proc, Step(p) PROVE Inv'
  <2>1. CASE \/ Stat(p) \/ TouchHead(p) \/ Lock(p) \/ Open(p) \/ Touch(p) \/ Serve(p) \/ Leave(p)
    BY <2>1, StatKeepsInv, TouchHeadKeepsInv, LockKeepsInv, OpenKeepsInv, TouchKeepsInv,
       ServeKeepsInv, LeaveKeepsInv
  <2>2. CASE \/ CreateTemp(p) \/ Respond(p) \/ Reserve(p) \/ Evict(p) \/ Unlink(p) \/ Claim(p)
             \/ Measure(p) \/ FreeOne(p)
    BY <2>2, CreateTempKeepsInv, RespondKeepsInv, ReserveKeepsInv, EvictKeepsInv, UnlinkKeepsInv,
       ClaimKeepsInv, MeasureKeepsInv, FreeOneKeepsInv
  <2>3. CASE \/ Copy(p) \/ Landed(p) \/ BookWritten(p) \/ Close(p) \/ Settle(p) \/ SettleDisk(p)
             \/ Add(p) \/ RemoveTemp(p)
    BY <2>3, CopyKeepsInv, LandedKeepsInv, BookWrittenKeepsInv, CloseKeepsInv, SettleKeepsInv,
       SettleDiskKeepsInv, AddKeepsInv, RemoveTempKeepsInv
  <2>4. QED
    BY <1>4, <2>1, <2>2, <2>3 DEF Step
<1>5. QED
  BY <1>1, <1>2, <1>3, <1>4 DEF Next

LEMMA SpecKeepsInv == Spec => []Inv
  BY InitIsInv, NextKeepsInv, PTL DEF Spec

-----------------------------------------------------------------------------
(* Every variable and every goroutine's locals stay in their types: in     *)
(* particular ledger.pending and every leaked byte count stay natural.     *)
THEOREM BlobTypes == Spec => []TypeOK
<1>1. Inv => TypeOK
  BY DEF Inv
<1>2. QED
  BY <1>1, SpecKeepsInv, PTL

(* One download per blob, none of a blob that is there: from the lock key  *)
(* that GetBlob holds from its first OpenBlob to the end of PutBlob.       *)
THEOREM OneDownloadAtATime == Spec => []OneDownload
<1>1. Inv => OneDownload
  <2> SUFFICES ASSUME Inv, NEW p \in Proc, proc[p].tmp
               PROVE  /\ proc[p].key \notin DOMAIN linked
                      /\ \A q \in Proc \ {p} : proc[q].tmp => proc[q].key # proc[p].key
    BY DEF OneDownload, Downloading
  <2>1. proc[p].pc \in Locked
    BY InvParts DEF Work
  <2>2. QED
    BY <2>1, OneAtWork, InvParts DEF Absent, Wants
<1>2. QED
  BY <1>1, SpecKeepsInv, PTL

(* What is under a blob's final path is the whole blob, whatever transfers *)
(* break off, disks fill up or processes die: Close alone renames, and     *)
(* only once the body has ended.                                           *)
THEOREM OnlyWhole == Spec => []OnlyWholeBlobs
<1>1. Inv => OnlyWholeBlobs
  BY DEF Inv
<1>2. QED
  BY <1>1, SpecKeepsInv, PTL

(* evictor.inflight and diskLedger.pending are what the writers together   *)
(* hold of them, on every path through Write, Close and Abort.             *)
THEOREM BooksAreBalanced == Spec => []BooksBalance
<1>1. Inv => BooksBalance
  BY DEF Inv
<1>2. QED
  BY <1>1, SpecKeepsInv, PTL

(* An unlink that runs after evictor.mu is released deletes no file the    *)
(* index has: nobody can have downloaded the victim again before it.       *)
THEOREM IndexedFilesStay == Spec => []IndexedFilesExist
<1>1. Inv => IndexedFilesExist
  <2> SUFFICES ASSUME Inv, NEW k \in DOMAIN index.entries
               PROVE  k \in DOMAIN linked \ Doomed /\ linked[k] = index.entries[k].size
    BY DEF IndexedFilesExist
  <2>1. k \in DOMAIN linked /\ linked[k] = index.entries[k].size
    BY InvParts DEF Indexed, OnlyWholeBlobs
  <2>2. k \notin Doomed
    BY InvParts DEF Doomed, OnlyVictims
  <2>3. QED
    BY <2>1, <2>2
<1>2. QED
  BY <1>1, SpecKeepsInv, PTL
-----------------------------------------------------------------------------
(* The blob cache implements the evictor's specification: its index is the *)
(* evictor's, and who is about to run evictIfNeeded is owing one.          *)
LEMMA SameTouched ==
  ASSUME NEW ix, NEW k
  PROVE  E!Touched(ix, k) = Touched(ix, k)
<1>1. E!Without(ix.lru, k) = Without(ix.lru, k)
  BY DEF E!Without, Without, E!RemoveAt, RemoveAt
<1>2. QED
  BY <1>1 DEF E!Touched, Touched

LEMMA SameAdded ==
  ASSUME NEW ix, NEW k, NEW size, NEW cold
  PROVE  E!Added(ix, k, size, cold) = Added(ix, k, size, cold)
<1>1. E!Without(ix.lru, k) = Without(ix.lru, k)
  BY DEF E!Without, Without, E!RemoveAt, RemoveAt
<1>2. QED
  BY <1>1 DEF E!Added, Added

LEMMA SameMoved ==
  ASSUME NEW ix, NEW n
  PROVE  E!Reserved(ix, n) = Reserved(ix, n) /\ E!Released(ix, n) = Released(ix, n)
  BY DEF E!Reserved, Reserved, E!Released, Released

LEMMA SamePopped ==
  ASSUME NEW ix, NEW n
  PROVE  E!Popped(ix, n) = Popped(ix, n)
<1>1. E!Coldest(ix, n) = Coldest(ix, n)
  BY DEF E!Coldest, Coldest
<1>2. E!Bytes(ix.entries, Coldest(ix, n)) = Bytes(ix.entries, Coldest(ix, n))
  BY DEF E!Bytes, Bytes, E!Total, Total, E!Cardinality, Cardinality
<1>3. QED
  BY <1>1, <1>2 DEF E!Popped, Popped

LEMMA SameEvicts ==
  ASSUME NEW ix, NEW n
  PROVE  E!Evicts(ix, n) = Evicts(ix, n)
<1>1. E!OverCap(ix) = OverCap(ix)
  BY DEF E!OverCap, OverCap
<1>2. \A m : E!OverLow(ix, m) = OverLow(ix, m)
  BY SamePopped, Zenon DEF E!OverLow, OverLow, E!Low, Low
<1>3. QED
  BY <1>1, <1>2 DEF E!Evicts, Evicts

LEMMA SameFresh ==
  ASSUME NEW ix, IsFresh(ix)
  PROVE  E!IsFresh(ix)
  BY DEF E!IsFresh, IsFresh, E!Listing, Listing, E!Scanned, Scanned, E!OverCap, OverCap,
         E!Elements, Elements, E!Once, Once, E!Bytes, Bytes, E!Total, Total,
         E!Cardinality, Cardinality

Owing == {p \in Proc : At(p, "evict")}

Debts == Cardinality(Owing)

MayBook == MaxEntry * Cardinality(Proc)

LEMMA Bounds == /\ Cardinality(Proc) \in Nat /\ MayBook \in Nat
                /\ IsFiniteSet(Owing) /\ Debts \in Nat
<1>1. Cardinality(Proc) \in Nat
  BY BlobAssumption, FS_CardinalityType
<1>2. IsFiniteSet(Owing)
  <2>1. Owing \in SUBSET Proc
    BY DEF Owing
  <2>2. QED
    BY <2>1, BlobAssumption, FS_Subset
<1>3. MayBook \in Nat
  BY <1>1, SizeAssumption DEF MayBook
<1>4. QED
  BY <1>1, <1>2, <1>3, FS_CardinalityType DEF Debts

(* The evictor's view of a step. *)
LEMMA SameDebts ==
  ASSUME \A q \in Proc : (proc'[q].pc = "evict") <=> (proc[q].pc = "evict")
  PROVE  Owing' = Owing /\ Debts' = Debts
<1>1. Owing' = Owing
  BY DEF Owing, At
<1>2. QED
  BY <1>1 DEF Debts

LEMMA Unseen ==
  ASSUME UNCHANGED index, \A q \in Proc : (proc'[q].pc = "evict") <=> (proc[q].pc = "evict")
  PROVE  UNCHANGED E!vars
<1>1. Debts' = Debts
  BY SameDebts
<1>2. QED
  BY <1>1 DEF Debts, Owing, E!vars

(* A debt more, and one less. *)
LEMMA DebtMade ==
  ASSUME Inv, NEW p \in Proc, NEW w, Locals(p, w), proc[p].pc # "evict", w.pc = "evict"
  PROVE  Debts' = Debts + 1 /\ Debts < Cardinality(Proc)
<1>1. proc'[p] = w /\ \A q \in Proc : q # p => proc'[q] = proc[q]
  BY FrameOf, InvParts DEF Locals
<1>2. Owing' = Owing \cup {p} /\ p \notin Owing
  BY <1>1 DEF Owing, At
<1>3. Debts' = Debts + 1
  BY <1>2, Bounds, FS_AddElement DEF Debts
<1>4. Debts < Cardinality(Proc)
  <2>1. Owing \cup {p} \in SUBSET Proc
    BY DEF Owing
  <2>2. Cardinality(Owing \cup {p}) <= Cardinality(Proc)
    BY <2>1, BlobAssumption, FS_Subset
  <2>3. Cardinality(Owing \cup {p}) = Debts + 1
    BY <1>2, Bounds, FS_AddElement DEF Debts
  <2>4. QED
    BY <2>2, <2>3, Bounds
<1>5. QED
  BY <1>3, <1>4

LEMMA DebtPaid ==
  ASSUME Inv, NEW p \in Proc, NEW w, Locals(p, w), proc[p].pc = "evict", w.pc # "evict"
  PROVE  Debts' = Debts - 1 /\ Debts > 0
<1>1. proc'[p] = w /\ \A q \in Proc : q # p => proc'[q] = proc[q]
  BY FrameOf, InvParts DEF Locals
<1>2. Owing' = Owing \ {p} /\ p \in Owing
  BY <1>1 DEF Owing, At
<1>3. Cardinality(Owing \ {p}) = Debts - 1 /\ Cardinality(Owing \ {p}) \in Nat
  BY <1>2, Bounds, FS_RemoveElement, FS_CardinalityType, FS_Subset DEF Debts
<1>4. Debts' = Cardinality(Owing \ {p})
  BY <1>2 DEF Debts
<1>5. QED
  BY <1>3, <1>4, Bounds

Holdable(n) == n \in Nat /\ n <= MayBook

LEMMA InflightBounded == Inv => (capped => Holdable(index.inflight))
<1> SUFFICES ASSUME Inv, capped PROVE Holdable(index.inflight)
  OBVIOUS
<1> DEFINE b == [q \in Proc |-> proc[q].booked]
<1>1. b \in [Proc -> 0..MaxEntry]
  BY FrameOf, InvParts DEF Frame
<1>2. index.inflight = Total(b)
  BY InvParts DEF BooksBalance
<1> HIDE DEF b
<1>3. IsFiniteSet(DOMAIN b)
  BY <1>1, BlobAssumption
<1>4. Total(b) \in Nat /\ Total(b) <= MaxEntry * Cardinality(Proc)
  BY <1>1, <1>3, BlobAssumption, TotalBound, TotalIsNat
<1>5. QED
  BY <1>2, <1>4 DEF Holdable, MayBook

LEMMA ReserveSeen ==
  ASSUME Inv, Inv', capped, capped' = capped, NEW n \in Nat, n > 0, index' = Reserved(index, n),
         Debts' = Debts + 1, Debts < Cardinality(Proc)
  PROVE  E!Next
<1>1. index.inflight \in Nat /\ index'.inflight \in Nat /\ index'.inflight <= MayBook
  <2>1. capped'
    OBVIOUS
  <2>2. Holdable(index.inflight)'
    BY <2>1, InflightBounded, PTL
  <2>3. Holdable(index.inflight)
    BY InflightBounded
  <2>4. QED
    BY <2>2, <2>3 DEF Holdable, MayBook
<1>2. index'.inflight = index.inflight + n
  <2>1. Sound(index)
    BY InvParts DEF Capping
  <2>2. index.inflight + n \in Nat /\ index' = [index EXCEPT !.inflight = index.inflight + n]
    BY <1>1 DEF Reserved
  <2>3. QED
    BY <2>1, <2>2, InflightKeeps
<1>3. n \in 1..MayBook /\ index.inflight + n <= MayBook
  BY <1>1, <1>2, Bounds
<1>4. E!Reserve(n)
  BY <1>3, SameMoved DEF E!Reserve, Debts, Owing, MayBook
<1>5. QED
  BY <1>3, <1>4 DEF E!Next, MayBook

LEMMA ReleaseSeen ==
  ASSUME Inv, capped, NEW n \in Nat, n <= index.inflight, index' = Released(index, n),
         \A q \in Proc : (proc'[q].pc = "evict") <=> (proc[q].pc = "evict")
  PROVE  [E!Next]_(E!vars)
<1>1. index.inflight \in Nat /\ index.inflight <= MayBook /\ Debts' = Debts
  BY InflightBounded, SameDebts DEF Holdable
<1>2. CASE n = 0
  <2>1. index \in Index
    BY InvParts DEF Capping, Sound, WellFormed
  <2>2. index' = index
    BY <1>1, <1>2, <2>1 DEF Released, Index
  <2>3. QED
    BY <2>2, Unseen
<1>3. CASE n > 0
  <2>1. n \in 1..MayBook
    BY <1>1, <1>3, Bounds
  <2>2. E!Release(n)
    BY <1>1, SameMoved DEF E!Release, Debts, Owing
  <2>3. QED
    BY <2>1, <2>2 DEF E!Next, MayBook
<1>4. QED
  BY <1>2, <1>3

LEMMA TouchSeen ==
  ASSUME NEW k \in Key, index' = Touched(index, k),
         \A q \in Proc : (proc'[q].pc = "evict") <=> (proc[q].pc = "evict")
  PROVE  E!Next
<1>1. Debts' = Debts
  BY SameDebts
<1>2. E!Touch(k)
  BY <1>1, SameTouched DEF E!Touch, Debts, Owing
<1>3. QED
  BY <1>2 DEF E!Next

-----------------------------------------------------------------------------
(* What most steps leave alone. *)
Modest(v, w) == /\ (w.pc = "evict") <=> (v.pc = "evict")
                /\ w.oversized => v.oversized /\ w.key = v.key

Keeping(v, w) == /\ w.victims = v.victims
                 /\ Commits(v) => Commits(w) /\ w.key = v.key

Alone(p) == \A q \in Proc : q # p => proc'[q] = proc[q]

LEMMA AloneStep ==
  ASSUME Inv, NEW p \in Proc, NEW w, Locals(p, w)
  PROVE  proc'[p] = w /\ Alone(p)
  BY FrameOf, InvParts DEF Locals, Alone

(* Steps that go on within the same request, *)
LEMMA GoesOn ==
  ASSUME Inv, NEW p \in Proc, NEW w \in Frame, Locals(p, w),
         w.pc # "evict", proc[p].pc # "evict", ~Commits(proc[p]),
         w.victims = proc[p].victims, w.key = proc[p].key, w.oversized = proc[p].oversized
  PROVE  Modest(proc[p], proc'[p]) /\ Keeping(proc[p], proc'[p]) /\ Alone(p)
  BY AloneStep DEF Modest, Keeping

(* and steps that begin or end one. *)
LEMMA StartsOver ==
  ASSUME Inv, NEW p \in Proc, NEW w, Locals(p, w), w.pc # "evict",
         proc[p].pc \notin {"evict", "unlink"}, ~Commits(proc[p]),
         w.victims = <<>>, ~w.oversized
  PROVE  Modest(proc[p], proc'[p]) /\ Keeping(proc[p], proc'[p]) /\ Alone(p)
<1>1. proc[p].victims = <<>>
  BY InvParts DEF Work
<1>2. QED
  BY <1>1, AloneStep DEF Modest, Keeping

(* A new place, and perhaps more bytes, an answer or a temp file. *)
LEMMA GotoGoesOn ==
  ASSUME Inv, NEW p \in Proc, NEW pc \in PC, pc # "evict", Goto(p, pc),
         proc[p].pc # "evict", ~Commits(proc[p])
  PROVE  Modest(proc[p], proc'[p]) /\ Keeping(proc[p], proc'[p]) /\ Alone(p)
<1> DEFINE w == [proc[p] EXCEPT !.pc = pc]
<1>1. /\ w \in Frame /\ w.pc = pc /\ w.victims = proc[p].victims /\ w.key = proc[p].key
      /\ w.oversized = proc[p].oversized
  BY OwnFrame DEF Frame
<1>2. Locals(p, w)
  BY DEF Goto
<1> HIDE DEF w
<1>3. QED
  BY <1>1, <1>2, GoesOn

LEMMA FailGoesOn ==
  ASSUME Inv, NEW p \in Proc, NEW answer \in Answers, Fail(p, answer),
         proc[p].pc # "evict", ~Commits(proc[p])
  PROVE  Modest(proc[p], proc'[p]) /\ Keeping(proc[p], proc'[p]) /\ Alone(p)
<1> DEFINE w == [proc[p] EXCEPT !.pc = "settle", !.then = "remove", !.answer = answer]
<1>1. /\ w \in Frame /\ w.pc = "settle" /\ w.victims = proc[p].victims /\ w.key = proc[p].key
      /\ w.oversized = proc[p].oversized
  BY OwnFrame DEF Frame, PC
<1>2. Locals(p, w)
  BY DEF Fail
<1> HIDE DEF w
<1>3. QED
  BY <1>1, <1>2, GoesOn

LEMMA GrantGoesOn ==
  ASSUME Inv, NEW p \in Proc, Grant(p), proc[p].pc # "evict", ~Commits(proc[p])
  PROVE  Modest(proc[p], proc'[p]) /\ Keeping(proc[p], proc'[p]) /\ Alone(p)
<1> DEFINE n == Size[proc[p].key]
           w == [proc[p] EXCEPT !.pc = "copy", !.due = n]
<1>1. n \in 0..MaxEntry /\ "copy" \in PC
  BY OwnFrame, Sizes DEF Frame, PC
<1>2. Locals(p, w)
  BY DEF Grant
<1> HIDE DEF n
<1>3. /\ w \in Frame /\ w.pc = "copy" /\ w.victims = proc[p].victims /\ w.key = proc[p].key
      /\ w.oversized = proc[p].oversized
  BY <1>1, OwnFrame DEF Frame
<1> HIDE DEF w
<1>4. QED
  BY <1>2, <1>3, GoesOn

LEMMA AnswerGoesOn ==
  ASSUME Inv, NEW p \in Proc, NEW answer \in Answers,
         Locals(p, [proc[p] EXCEPT !.pc = "unlock", !.answer = answer]),
         proc[p].pc # "evict", ~Commits(proc[p])
  PROVE  Modest(proc[p], proc'[p]) /\ Keeping(proc[p], proc'[p]) /\ Alone(p)
<1> DEFINE w == [proc[p] EXCEPT !.pc = "unlock", !.answer = answer]
<1>1. /\ w \in Frame /\ w.pc = "unlock" /\ w.victims = proc[p].victims /\ w.key = proc[p].key
      /\ w.oversized = proc[p].oversized
  BY OwnFrame DEF Frame, PC
<1> HIDE DEF w
<1>2. QED
  BY <1>1, GoesOn DEF w

(* The steps that neither touch the index nor move a committed file. *)
Minds(p) ==
  \/ Arrive(p) \/ Stat(p) \/ Lock(p) \/ Open(p) \/ Serve(p) \/ Leave(p) \/ CreateTemp(p)
  \/ Respond(p) \/ Claim(p) \/ Measure(p) \/ Copy(p) \/ Landed(p) \/ SettleDisk(p)
  \/ RemoveTemp(p)

Quiet(p) ==
  /\ UNCHANGED <<index, capped, linked>>
  /\ Modest(proc[p], proc'[p]) /\ Keeping(proc[p], proc'[p]) /\ Alone(p)

LEMMA MindsIsQuiet == ASSUME Inv, NEW p \in Proc, Minds(p) PROVE Quiet(p)
<1>1. UNCHANGED <<index, capped, linked>>
  BY DEF Minds, Arrive, Stat, Lock, Open, Serve, Leave, CreateTemp, Respond, Claim, Measure,
         Copy, Landed, SettleDisk, RemoveTemp, mem, disk
<1> SUFFICES Modest(proc[p], proc'[p]) /\ Keeping(proc[p], proc'[p]) /\ Alone(p)
  BY <1>1 DEF Quiet
<1>2. CASE Arrive(p)
  <2>1. PICK k \in Key, first \in {"lock", "stat"} : Locals(p, [Idle(k) EXCEPT !.pc = first])
    BY <1>2 DEF Arrive
  <2>2. proc[p].pc = "idle" /\ ~Commits(proc[p])
    BY <1>2 DEF Arrive, At, Commits, Settling
  <2> DEFINE w == [Idle(k) EXCEPT !.pc = first]
  <2>3. w.pc = first /\ w.victims = <<>> /\ ~w.oversized
    BY DEF Idle
  <2>4. Locals(p, w)
    BY <2>1
  <2> HIDE DEF w
  <2>5. QED
    BY <2>2, <2>3, <2>4, StartsOver
<1>3. CASE Serve(p) \/ Leave(p) \/ RemoveTemp(p)
  <2>1. Finish(p) /\ proc[p].pc \notin {"evict", "unlink"} /\ ~Commits(proc[p])
    BY <1>3 DEF Serve, Leave, RemoveTemp, At, Commits, Settling
  <2> DEFINE w == Idle(AnyKey)
  <2>2. w.pc # "evict" /\ w.victims = <<>> /\ ~w.oversized
    BY DEF Idle
  <2>3. Locals(p, w)
    BY <2>1 DEF Finish
  <2> HIDE DEF w
  <2>4. QED
    BY <2>1, <2>2, <2>3, StartsOver
<1>4. CASE Stat(p) \/ Lock(p) \/ Open(p)
  <2>1. proc[p].pc # "evict" /\ ~Commits(proc[p]) /\ "notFound" \in Answers
        /\ {"head", "lock", "open", "touch", "put"} \subseteq PC
    BY <1>4 DEF Stat, Lock, Open, At, Commits, Settling, PC, Answers
  <2>2. \/ \E pc \in {"head", "lock", "open", "touch", "put"} : Goto(p, pc)
        \/ Locals(p, [proc[p] EXCEPT !.pc = "unlock", !.answer = "notFound"])
    BY <1>4 DEF Stat, Lock, Open
  <2>3. QED
    BY <2>1, <2>2, GotoGoesOn, AnswerGoesOn
<1>5. CASE Respond(p) \/ Claim(p) \/ Measure(p)
  <2>1. proc[p].pc # "evict" /\ ~Commits(proc[p])
        /\ {"reserve", "copy", "measure", "free"} \subseteq PC
        /\ {"notFound", "badGateway", "insufficient"} \subseteq Answers
    BY <1>5 DEF Respond, Claim, Measure, At, Commits, Settling, PC, Answers
  <2>2. \/ \E pc \in {"reserve", "copy", "measure", "free"} : Goto(p, pc)
        \/ \E answer \in {"notFound", "badGateway", "insufficient"} : Fail(p, answer)
        \/ Grant(p)
    <3>1. CASE Respond(p)
      BY <3>1 DEF Respond
    <3>2. CASE Claim(p)
      BY <3>2 DEF Claim
    <3>3. CASE Measure(p)
      BY <3>3 DEF Measure, Refuse
    <3>4. QED
      BY <1>5, <3>1, <3>2, <3>3
  <2>3. QED
    BY <2>1, <2>2, GotoGoesOn, FailGoesOn, GrantGoesOn
<1>6. CASE CreateTemp(p)
  <2>1. proc[p].pc # "evict" /\ ~Commits(proc[p]) /\ "badGateway" \in Answers /\ "fetch" \in PC
    BY <1>6 DEF CreateTemp, At, Commits, Settling, PC, Answers
  <2>2. CASE Locals(p, [proc[p] EXCEPT !.pc = "fetch", !.tmp = TRUE])
    <3> DEFINE w == [proc[p] EXCEPT !.pc = "fetch", !.tmp = TRUE]
    <3>1. /\ w \in Frame /\ w.pc = "fetch" /\ w.victims = proc[p].victims /\ w.key = proc[p].key
          /\ w.oversized = proc[p].oversized
      BY <2>1, OwnFrame DEF Frame
    <3> HIDE DEF w
    <3>2. QED
      BY <2>1, <2>2, <3>1, GoesOn DEF w
  <2>3. QED
    BY <1>6, <2>1, <2>2, AnswerGoesOn DEF CreateTemp
<1>7. CASE Copy(p)
  <2>1. proc[p].pc # "evict" /\ ~Commits(proc[p]) /\ "badGateway" \in Answers
        /\ "landed" \in PC /\ "close" \in PC
    BY <1>7 DEF Copy, At, Commits, Settling, PC, Answers
  <2>2. CASE /\ proc[p].written < Size[proc[p].key]
             /\ Locals(p, [proc[p] EXCEPT !.pc = "landed", !.written = @ + 1])
    <3> DEFINE w == [proc[p] EXCEPT !.pc = "landed", !.written = @ + 1]
    <3>1. proc[p].written + 1 \in 0..MaxEntry
      BY <2>2, OwnFrame, Sizes DEF Frame
    <3>2. /\ w \in Frame /\ w.pc = "landed" /\ w.victims = proc[p].victims
          /\ w.key = proc[p].key /\ w.oversized = proc[p].oversized
      BY <2>1, <3>1, OwnFrame DEF Frame
    <3> HIDE DEF w
    <3>3. QED
      BY <2>1, <2>2, <3>2, GoesOn DEF w
  <2>3. QED
    BY <1>7, <2>1, <2>2, GotoGoesOn, FailGoesOn DEF Copy
<1>8. CASE Landed(p)
  <2> DEFINE n == IF proc[p].due > 0 THEN 1 ELSE 0
             w == [proc[p] EXCEPT !.pc = "book", !.due = @ - n]
  <2>1. proc[p].pc # "evict" /\ ~Commits(proc[p]) /\ "book" \in PC /\ Locals(p, w)
    BY <1>8 DEF Landed, At, Commits, Settling, PC
  <2>2. proc[p].due - n \in 0..MaxEntry
    BY OwnFrame, Sizes DEF Frame
  <2> HIDE DEF n
  <2>3. /\ w \in Frame /\ w.pc = "book" /\ w.victims = proc[p].victims /\ w.key = proc[p].key
        /\ w.oversized = proc[p].oversized
    BY <2>1, <2>2, OwnFrame DEF Frame
  <2> HIDE DEF w
  <2>4. QED
    BY <2>1, <2>3, GoesOn
<1>9. CASE SettleDisk(p)
  <2> DEFINE w == [proc[p] EXCEPT !.pc = proc[p].then, !.due = 0]
  <2>1. proc[p].pc = "settleDisk" /\ Locals(p, w)
    BY <1>9 DEF SettleDisk, At
  <2>2. proc[p].then \in {"remove", "add", "unlock"}
    BY <2>1, InvParts DEF Work, Settling
  <2>3. /\ w.pc = proc[p].then /\ w.victims = proc[p].victims /\ w.key = proc[p].key
        /\ w.oversized = proc[p].oversized
    BY OwnFrame DEF Frame
  <2> HIDE DEF w
  <2>4. Commits(proc[p]) => Commits(w)
    BY <2>1, <2>3 DEF Commits
  <2>5. QED
    BY <2>1, <2>2, <2>3, <2>4, AloneStep DEF Modest, Keeping
<1>10. QED
  BY <1>2, <1>3, <1>4, <1>5, <1>6, <1>7, <1>8, <1>9 DEF Minds

-----------------------------------------------------------------------------
(* What newEvictor is left with is a scan of the files it left. *)
LEMMA OnceCounts ==
  ASSUME NEW l \in Seq(Key), Once(l)
  PROVE  l \in [1..Cardinality(Elements(l)) -> Elements(l)]
<1> DEFINE S == 1..Len(l)
           T == Elements(l)
<1>1. Len(l) \in Nat /\ DOMAIN l = S /\ l \in [S -> Key]
  BY LenProperties
<1>2. T = {l[i] : i \in S}
  BY <1>1 DEF Elements
<1>3. l \in [S -> T]
  BY <1>1, <1>2
<1>4. l \in Bijection(S, T)
  BY <1>1, <1>2, <1>3 DEF Once, Bijection, Injection, Surjection, IsInjective
<1>5. IsFiniteSet(S) /\ Cardinality(S) = Len(l)
  BY <1>1, OneToN
<1> HIDE DEF S, T
<1>6. ExistsBijection(S, T)
  BY <1>4 DEF ExistsBijection
<1>7. Cardinality(T) = Cardinality(S)
  BY <1>5, <1>6, FS_Bijection
<1>8. QED
  BY <1>3, <1>5, <1>7 DEF S, T

LEMMA FreshFromParts ==
  ASSUME NEW ix, Sound(ix), ix.inflight = 0, \A k \in DOMAIN ix.entries : ~ix.entries[k].cold,
         WarmFits(ix)
  PROVE  IsFresh(ix)
<1> DEFINE K == DOMAIN ix.entries
           size == [k \in K |-> ix.entries[k].size]
           e == [k \in K |-> [size |-> size[k], cold |-> FALSE]]
           l == ix.lru
<1>1. /\ l \in Seq(Key) /\ Once(l) /\ K = Elements(l) /\ K \in SUBSET Key
      /\ ix.entries \in [K -> Entry] /\ ix.used = Bytes(ix.entries, K) /\ ix.used \in Nat
  BY SoundParts
<1>2. l \in Listing(K)
  BY <1>1, OnceCounts DEF Listing
<1>3. size \in [K -> 0..MaxEntry]
  BY <1>1 DEF Entry
<1>4. ix.entries = e
  <2>1. \A k \in K : ix.entries[k] = [size |-> ix.entries[k].size, cold |-> FALSE]
    BY <1>1 DEF Entry
  <2>2. e = [k \in K |-> ix.entries[k]]
    BY <2>1
  <2>3. QED
    BY <1>1, <2>2
<1>5. ix = [lru |-> l, entries |-> ix.entries, used |-> ix.used, inflight |-> 0]
  BY DEF Sound, WellFormed, Index
<1> HIDE DEF size
<1>6. Scanned(l, size) = [lru |-> l, entries |-> e, used |-> Bytes(e, K), inflight |-> 0]
  BY <1>1 DEF Scanned
<1>7. Scanned(l, size) = ix
  <2> HIDE DEF e, K, l
  <2>1. QED
    BY <1>1, <1>4, <1>5, <1>6
<1>8. ~OverCap(ix)
  <2>1. WarmKeys(ix) = K
    BY DEF WarmKeys
  <2>2. CASE K = {}
    <3>1. ix.used = 0
      BY <1>1, <2>2, BytesOfNone
    <3>2. QED
      BY <3>1, SizeAssumption DEF OverCap
  <2>3. CASE K # {}
    <3>1. Bytes(ix.entries, K) + ix.inflight <= MaxStorage
      BY <2>1, <2>3 DEF WarmFits
    <3>2. QED
      BY <1>1, <3>1, SizeAssumption DEF OverCap
  <2>4. QED
    BY <2>2, <2>3
<1>9. QED
  BY <1>1, <1>2, <1>3, <1>7, <1>8 DEF IsFresh

LEMMA EmptyIsFresh == IsFresh(Empty)
<1>1. WarmFits(Empty) /\ \A k \in DOMAIN Empty.entries : ~Empty.entries[k].cold
  BY EmptyIsSound DEF WarmFits, WarmKeys
<1>2. QED
  BY <1>1, EmptyIsSound, FreshFromParts

LEMMA EvictedIsFresh ==
  ASSUME NEW K \in SUBSET Key, NEW l \in Listing(K), NEW size, Measures(size, K),
         NEW n \in 0..Len(l), Evicts(Scanned(l, size), n)
  PROVE  IsFresh(Popped(Scanned(l, size), n))
<1> DEFINE ix == Scanned(l, size)
           q == Popped(ix, n)
<1>1. IsScan(ix, l, K, size)
  BY ScannedIsSound
<1>2. Evicts(ix, n)
  OBVIOUS
<1> HIDE DEF ix
<1>3. /\ Sound(ix) /\ ix.inflight = 0 /\ DOMAIN ix.entries = K /\ n \in 0..Len(ix.lru)
      /\ \A k \in K : ix.entries[k].cold = FALSE
  BY <1>1 DEF IsScan
<1>4. /\ Sound(q) /\ q.inflight = ix.inflight
      /\ DOMAIN q.entries = DOMAIN ix.entries \ Coldest(ix, n)
      /\ \A k \in DOMAIN q.entries : q.entries[k] = ix.entries[k]
  BY <1>3, PoppedKeeps
<1>5. WarmFits(q)
  BY <1>2, <1>3, EvictionRestoresCap
<1> HIDE DEF q
<1>6. \A k \in DOMAIN q.entries : ~q.entries[k].cold
  BY <1>3, <1>4
<1>7. IsFresh(q)
  BY <1>3, <1>4, <1>5, <1>6, FreshFromParts
<1>8. QED
  BY <1>7 DEF q, ix

-----------------------------------------------------------------------------
(* Only blobs that cannot fit are cold. *)
Mild(v, w) == w.oversized => \/ v.oversized /\ w.key = v.key
                             \/ ~Fits(Size[w.key])

Cold == \A p \in Proc : proc[p].oversized => ~Fits(Size[proc[p].key])

(* The evictor sees a step as one of its own, or not at all. *)
Seen(p) == [E!Next]_(E!vars) /\ Mild(proc[p], proc'[p]) /\ Alone(p)

LEMMA QuietIsSeen == ASSUME NEW p \in Proc, Quiet(p) PROVE Seen(p)
<1>1. \A q \in Proc : (proc'[q].pc = "evict") <=> (proc[q].pc = "evict")
  BY DEF Quiet, Modest, Alone
<1>2. QED
  BY <1>1, Unseen DEF Quiet, Modest, Mild, Seen

LEMMA TouchIsSeen == ASSUME Inv, NEW p \in Proc, TouchHead(p) \/ Touch(p) PROVE Seen(p)
<1>1. /\ index' = Touched(index, proc[p].key) /\ proc[p].pc # "evict" /\ proc[p].key \in Key
      /\ \/ Locals(p, Idle(AnyKey))
         \/ Locals(p, [Idle(proc[p].key) EXCEPT !.pc = "serve", !.answer = "ok"])
  BY OwnFrame DEF TouchHead, Touch, At, Finish, Frame
<1>2. PICK w : Locals(p, w) /\ w.pc # "evict" /\ ~w.oversized
  <2> DEFINE v == Idle(AnyKey)
             w == [Idle(proc[p].key) EXCEPT !.pc = "serve", !.answer = "ok"]
  <2>1. v.pc # "evict" /\ ~v.oversized /\ w.pc # "evict" /\ ~w.oversized
    BY DEF Idle
  <2>2. Locals(p, v) \/ Locals(p, w)
    BY <1>1
  <2> HIDE DEF v, w
  <2>3. QED
    BY <2>1, <2>2
<1>3. proc'[p] = w /\ Alone(p)
  BY <1>2, AloneStep
<1>4. \A q \in Proc : (proc'[q].pc = "evict") <=> (proc[q].pc = "evict")
  BY <1>1, <1>2, <1>3 DEF Alone
<1>5. QED
  BY <1>1, <1>2, <1>3, <1>4, TouchSeen DEF Mild, Seen

LEMMA BookIsSeen ==
  ASSUME Inv, Inv', NEW p \in Proc, NEW total \in 0..MaxEntry, total <= Size[proc[p].key],
         NEW next \in {"claim", "copy"}, Book(p, total, next), proc[p].pc \in {"reserve", "book"},
         UNCHANGED capped
  PROVE  Seen(p)
<1>1. /\ next \in PC /\ "evict" \in PC /\ proc[p].pc # "evict" /\ 0 \in 0..MaxEntry
      /\ proc[p].booked \in Nat /\ total \in Nat /\ Size[proc[p].key] \in Nat
  BY OwnFrame, Sizes DEF PC, Frame
<1>2. ASSUME NEW w, Locals(p, w), w.pc # "evict"
      PROVE  /\ proc'[p] = w /\ Alone(p)
             /\ \A q \in Proc : (proc'[q].pc = "evict") <=> (proc[q].pc = "evict")
  BY <1>1, <1>2, AloneStep DEF Alone
<1>3. CASE Goto(p, next) /\ UNCHANGED index
  <2> DEFINE w == [proc[p] EXCEPT !.pc = next]
  <2>1. w.pc # "evict" /\ w.oversized = proc[p].oversized /\ w.key = proc[p].key
    BY <1>1, OwnFrame DEF Frame
  <2>2. Locals(p, w)
    BY <1>3 DEF Goto
  <2> HIDE DEF w
  <2>3. QED
    BY <1>2, <1>3, <2>1, <2>2, Unseen DEF Mild, Seen
<1>4. CASE /\ capped /\ ~Fits(total) /\ index' = Released(index, proc[p].booked)
           /\ Locals(p, [proc[p] EXCEPT !.pc = next, !.oversized = TRUE, !.booked = 0])
  <2> DEFINE w == [proc[p] EXCEPT !.pc = next, !.oversized = TRUE, !.booked = 0]
  <2>1. w.pc # "evict" /\ w.key = proc[p].key
    BY <1>1, OwnFrame DEF Frame
  <2>2. Locals(p, w)
    BY <1>4
  <2> HIDE DEF w
  <2>3. ~Fits(Size[proc[p].key])
    BY <1>1, <1>4, SizeAssumption DEF Fits
  <2>4. proc[p].booked <= index.inflight
    BY <1>4, BooksCover, InvParts
  <2>5. QED
    BY <1>1, <1>2, <1>4, <2>1, <2>2, <2>3, <2>4, ReleaseSeen DEF Mild, Seen
<1>5. CASE /\ proc[p].booked < total
           /\ index' = IF capped THEN Reserved(index, total - proc[p].booked) ELSE index
           /\ Locals(p, [proc[p] EXCEPT !.pc = IF capped THEN "evict" ELSE next,
                                        !.then = next, !.booked = total])
  <2> DEFINE w == [proc[p] EXCEPT !.pc = IF capped THEN "evict" ELSE next,
                                  !.then = next, !.booked = total]
  <2>1. /\ w.pc = (IF capped THEN "evict" ELSE next)
        /\ w.oversized = proc[p].oversized /\ w.key = proc[p].key
    BY <1>1, OwnFrame DEF Frame
  <2>2. Locals(p, w)
    BY <1>5
  <2> HIDE DEF w
  <2>3. Mild(proc[p], proc'[p]) /\ Alone(p)
    BY <2>1, <2>2, AloneStep DEF Mild
  <2>4. CASE capped
    <3>1. Debts' = Debts + 1 /\ Debts < Cardinality(Proc)
      BY <1>1, <2>1, <2>2, <2>4, DebtMade
    <3>2. total - proc[p].booked \in Nat /\ total - proc[p].booked > 0
      BY <1>1, <1>5
    <3>3. E!Next
      BY <1>5, <2>4, <3>1, <3>2, ReserveSeen
    <3>4. QED
      BY <2>3, <3>3 DEF Seen
  <2>5. CASE ~capped
    BY <1>1, <1>2, <1>5, <2>1, <2>2, <2>3, <2>5, Unseen DEF Seen
  <2>6. QED
    BY <2>4, <2>5
<1>6. (total <= proc[p].booked) \/ (proc[p].booked < total)
  BY <1>1
<1>7. QED
  BY <1>3, <1>4, <1>5, <1>6 DEF Book

LEMMA SettleIsSeen == ASSUME Inv, NEW p \in Proc, Settle(p) PROVE Seen(p)
<1> DEFINE w == [proc[p] EXCEPT !.pc = "settleDisk", !.booked = 0]
<1>1. /\ proc[p].pc # "evict" /\ Locals(p, w)
      /\ index' = IF capped THEN Released(index, proc[p].booked) ELSE index
  BY DEF Settle, At
<1>2. w.pc # "evict" /\ w.oversized = proc[p].oversized /\ w.key = proc[p].key
  BY OwnFrame DEF Frame
<1> HIDE DEF w
<1>3. proc'[p] = w /\ Alone(p)
  BY <1>1, AloneStep
<1>4. \A q \in Proc : (proc'[q].pc = "evict") <=> (proc[q].pc = "evict")
  BY <1>1, <1>2, <1>3 DEF Alone
<1>5. [E!Next]_(E!vars)
  <2>1. CASE capped
    <3>1. proc[p].booked \in Nat /\ proc[p].booked <= index.inflight
      BY <2>1, OwnFrame, Sizes, BooksCover, InvParts DEF Frame
    <3>2. QED
      BY <1>1, <1>4, <2>1, <3>1, ReleaseSeen
  <2>2. CASE ~capped
    BY <1>1, <1>4, <2>2, Unseen
  <2>3. QED
    BY <2>1, <2>2
<1>6. QED
  BY <1>2, <1>3, <1>5 DEF Mild, Seen

LEMMA EvictIsSeen == ASSUME Inv, NEW p \in Proc, Evict(p) PROVE Seen(p)
<1>1. PICK n \in 0..Len(index.lru) :
        /\ Evicts(index, n) /\ index' = Popped(index, n)
        /\ Locals(p, [proc[p] EXCEPT !.victims = Victims(index, n),
                       !.pc = IF n = 0 THEN proc[p].then ELSE "unlink"])
  BY DEF Evict
<1> DEFINE w == [proc[p] EXCEPT !.victims = Victims(index, n),
                                !.pc = IF n = 0 THEN proc[p].then ELSE "unlink"]
<1>2. proc[p].pc = "evict" /\ proc[p].then # "evict"
  <2>1. proc[p].pc = "evict"
    BY DEF Evict, At
  <2>2. QED
    BY <2>1, InvParts DEF Work, Evicting
<1>3. w.pc # "evict" /\ w.oversized = proc[p].oversized /\ w.key = proc[p].key
  BY <1>2, OwnFrame DEF Frame
<1>4. Locals(p, w)
  BY <1>1
<1> HIDE DEF w
<1>5. proc'[p] = w /\ Alone(p) /\ Debts' = Debts - 1 /\ Debts > 0
  BY <1>2, <1>3, <1>4, AloneStep, DebtPaid
<1>6. E!EvictIfNeeded
  BY <1>1, <1>5, SameEvicts, SamePopped DEF E!EvictIfNeeded, Debts, Owing
<1>7. QED
  BY <1>3, <1>5, <1>6 DEF E!Next, Mild, Seen

LEMMA FreeOneIsSeen == ASSUME Inv, NEW p \in Proc, FreeOne(p) PROVE Seen(p)
<1>1. proc[p].pc = "free" /\ capped' = capped /\ linked' = linked
  BY DEF FreeOne, At, disk
<1>2. ~Commits(proc[p])
  BY <1>1 DEF Commits, Settling
<1>3. CASE Refuse(p) /\ UNCHANGED index
  <2>1. Fail(p, "insufficient") /\ "insufficient" \in Answers
    BY <1>3 DEF Refuse, Answers
  <2>2. Quiet(p)
    BY <1>1, <1>2, <1>3, <2>1, FailGoesOn DEF Quiet
  <2>3. QED
    BY <2>2, QuietIsSeen
<1>4. CASE /\ index.lru # <<>> /\ index' = Popped(index, 1)
           /\ Locals(p, [proc[p] EXCEPT !.pc = "unlink", !.then = "measure",
                                        !.victims = Victims(index, 1)])
  <2> DEFINE w == [proc[p] EXCEPT !.pc = "unlink", !.then = "measure",
                                  !.victims = Victims(index, 1)]
  <2>1. w.pc # "evict" /\ w.oversized = proc[p].oversized /\ w.key = proc[p].key
    BY OwnFrame DEF Frame
  <2>2. Locals(p, w)
    BY <1>4
  <2> HIDE DEF w
  <2>3. proc'[p] = w /\ Alone(p)
    BY <2>2, AloneStep
  <2>4. \A q \in Proc : (proc'[q].pc = "evict") <=> (proc[q].pc = "evict")
    BY <1>1, <2>1, <2>3 DEF Alone
  <2>5. Debts' = Debts
    BY <2>4, SameDebts
  <2>6. E!FreeOne
    BY <1>4, <2>5, SamePopped DEF E!FreeOne, Debts, Owing
  <2>7. QED
    BY <2>1, <2>3, <2>6 DEF E!Next, Mild, Seen
<1>5. QED
  BY <1>3, <1>4 DEF FreeOne

LEMMA FilesMoveUnseen == ASSUME Inv, NEW p \in Proc, Unlink(p) \/ Close(p) PROVE Seen(p)
<1>1. index' = index /\ proc[p].pc \in {"unlink", "close"}
  BY DEF Unlink, Close, At
<1>2. ASSUME NEW w, Locals(p, w), w.pc # "evict", w.oversized = proc[p].oversized, w.key = proc[p].key
      PROVE  Seen(p)
  <2>1. proc'[p] = w /\ Alone(p)
    BY <1>2, AloneStep
  <2>2. \A q \in Proc : (proc'[q].pc = "evict") <=> (proc[q].pc = "evict")
    BY <1>1, <1>2, <2>1 DEF Alone
  <2>3. QED
    BY <1>1, <1>2, <2>1, <2>2, Unseen DEF Mild, Seen
<1>3. CASE Unlink(p)
  <2> DEFINE w == [proc[p] EXCEPT !.victims = Tail(proc[p].victims),
                     !.pc = IF Tail(proc[p].victims) = <<>> THEN proc[p].then ELSE "unlink"]
  <2>1. Locals(p, w) /\ proc[p].pc = "unlink"
    BY <1>3 DEF Unlink, At
  <2>2. proc[p].then # "evict"
    BY <2>1, InvParts DEF Work, Evicting
  <2>3. w.pc # "evict" /\ w.oversized = proc[p].oversized /\ w.key = proc[p].key
    BY <2>2, OwnFrame DEF Frame
  <2> HIDE DEF w
  <2>4. QED
    BY <1>2, <2>1, <2>3
<1>4. CASE Close(p)
  <2> DEFINE v == [proc[p] EXCEPT !.pc = "settle", !.then = "add", !.tmp = FALSE]
             w == [proc[p] EXCEPT !.pc = "settle", !.then = "unlock", !.tmp = FALSE,
                                  !.answer = "badGateway"]
  <2>1. Locals(p, v) \/ Locals(p, w)
    BY <1>4 DEF Close
  <2>2. /\ v.pc # "evict" /\ v.oversized = proc[p].oversized /\ v.key = proc[p].key
        /\ w.pc # "evict" /\ w.oversized = proc[p].oversized /\ w.key = proc[p].key
    BY OwnFrame DEF Frame
  <2> HIDE DEF v, w
  <2>3. QED
    BY <1>2, <2>1, <2>2
<1>5. QED
  BY <1>3, <1>4

LEMMA AddIsSeen == ASSUME Inv, Cold, NEW p \in Proc, Add(p) PROVE Seen(p)
<1> DEFINE cold == proc[p].oversized
           k == proc[p].key
           size == proc[p].written
           w == [proc[p] EXCEPT !.then = "reopen",
                                !.pc = IF capped /\ ~cold THEN "evict" ELSE "reopen"]
<1>1. /\ proc[p].pc = "add" /\ Locals(p, w)
      /\ index' = IF capped THEN Added(index, k, size, cold) ELSE index
  BY DEF Add, At
<1>2. /\ w.pc = (IF capped /\ ~cold THEN "evict" ELSE "reopen")
      /\ w.oversized = proc[p].oversized /\ w.key = proc[p].key
  BY OwnFrame DEF Frame
<1> HIDE DEF w
<1>3. proc'[p] = w /\ Alone(p) /\ Mild(proc[p], proc'[p])
  BY <1>1, <1>2, AloneStep DEF Mild
<1>4. k \in Key /\ size \in 0..MaxEntry /\ cold \in BOOLEAN /\ (cold => ~Fits(size))
  <2>1. size = Size[k]
    BY <1>1, InvParts DEF Work, Commits
  <2>2. QED
    BY <2>1, OwnFrame DEF Frame, Cold
<1>5. CASE ~capped \/ cold
  <2>1. \A q \in Proc : (proc'[q].pc = "evict") <=> (proc[q].pc = "evict")
    BY <1>1, <1>2, <1>3, <1>5 DEF Alone
  <2>2. CASE ~capped
    BY <1>1, <1>3, <2>1, <2>2, Unseen DEF Seen
  <2>3. CASE capped /\ cold
    <3>1. Debts' = Debts
      BY <2>1, SameDebts
    <3>2. Debts < Cardinality(Proc)
      <4>1. Owing \in SUBSET (Proc \ {p})
        BY <1>1 DEF Owing, At
      <4>2. IsFiniteSet(Proc \ {p}) /\ Cardinality(Proc \ {p}) = Cardinality(Proc) - 1
        BY BlobAssumption, FS_RemoveElement
      <4>3. Debts <= Cardinality(Proc \ {p})
        BY <4>1, <4>2, FS_Subset DEF Debts
      <4>4. QED
        BY <4>2, <4>3, Bounds
    <3>3. E!Add(k, size, cold)
      BY <1>1, <1>4, <2>3, <3>1, <3>2, SameAdded DEF E!Add, E!Fits, Fits, Debts, Owing
    <3>4. QED
      BY <1>3, <1>4, <3>3 DEF E!Next, Seen
  <2>4. QED
    BY <1>5, <2>2, <2>3
<1>6. CASE capped /\ ~cold
  <2>1. Debts' = Debts + 1 /\ Debts < Cardinality(Proc)
    BY <1>1, <1>2, <1>6, DebtMade
  <2>2. E!Add(k, size, cold)
    BY <1>1, <1>4, <1>6, <2>1, SameAdded DEF E!Add, E!Fits, Fits, Debts, Owing
  <2>3. QED
    BY <1>3, <1>4, <2>2 DEF E!Next, Seen
<1>7. QED
  BY <1>5, <1>6

LEMMA RestartIsSeen == ASSUME Inv, CrashRestart PROVE E!Next /\ Cold'
<1>1. proc' = [q \in Proc |-> Idle(AnyKey)] /\ capped' \in Caps
  BY DEF CrashRestart
<1>2. \A q \in Proc : proc'[q].pc # "evict" /\ ~proc'[q].oversized
  BY <1>1 DEF Idle
<1>3. Debts' = 0
  <2>1. Owing' = {}
    BY <1>2 DEF Owing, At
  <2>2. QED
    BY <2>1, FS_EmptySet DEF Debts
<1>4. IsFresh(index')
  <2>1. CASE capped'
    <3>1. PICK l \in Listing(DOMAIN linked) :
            \E n \in 0..Len(l) : /\ Evicts(Scanned(l, linked), n)
                                 /\ index' = Popped(Scanned(l, linked), n)
      BY <2>1 DEF CrashRestart
    <3>2. PICK n \in 0..Len(l) : /\ Evicts(Scanned(l, linked), n)
                                 /\ index' = Popped(Scanned(l, linked), n)
      BY <3>1
    <3>3. DOMAIN linked \in SUBSET Key /\ Measures(linked, DOMAIN linked)
      BY InvParts DEF TypeOK, Measures
    <3>4. IsFresh(Popped(Scanned(l, linked), n))
      BY <3>2, <3>3, EvictedIsFresh
    <3>5. QED
      BY <3>2, <3>4
  <2>2. CASE ~capped'
    BY <2>2, EmptyIsFresh DEF CrashRestart
  <2>3. QED
    BY <2>1, <2>2
<1>5. E!Restart
  BY <1>3, <1>4, SameFresh DEF E!Restart, Debts, Owing
<1>6. QED
  BY <1>2, <1>5 DEF E!Next, Cold

LEMMA MildKeepsCold == ASSUME Cold, NEW p \in Proc, Seen(p) PROVE Cold'
<1>1. \A q \in Proc : proc'[q].oversized => ~Fits(Size[proc'[q].key])
  BY DEF Cold, Seen, Mild, Alone
<1>2. QED
  BY <1>1 DEF Cold, Fits

LEMMA NextIsSeen == Inv /\ Inv' /\ Cold /\ [Next]_vars => [E!Next]_(E!vars) /\ Cold'
<1> SUFFICES ASSUME Inv, Inv', Cold, [Next]_vars PROVE [E!Next]_(E!vars) /\ Cold'
  OBVIOUS
<1>1. CASE UNCHANGED vars
  <2>1. UNCHANGED <<index, proc>>
    BY <1>1 DEF vars
  <2>2. QED
    BY <2>1, Unseen DEF Cold, Fits
<1>2. CASE CrashRestart
  BY <1>2, RestartIsSeen
<1>3. ASSUME NEW p \in Proc, Arrive(p) \/ Step(p) PROVE Seen(p)
  <2>1. CASE Minds(p)
    BY <2>1, MindsIsQuiet, QuietIsSeen
  <2>2. CASE Reserve(p) \/ BookWritten(p)
    <3>1. /\ Size[proc[p].key] \in 0..MaxEntry /\ proc[p].written \in 0..MaxEntry
          /\ proc[p].written <= Size[proc[p].key] /\ Size[proc[p].key] <= Size[proc[p].key]
      BY OwnFrame, InvParts, Sizes DEF Frame, Work
    <3>2. CASE Reserve(p)
      <4>1. Book(p, Size[proc[p].key], "claim") /\ proc[p].pc = "reserve" /\ UNCHANGED capped
        BY <3>2 DEF Reserve, At, mem
      <4>2. QED
        BY <3>1, <4>1, BookIsSeen
    <3>3. CASE BookWritten(p)
      <4>1. Book(p, proc[p].written, "copy") /\ proc[p].pc = "book" /\ UNCHANGED capped
        BY <3>3 DEF BookWritten, At, mem
      <4>2. QED
        BY <3>1, <4>1, BookIsSeen
    <3>4. QED
      BY <2>2, <3>2, <3>3
  <2>3. CASE \/ TouchHead(p) \/ Touch(p) \/ Evict(p) \/ Unlink(p) \/ FreeOne(p) \/ Close(p)
             \/ Settle(p) \/ Add(p)
    BY <2>3, TouchIsSeen, EvictIsSeen, FreeOneIsSeen, FilesMoveUnseen, SettleIsSeen, AddIsSeen
  <2>4. QED
    BY <1>3, <2>1, <2>2, <2>3 DEF Step, Minds
<1>4. QED
  BY <1>1, <1>2, <1>3, MildKeepsCold DEF Next, Seen

(* The blob cache drives the evictor as the evictor expects: whatever the  *)
(* requests and the faults, its steps are the evictor's or invisible to it.*)
(* So the cap, the accounting and the order of eviction hold of it too.    *)
THEOREM CacheDrivesEvictor == Spec => DrivesEvictor
<1>1. Init => E!Init /\ Cold
  <2> SUFFICES ASSUME Init PROVE E!Init /\ Cold
    OBVIOUS
  <2>1. proc = [q \in Proc |-> Idle(AnyKey)]
    BY DEF Init
  <2>2. \A q \in Proc : proc[q].pc # "evict" /\ ~proc[q].oversized
    BY <2>1 DEF Idle
  <2>3. Debts = 0
    <3>1. Owing = {}
      BY <2>2 DEF Owing, At
    <3>2. QED
      BY <3>1, FS_EmptySet DEF Debts
  <2>4. E!IsFresh(index)
    BY EmptyIsFresh, SameFresh DEF Init
  <2>5. QED
    BY <2>2, <2>3, <2>4 DEF E!Init, Debts, Owing, Cold
<1>2. QED
  BY <1>1, SpecKeepsInv, NextIsSeen, PTL DEF Spec, DrivesEvictor, E!Spec
-----------------------------------------------------------------------------
(* No file escapes the cap. *)
LEMMA HeldFiles ==
  ASSUME NEW k
  PROVE  /\ k \in InCommit <=> \E p \in Proc : Commits(proc[p]) /\ k = proc[p].key
         /\ k \in Doomed <=> \E p \in Proc : k \in ToSet(proc[p].victims)
  BY DEF InCommit, Committing, Commits, Settling, At, Doomed

(* A file stays held, by the index or by a goroutine. *)
Held(k) ==
  \/ k \in DOMAIN index.entries
  \/ \E p \in Proc : Commits(proc[p]) /\ k = proc[p].key
  \/ \E p \in Proc : k \in ToSet(proc[p].victims)

AllHeld == capped => \A k \in DOMAIN linked : Held(k)

LEMMA AllHeldIs == FilesIndexed <=> AllHeld
  BY HeldFiles DEF FilesIndexed, AllHeld, Held

(* The three ways a step leaves a file held. *)
LEMMA HeldNext ==
  ASSUME NEW k,
         \/ k \in DOMAIN index'.entries
         \/ \E q \in Proc : Commits(proc'[q]) /\ k = proc'[q].key
         \/ \E q \in Proc : k \in ToSet(proc'[q].victims)
  PROVE  Held(k)'
  BY DEF Held, Commits

LEMMA KeepingHolds ==
  ASSUME NEW p \in Proc, Keeping(proc[p], proc'[p]), Alone(p),
         DOMAIN index.entries \subseteq DOMAIN index'.entries, NEW k, Held(k)
  PROVE  Held(k)'
<1>1. \A q \in Proc : Keeping(proc[q], proc'[q])
  BY DEF Alone, Keeping
<1>2. QED
  BY <1>1, HeldNext DEF Held, Keeping

LEMMA KeepingStep ==
  ASSUME AllHeld, NEW p \in Proc, Keeping(proc[p], proc'[p]), Alone(p),
         DOMAIN index.entries \subseteq DOMAIN index'.entries, UNCHANGED <<capped, linked>>
  PROVE  AllHeld'
<1> SUFFICES ASSUME capped', NEW k \in DOMAIN linked' PROVE Held(k)'
  BY DEF AllHeld
<1>1. Held(k)
  BY DEF AllHeld
<1>2. QED
  BY <1>1, KeepingHolds

(* Whoever leaves the index alone keeps what is in it. *)
LEMMA TouchHolds == ASSUME Inv, AllHeld, NEW p \in Proc, TouchHead(p) \/ Touch(p) PROVE AllHeld'
<1>1. /\ index' = Touched(index, proc[p].key) /\ proc[p].key \in Key /\ UNCHANGED <<capped, linked>>
      /\ proc[p].pc \notin {"evict", "unlink"} /\ ~Commits(proc[p])
      /\ \/ Locals(p, Idle(AnyKey))
         \/ Locals(p, [Idle(proc[p].key) EXCEPT !.pc = "serve", !.answer = "ok"])
  BY OwnFrame DEF TouchHead, Touch, At, Finish, Frame, mem, disk, Commits, Settling
<1>2. Keeping(proc[p], proc'[p]) /\ Alone(p)
  <2> DEFINE v == Idle(AnyKey)
             w == [Idle(proc[p].key) EXCEPT !.pc = "serve", !.answer = "ok"]
  <2>1. /\ v.pc # "evict" /\ ~v.oversized /\ v.victims = <<>>
        /\ w.pc # "evict" /\ ~w.oversized /\ w.victims = <<>>
    BY DEF Idle
  <2>2. Locals(p, v) \/ Locals(p, w)
    BY <1>1
  <2> HIDE DEF v, w
  <2>3. QED
    BY <1>1, <2>1, <2>2, StartsOver
<1>3. index'.entries = index.entries
  BY <1>1, TouchedKeeps, InvParts DEF Capping
<1>4. QED
  BY <1>1, <1>2, <1>3, KeepingStep

LEMMA BookHolds ==
  ASSUME Inv, AllHeld, NEW p \in Proc, Reserve(p) \/ BookWritten(p) \/ Settle(p)
  PROVE  AllHeld'
<1>1. UNCHANGED <<capped, linked>>
  BY DEF Reserve, BookWritten, Settle, mem, disk
<1>2. index'.entries = index.entries
  <2>1. index \in Index
    BY InvParts DEF Capping, Sound, WellFormed
  <2>2. CASE Settle(p)
    <3>1. index' = index \/ index' = Released(index, proc[p].booked)
      BY <2>2 DEF Settle
    <3>2. QED
      BY <2>1, <3>1 DEF Released, Index
  <2>3. ASSUME NEW total, NEW next, Book(p, total, next) PROVE index'.entries = index.entries
    <3>1. \/ index' = index
          \/ index' = Released(index, proc[p].booked)
          \/ index' = Reserved(index, total - proc[p].booked)
      BY <2>3 DEF Book
    <3>2. QED
      BY <2>1, <3>1 DEF Released, Reserved, Index
  <2>4. QED
    BY <2>2, <2>3 DEF Reserve, BookWritten
<1>3. ASSUME NEW w, Locals(p, w), w.victims = proc[p].victims,
             Commits(proc[p]) => Commits(w) /\ w.key = proc[p].key
      PROVE  AllHeld'
  BY <1>1, <1>2, <1>3, AloneStep, KeepingStep DEF Keeping
<1>4. CASE Settle(p)
  <2> DEFINE w == [proc[p] EXCEPT !.pc = "settleDisk", !.booked = 0]
  <2>1. proc[p].pc = "settle" /\ Locals(p, w)
    BY <1>4 DEF Settle, At
  <2>2. /\ w.pc = "settleDisk" /\ w.then = proc[p].then /\ w.key = proc[p].key
        /\ w.victims = proc[p].victims
    BY OwnFrame DEF Frame
  <2> HIDE DEF w
  <2>3. QED
    BY <1>3, <2>1, <2>2 DEF Commits, Settling
<1>5. ASSUME NEW total, NEW next, Book(p, total, next), proc[p].pc \in {"reserve", "book"}
      PROVE  AllHeld'
  <2> DEFINE u == [proc[p] EXCEPT !.pc = next]
             v == [proc[p] EXCEPT !.pc = next, !.oversized = TRUE, !.booked = 0]
             w == [proc[p] EXCEPT !.pc = IF capped THEN "evict" ELSE next,
                                  !.then = next, !.booked = total]
  <2>1. Locals(p, u) \/ Locals(p, v) \/ Locals(p, w)
    BY <1>5 DEF Book, Goto
  <2>2. u.victims = proc[p].victims /\ v.victims = proc[p].victims /\ w.victims = proc[p].victims
    BY OwnFrame DEF Frame
  <2> HIDE DEF u, v, w
  <2>3. ~Commits(proc[p])
    BY <1>5 DEF Commits, Settling
  <2>4. QED
    BY <1>3, <2>1, <2>2, <2>3
<1>6. QED
  BY <1>4, <1>5 DEF Reserve, BookWritten, At

(* What is popped is taken over by its victims' goroutine. *)
LEMMA PopHolds ==
  ASSUME Inv, AllHeld, NEW p \in Proc, NEW w, Locals(p, w), NEW n \in 0..Len(index.lru),
         index' = Popped(index, n), w.victims = Victims(index, n), proc[p].pc # "unlink",
         ~Commits(proc[p]), UNCHANGED <<capped, linked>>
  PROVE  AllHeld'
<1>1. proc'[p] = w /\ Alone(p) /\ proc[p].victims = <<>>
  BY AloneStep, InvParts DEF Work
<1>2. Sound(index)
  BY InvParts DEF Capping
<1>3. DOMAIN index'.entries = DOMAIN index.entries \ Coldest(index, n)
  BY <1>2, PoppedKeeps
<1>4. ToSet(proc'[p].victims) = Coldest(index, n)
  BY <1>1, <1>2, VictimsArePopped
<1>5. ToSet(proc[p].victims) = {}
  BY <1>1 DEF ToSet
<1> SUFFICES ASSUME capped', NEW k \in DOMAIN linked' PROVE Held(k)'
  BY DEF AllHeld
<1>6. Held(k)
  BY DEF AllHeld
<1>7. QED
  BY <1>1, <1>3, <1>4, <1>5, <1>6, HeldNext DEF Held, Alone

LEMMA EvictHolds == ASSUME Inv, AllHeld, NEW p \in Proc, Evict(p) PROVE AllHeld'
<1>1. PICK n \in 0..Len(index.lru) :
        /\ index' = Popped(index, n)
        /\ Locals(p, [proc[p] EXCEPT !.victims = Victims(index, n),
                       !.pc = IF n = 0 THEN proc[p].then ELSE "unlink"])
  BY DEF Evict
<1> DEFINE w == [proc[p] EXCEPT !.victims = Victims(index, n),
                                !.pc = IF n = 0 THEN proc[p].then ELSE "unlink"]
<1>2. w.victims = Victims(index, n)
  BY OwnFrame DEF Frame
<1>3. Locals(p, w)
  BY <1>1
<1> HIDE DEF w
<1>4. proc[p].pc # "unlink" /\ ~Commits(proc[p]) /\ UNCHANGED <<capped, linked>>
  BY DEF Evict, At, Commits, Settling, mem, disk
<1>5. QED
  BY <1>1, <1>2, <1>3, <1>4, PopHolds

LEMMA FreeOneHolds == ASSUME Inv, AllHeld, NEW p \in Proc, FreeOne(p) PROVE AllHeld'
<1>1. proc[p].pc \notin {"unlink", "evict"} /\ ~Commits(proc[p]) /\ UNCHANGED <<capped, linked>>
  BY DEF FreeOne, At, Commits, Settling, disk
<1>2. CASE Refuse(p) /\ UNCHANGED index
  <2>1. Fail(p, "insufficient") /\ "insufficient" \in Answers
    BY <1>2 DEF Refuse, Answers
  <2>2. QED
    BY <1>1, <1>2, <2>1, FailGoesOn, KeepingStep
<1>3. CASE /\ index.lru # <<>> /\ index' = Popped(index, 1)
           /\ Locals(p, [proc[p] EXCEPT !.pc = "unlink", !.then = "measure",
                                        !.victims = Victims(index, 1)])
  <2> DEFINE w == [proc[p] EXCEPT !.pc = "unlink", !.then = "measure",
                                  !.victims = Victims(index, 1)]
  <2>1. w.victims = Victims(index, 1)
    BY OwnFrame DEF Frame
  <2>2. Locals(p, w)
    BY <1>3
  <2> HIDE DEF w
  <2>3. 1 \in 0..Len(index.lru)
    <3>1. index.lru \in Seq(Key) /\ Len(index.lru) \in Nat
      BY SoundParts, LenProperties DEF Inv, Capping
    <3>2. QED
      BY <1>3, <3>1, EmptySeq
  <2>4. QED
    BY <1>1, <1>3, <2>1, <2>2, <2>3, PopHolds
<1>4. QED
  BY <1>2, <1>3 DEF FreeOne

(* A file that is unlinked need not be held. *)
LEMMA UnlinkHolds ==
  ASSUME Inv, AllHeld, NEW p \in Proc, Unlink(p), "unlink" \notin Faults
  PROVE  AllHeld'
<1> DEFINE v == proc[p].victims
           w == [proc[p] EXCEPT !.victims = Tail(v),
                                !.pc = IF Tail(v) = <<>> THEN proc[p].then ELSE "unlink"]
<1>1. /\ proc[p].pc = "unlink" /\ RemoveFile(Head(v)) /\ Locals(p, w)
      /\ index' = index /\ capped' = capped
  BY DEF Unlink, At, mem
<1>2. v \in Seq(Key) /\ Once(v) /\ v # <<>>
  BY <1>1, InvParts DEF Work, OnlyVictims, Frame
<1>3. ToSet(Tail(v)) = ToSet(v) \ {Head(v)}
  BY <1>2, UnlinkedOne
<1>4. w.victims = Tail(v) /\ w.key = proc[p].key
  BY OwnFrame DEF Frame
<1> HIDE DEF w
<1>5. proc'[p] = w /\ Alone(p)
  BY <1>1, AloneStep
<1>6. DOMAIN linked' = DOMAIN linked \ {Head(v)}
  BY <1>1 DEF RemoveFile
<1>7. ~Commits(proc[p])
  BY <1>1 DEF Commits, Settling
<1> SUFFICES ASSUME capped', NEW k \in DOMAIN linked' PROVE Held(k)'
  BY DEF AllHeld
<1>8. Held(k) /\ k # Head(v)
  BY <1>1, <1>6 DEF AllHeld
<1>9. CASE k \in ToSet(v)
  BY <1>3, <1>4, <1>5, <1>8, <1>9, HeldNext
<1>10. CASE k \notin ToSet(v)
  BY <1>1, <1>5, <1>7, <1>8, <1>10, HeldNext DEF Held, Alone
<1>11. QED
  BY <1>9, <1>10

LEMMA CloseHolds == ASSUME Inv, AllHeld, NEW p \in Proc, Close(p) PROVE AllHeld'
<1> DEFINE v == [proc[p] EXCEPT !.pc = "settle", !.then = "add", !.tmp = FALSE]
           w == [proc[p] EXCEPT !.pc = "settle", !.then = "unlock", !.tmp = FALSE,
                                !.answer = "badGateway"]
<1>1. /\ UNCHANGED <<index, capped>> /\ ~Commits(proc[p])
      /\ \/ Locals(p, v) /\ DOMAIN linked' = DOMAIN linked \cup {proc[p].key}
         \/ Locals(p, w) /\ UNCHANGED linked
  BY DEF Close, At, mem, Commits, Settling
<1>2. /\ v.pc = "settle" /\ v.then = "add" /\ v.key = proc[p].key /\ v.victims = proc[p].victims
      /\ w.victims = proc[p].victims
  BY OwnFrame DEF Frame
<1> HIDE DEF v, w
<1>3. CASE Locals(p, w) /\ UNCHANGED linked
  BY <1>1, <1>2, <1>3, AloneStep, KeepingStep DEF Keeping
<1>4. CASE Locals(p, v) /\ DOMAIN linked' = DOMAIN linked \cup {proc[p].key}
  <2>1. proc'[p] = v /\ Alone(p) /\ Commits(proc'[p]) /\ proc'[p].key = proc[p].key
    BY <1>2, <1>4, AloneStep DEF Commits, Settling
  <2>2. Keeping(proc[p], proc'[p])
    BY <1>1, <1>2, <2>1 DEF Keeping
  <2> SUFFICES ASSUME capped', NEW k \in DOMAIN linked' PROVE Held(k)'
    BY DEF AllHeld
  <2>3. CASE k = proc[p].key
    BY <2>1, <2>3, HeldNext
  <2>4. CASE k # proc[p].key
    <3>1. Held(k)
      BY <1>1, <1>4, <2>4 DEF AllHeld
    <3>2. QED
      BY <1>1, <2>1, <2>2, <3>1, KeepingHolds
  <2>5. QED
    BY <2>3, <2>4
<1>5. QED
  BY <1>1, <1>3, <1>4

LEMMA AddHolds == ASSUME Inv, AllHeld, NEW p \in Proc, Add(p) PROVE AllHeld'
<1> DEFINE k == proc[p].key
           size == proc[p].written
           cold == proc[p].oversized
           w == [proc[p] EXCEPT !.then = "reopen",
                                !.pc = IF capped /\ ~cold THEN "evict" ELSE "reopen"]
<1>1. /\ Locals(p, w) /\ UNCHANGED <<capped, linked>>
      /\ index' = IF capped THEN Added(index, k, size, cold) ELSE index
  BY DEF Add, mem, disk
<1>2. w.victims = proc[p].victims
  BY OwnFrame DEF Frame
<1> HIDE DEF w
<1>3. proc'[p] = w /\ Alone(p)
  BY <1>1, AloneStep
<1>4. k \in Key /\ size \in 0..MaxEntry /\ cold \in BOOLEAN /\ Sound(index)
  BY OwnFrame, InvParts DEF Frame, Capping
<1> SUFFICES ASSUME capped', NEW x \in DOMAIN linked' PROVE Held(x)'
  BY DEF AllHeld
<1>5. index' = Added(index, k, size, cold)
  BY <1>1
<1> HIDE DEF size, cold
<1>6. DOMAIN index'.entries = DOMAIN index.entries \cup {k}
  <2> HIDE DEF k
  <2>1. /\ Sound(index')
        /\ DOMAIN index'.entries = DOMAIN index.entries \cup {k}
        /\ index'.entries[k] = [size |-> size, cold |-> cold]
        /\ \A y \in DOMAIN index.entries \ {k} : index'.entries[y] = index.entries[y]
        /\ index'.inflight = index.inflight
    BY <1>4, <1>5, AddedKeeps
  <2>2. QED
    BY <2>1
<1>7. Held(x)
  BY <1>1 DEF AllHeld
<1>8. QED
  BY <1>2, <1>3, <1>6, <1>7, HeldNext DEF Held, Alone

LEMMA NextHolds ==
  ASSUME "unlink" \notin Faults
  PROVE  Inv /\ AllHeld /\ [Next]_vars => AllHeld'
<1> SUFFICES ASSUME Inv, AllHeld, [Next]_vars PROVE AllHeld'
  OBVIOUS
<1>1. CASE UNCHANGED vars
  <2>1. UNCHANGED <<capped, index, linked, proc>>
    BY <1>1 DEF vars
  <2>2. QED
    BY <2>1 DEF AllHeld, Held, Commits
<1>2. CASE CrashRestart
  <2>1. capped' => DOMAIN linked' = DOMAIN index'.entries
    BY <1>2 DEF CrashRestart
  <2>2. QED
    BY <2>1 DEF AllHeld, Held
<1>3. ASSUME NEW p \in Proc, Arrive(p) \/ Step(p) PROVE AllHeld'
  <2>1. CASE Minds(p)
    <3>1. Quiet(p)
      BY <2>1, MindsIsQuiet
    <3>2. QED
      BY <3>1, KeepingStep DEF Quiet
  <2>2. CASE TouchHead(p) \/ Touch(p) \/ Reserve(p) \/ BookWritten(p) \/ Settle(p)
    BY <2>2, TouchHolds, BookHolds
  <2>3. CASE Evict(p) \/ FreeOne(p) \/ Unlink(p) \/ Close(p) \/ Add(p)
    BY <2>3, EvictHolds, FreeOneHolds, UnlinkHolds, CloseHolds, AddHolds
  <2>4. QED
    BY <1>3, <2>1, <2>2, <2>3 DEF Step, Minds
<1>4. QED
  BY <1>1, <1>2, <1>3 DEF Next

(* As long as no os.Remove of a victim fails, every committed file is in   *)
(* the index, about to be added by its writer or about to be unlinked:     *)
(* none escapes the cap.                                                   *)
THEOREM NoFileEscapes ==
  ASSUME "unlink" \notin Faults
  PROVE  Spec => []FilesIndexed
<1>1. Init => AllHeld
  BY DEF Init, AllHeld
<1>2. Inv /\ AllHeld /\ [Next]_vars => AllHeld'
  BY NextHolds
<1>3. Spec => []AllHeld
  BY <1>1, <1>2, SpecKeepsInv, PTL DEF Spec
<1>4. QED
  BY <1>3, AllHeldIs, PTL

-----------------------------------------------------------------------------
(* What the evictor counts covers what is on disk. *)

(* More functions, larger values: a larger sum. *)
LEMMA TotalMonotonic ==
  ASSUME NEW W, IsFiniteSet(W), NEW g \in [W -> 0..MaxEntry],
         NEW D \in SUBSET W, NEW f, DOMAIN f = D, \A x \in D : f[x] \in 0..MaxEntry /\ f[x] <= g[x]
  PROVE  Total(f) <= Total(g) /\ Total(f) \in Nat /\ Total(g) \in Nat
<1>1. IsFiniteSet(D)
  BY FS_Subset
<1>2. /\ Total(f) = Cardinality(Units(f)) /\ Total(f) \in Nat
      /\ IsFiniteSet(Units(g)) /\ Total(g) = Cardinality(Units(g)) /\ Total(g) \in Nat
  BY <1>1, TotalIsNat
<1>3. Units(f) \in SUBSET Units(g)
  <2> SUFFICES ASSUME NEW b \in Units(f) PROVE b \in Units(g)
    OBVIOUS
  <2>1. b \in D \X (1..MaxEntry) /\ b[2] <= f[b[1]]
    BY DEF Units
  <2>2. /\ b \in W \X (1..MaxEntry) /\ b[1] \in D /\ b[2] \in 1..MaxEntry
        /\ f[b[1]] \in 0..MaxEntry /\ f[b[1]] <= g[b[1]] /\ g[b[1]] \in 0..MaxEntry
    BY <2>1
  <2>3. b[2] <= g[b[1]]
    BY <2>1, <2>2, SizeAssumption
  <2>4. QED
    BY <2>2, <2>3 DEF Units
<1>4. QED
  BY <1>2, <1>3, FS_Subset

(* A writer that is counted has booked what it has written, but for the byte *)
(* it has written last.                                                      *)
Before(w) == w.pc \in {"stat", "lock", "open", "put"}

Uncounted(w) == w.oversized \/ w.pc \in {"settleDisk", "add", "remove"}

Late(w) == IF w.pc \in {"landed", "book"} THEN 1 ELSE 0

Paid(w) ==
  /\ Before(w) => w.written = 0
  /\ (w.tmp \/ w.pc = "settle") /\ ~Uncounted(w) => w.written <= w.booked + Late(w)
  /\ w.tmp /\ w.pc \in Settling => w.then = "remove"

AllPaid == \A p \in Proc : Paid(proc[p])

LEMMA PaidStep ==
  ASSUME Inv, AllPaid, NEW p \in Proc, NEW w, Locals(p, w), Paid(w)
  PROVE  AllPaid'
<1>1. proc'[p] = w /\ \A q \in Proc : q # p => proc'[q] = proc[q]
  BY AloneStep DEF Alone
<1>2. \A q \in Proc : Paid(proc'[q])
  BY <1>1 DEF AllPaid
<1>3. QED
  BY <1>2 DEF AllPaid, Paid, Before, Uncounted, Late, Settling

LEMMA IdlePaid == ASSUME NEW k PROVE Paid(Idle(k))
  BY DEF Idle, Paid, Settling, Before, Late

(* Steps that write nothing and book nothing. *)
LEMMA PaidOnwards ==
  ASSUME Inv, AllPaid, NEW p \in Proc, NEW w, Locals(p, w),
         w.written = proc[p].written, w.booked = proc[p].booked, w.oversized = proc[p].oversized,
         w.tmp \/ w.pc = "settle" => proc[p].tmp, Before(w) => Before(proc[p]),
         w.tmp \/ w.pc = "settle" => ~Uncounted(proc[p]) \/ Uncounted(w),
         proc[p].pc \notin {"landed", "book"},
         w.tmp /\ w.pc \in Settling => w.then = "remove"
  PROVE  AllPaid'
<1>1. Paid(proc[p]) /\ w.written \in Nat /\ w.booked \in Nat
  BY OwnFrame DEF AllPaid, Frame
<1>2. Paid(w)
  BY <1>1 DEF Paid, Late
<1>3. QED
  BY <1>2, PaidStep

LEMMA QuietPaid ==
  ASSUME Inv, AllPaid, NEW p \in Proc,
         \/ Arrive(p) \/ Stat(p) \/ TouchHead(p) \/ Lock(p) \/ Open(p) \/ Touch(p)
         \/ Serve(p) \/ Leave(p) \/ CreateTemp(p) \/ Respond(p) \/ Evict(p) \/ Unlink(p)
         \/ RemoveTemp(p)
  PROVE  AllPaid'
<1> USE OwnFrame DEF Frame, At, Goto, Finish, Fail
<1>1. CASE Arrive(p)
  <2>1. PICK k \in Key, first \in {"lock", "stat"} : Locals(p, [Idle(k) EXCEPT !.pc = first])
    BY <1>1 DEF Arrive
  <2>2. Paid([Idle(k) EXCEPT !.pc = first])
    BY DEF Idle, Paid, Settling, Before, Late
  <2>3. QED
    BY <2>1, <2>2, PaidStep
<1>2. CASE TouchHead(p) \/ Serve(p) \/ Leave(p) \/ RemoveTemp(p)
  <2>1. Locals(p, Idle(AnyKey))
    BY <1>2 DEF TouchHead, Serve, Leave, RemoveTemp
  <2>2. QED
    BY <2>1, IdlePaid, PaidStep
<1>3. CASE Touch(p)
  <2>1. Locals(p, [Idle(proc[p].key) EXCEPT !.pc = "serve", !.answer = "ok"])
    BY <1>3 DEF Touch
  <2>2. Paid([Idle(proc[p].key) EXCEPT !.pc = "serve", !.answer = "ok"])
    BY DEF Idle, Paid, Settling, Before, Late
  <2>3. QED
    BY <2>1, <2>2, PaidStep
<1>4. CASE Stat(p)
  <2> DEFINE w == [proc[p] EXCEPT !.pc = IF proc[p].key \in DOMAIN linked THEN "head" ELSE "lock"]
  <2>1. Locals(p, w) /\ proc[p].pc = "stat"
    BY <1>4 DEF Stat
  <2>2. /\ w.written = proc[p].written /\ w.booked = proc[p].booked
        /\ w.oversized = proc[p].oversized /\ w.tmp = proc[p].tmp /\ w.pc \in {"head", "lock"}
    OBVIOUS
  <2> HIDE DEF w
  <2>3. QED
    BY <2>1, <2>2, PaidOnwards, InvParts DEF Before, Uncounted, Late, Settling, Work, Locked
<1>5. CASE Lock(p)
  <2> DEFINE w == [proc[p] EXCEPT !.pc = "open"]
  <2>1. Locals(p, w) /\ proc[p].pc = "lock" /\ w.pc = "open"
    BY <1>5 DEF Lock
  <2>2. /\ w.written = proc[p].written /\ w.booked = proc[p].booked
        /\ w.oversized = proc[p].oversized /\ w.tmp = proc[p].tmp
    OBVIOUS
  <2> HIDE DEF w
  <2>3. QED
    BY <2>1, <2>2, PaidOnwards DEF Before, Uncounted, Late, Settling
<1>6. CASE Open(p)
  <2> DEFINE v == [proc[p] EXCEPT !.pc = "touch"]
             u == [proc[p] EXCEPT !.pc = "put"]
             w == [proc[p] EXCEPT !.pc = "unlock", !.answer = "notFound"]
  <2>1. /\ proc[p].pc \in {"open", "reopen"}
        /\ Locals(p, v) \/ (Locals(p, u) /\ proc[p].pc = "open") \/ Locals(p, w)
    <3>1. proc[p].pc \in {"open", "reopen"}
      BY <1>6 DEF Open
    <3>2. CASE proc[p].key \in DOMAIN linked
      BY <1>6, <3>1, <3>2 DEF Open
    <3>3. CASE proc[p].key \notin DOMAIN linked
      BY <1>6, <3>1, <3>3 DEF Open
    <3>4. QED
      BY <3>1, <3>2, <3>3
  <2>2. \A x \in {u, v, w} :
          /\ x.written = proc[p].written /\ x.booked = proc[p].booked
          /\ x.oversized = proc[p].oversized /\ x.tmp = proc[p].tmp
    OBVIOUS
  <2>3. u.pc = "put" /\ v.pc = "touch" /\ w.pc = "unlock"
    OBVIOUS
  <2> HIDE DEF u, v, w
  <2>4. ASSUME NEW x \in {u, v, w}, Locals(p, x), x.pc = "put" => proc[p].pc = "open"
        PROVE  AllPaid'
    BY <2>1, <2>2, <2>3, <2>4, PaidOnwards DEF Before, Uncounted, Late, Settling
  <2>5. QED
    BY <2>1, <2>3, <2>4
<1>7. CASE CreateTemp(p)
  <2> DEFINE v == [proc[p] EXCEPT !.pc = "fetch", !.tmp = TRUE]
             w == [proc[p] EXCEPT !.pc = "unlock", !.answer = "badGateway"]
  <2>1. proc[p].pc = "put" /\ (Locals(p, v) \/ Locals(p, w))
    BY <1>7 DEF CreateTemp
  <2>2. v.written = proc[p].written /\ v.booked = proc[p].booked /\ v.pc = "fetch"
    OBVIOUS
  <2>3. /\ w.written = proc[p].written /\ w.booked = proc[p].booked
        /\ w.oversized = proc[p].oversized /\ w.tmp = proc[p].tmp /\ w.pc = "unlock"
    OBVIOUS
  <2>4. proc[p].written = 0 /\ proc[p].booked \in Nat
    BY <2>1, Sizes DEF AllPaid, Paid, Before
  <2> HIDE DEF v, w
  <2>5. CASE Locals(p, v)
    <3>1. Paid(v)
      BY <2>2, <2>4 DEF Paid, Settling, Before, Late
    <3>2. QED
      BY <2>5, <3>1, PaidStep
  <2>6. CASE Locals(p, w)
    BY <2>1, <2>3, <2>6, PaidOnwards DEF Before, Uncounted, Late, Settling
  <2>7. QED
    BY <2>1, <2>5, <2>6
<1>8. CASE Respond(p)
  <2>1. CASE \E answer \in {"notFound", "badGateway"} : Fail(p, answer)
    <3>1. PICK answer \in {"notFound", "badGateway"} : Fail(p, answer)
      BY <2>1
    <3> DEFINE w == [proc[p] EXCEPT !.pc = "settle", !.then = "remove", !.answer = answer]
    <3>2. Locals(p, w) /\ proc[p].pc = "fetch" /\ proc[p].tmp
      BY <1>8, <3>1, InvParts DEF Respond, Work, Writing
    <3>3. /\ w.written = proc[p].written /\ w.booked = proc[p].booked
          /\ w.oversized = proc[p].oversized /\ w.tmp = proc[p].tmp /\ w.pc = "settle"
          /\ w.then = "remove"
      OBVIOUS
    <3> HIDE DEF w
    <3>4. QED
      BY <3>2, <3>3, PaidOnwards DEF Before, Uncounted, Late, Settling
  <2>2. ASSUME NEW pc \in {"reserve", "copy"}, Goto(p, pc) PROVE AllPaid'
    <3> DEFINE w == [proc[p] EXCEPT !.pc = pc]
    <3>1. Locals(p, w) /\ proc[p].pc = "fetch"
      BY <1>8, <2>2 DEF Respond
    <3>2. /\ w.written = proc[p].written /\ w.booked = proc[p].booked
          /\ w.oversized = proc[p].oversized /\ w.tmp = proc[p].tmp /\ w.pc = pc
      OBVIOUS
    <3> HIDE DEF w
    <3>3. QED
      BY <3>1, <3>2, PaidOnwards DEF Before, Uncounted, Late, Settling
  <2>3. QED
    BY <1>8, <2>1, <2>2 DEF Respond
<1>9. CASE Evict(p) \/ Unlink(p)
  <2>1. PICK v, pc : /\ Locals(p, [proc[p] EXCEPT !.victims = v, !.pc = pc])
                     /\ pc = proc[p].then \/ pc = "unlink"
    BY <1>9 DEF Evict, Unlink
  <2> DEFINE w == [proc[p] EXCEPT !.victims = v, !.pc = pc]
  <2>2. /\ w.written = proc[p].written /\ w.booked = proc[p].booked
        /\ w.oversized = proc[p].oversized /\ w.tmp = proc[p].tmp /\ w.pc = pc
    OBVIOUS
  <2>3. Locals(p, w)
    BY <2>1
  <2> HIDE DEF w
  <2>4. proc[p].pc \in Evicting /\ proc[p].then \in {"claim", "copy", "measure", "reopen"}
    BY <1>9, InvParts DEF Evict, Unlink, Work, Evicting
  <2>5. QED
    BY <2>1, <2>2, <2>3, <2>4, PaidOnwards DEF Before, Uncounted, Late, Settling, Evicting
<1>10. QED
  BY <1>1, <1>2, <1>3, <1>4, <1>5, <1>6, <1>7, <1>8, <1>9

(* book raises what is booked to what is written, or stops counting. *)
LEMMA BookPaid ==
  ASSUME Inv, AllPaid, NEW p \in Proc, NEW total \in Nat, NEW next \in {"claim", "copy"},
         Book(p, total, next), proc[p].written <= total
  PROVE  AllPaid'
<1> DEFINE u == [proc[p] EXCEPT !.pc = next]
           v == [proc[p] EXCEPT !.pc = next, !.oversized = TRUE, !.booked = 0]
           x == [proc[p] EXCEPT !.pc = IF capped THEN "evict" ELSE next,
                                !.then = next, !.booked = total]
<1>1. /\ u.written = proc[p].written /\ u.booked = proc[p].booked /\ u.pc = next
      /\ u.oversized = proc[p].oversized
      /\ v.oversized /\ v.pc = next
      /\ x.written = proc[p].written /\ x.booked = total /\ x.pc \in {"evict", next}
  BY OwnFrame DEF Frame
<1>2. /\ proc[p].written \in Nat /\ proc[p].booked \in Nat
  BY OwnFrame, Sizes DEF Frame
<1>3. \/ Locals(p, u) /\ (proc[p].oversized \/ total <= proc[p].booked)
      \/ Locals(p, v) \/ Locals(p, x)
  BY DEF Book, Goto
<1> HIDE DEF u, v, x
<1>4. (proc[p].oversized \/ total <= proc[p].booked) => Paid(u)
  BY <1>1, <1>2 DEF Paid, Settling, Before, Uncounted, Late
<1>5. Paid(v) /\ Paid(x)
  BY <1>1, <1>2 DEF Paid, Settling, Before, Uncounted, Late
<1>6. QED
  BY <1>3, <1>4, <1>5, PaidStep

LEMMA StepPaid == ASSUME Inv, AllPaid, NEW p \in Proc, Arrive(p) \/ Step(p) PROVE AllPaid'
<1> USE OwnFrame DEF Frame, At, Goto, Fail
<1>1. /\ proc[p].written \in Nat /\ proc[p].booked \in Nat /\ proc[p].due \in Nat
      /\ proc[p].written <= Size[proc[p].key] /\ Size[proc[p].key] \in Nat
      /\ Paid(proc[p])
  BY InvParts, Sizes DEF Work, AllPaid
<1>2. CASE Reserve(p) \/ BookWritten(p)
  BY <1>1, <1>2, BookPaid DEF Reserve, BookWritten
<1>3. ASSUME NEW answer, NEW pc, Locals(p, [proc[p] EXCEPT !.pc = "settle", !.then = "remove", !.answer = answer]),
             proc[p].pc \in {"claim", "measure", "free", "copy"}
      PROVE  AllPaid'
  <2>0. proc[p].tmp
    BY <1>3, InvParts DEF Work, Writing
  <2> DEFINE w == [proc[p] EXCEPT !.pc = "settle", !.then = "remove", !.answer = answer]
  <2>1. /\ w.written = proc[p].written /\ w.booked = proc[p].booked
        /\ w.oversized = proc[p].oversized /\ w.tmp = proc[p].tmp /\ w.pc = "settle"
        /\ w.then = "remove"
    OBVIOUS
  <2>2. Locals(p, w)
    BY <1>3
  <2> HIDE DEF w
  <2>3. QED
    BY <1>3, <2>0, <2>1, <2>2, PaidOnwards DEF Before, Uncounted, Late, Settling
<1>4. CASE Claim(p) \/ Measure(p) \/ FreeOne(p)
  <2>1. proc[p].pc \in {"claim", "measure", "free"}
    BY <1>4 DEF Claim, Measure, FreeOne
  <2>2. CASE Fail(p, "insufficient")
    BY <1>3, <2>1, <2>2
  <2> DEFINE t == [proc[p] EXCEPT !.pc = "measure"]
             u == [proc[p] EXCEPT !.pc = "free"]
             v == [proc[p] EXCEPT !.pc = "copy", !.due = Size[proc[p].key]]
             w == [proc[p] EXCEPT !.pc = "unlink", !.then = "measure", !.victims = Victims(index, 1)]
  <2>3. Fail(p, "insufficient") \/ Locals(p, t) \/ Locals(p, u) \/ Locals(p, v) \/ Locals(p, w)
    <3>1. CASE Claim(p)
      BY <3>1 DEF Claim, Grant
    <3>2. CASE Measure(p)
      BY <3>2 DEF Measure, Grant, Refuse
    <3>3. CASE FreeOne(p)
      BY <3>3 DEF FreeOne, Refuse
    <3>4. QED
      BY <1>4, <3>1, <3>2, <3>3
  <2>4. \A x \in {t, u, v, w} :
          /\ x.written = proc[p].written /\ x.booked = proc[p].booked
          /\ x.oversized = proc[p].oversized /\ x.tmp = proc[p].tmp
          /\ x.pc \in {"measure", "free", "copy", "unlink"}
    OBVIOUS
  <2> HIDE DEF t, u, v, w
  <2>5. ASSUME NEW x \in {t, u, v, w}, Locals(p, x) PROVE AllPaid'
    BY <2>1, <2>4, <2>5, PaidOnwards DEF Before, Uncounted, Late, Settling
  <2>6. QED
    BY <2>2, <2>3, <2>5
<1>5. CASE Copy(p)
  <2> DEFINE v == [proc[p] EXCEPT !.pc = "close"]
             w == [proc[p] EXCEPT !.pc = "landed", !.written = @ + 1]
  <2>1. /\ v.written = proc[p].written /\ v.booked = proc[p].booked
        /\ v.oversized = proc[p].oversized /\ v.tmp = proc[p].tmp /\ v.pc = "close"
        /\ w.pc = "landed" /\ w.oversized = proc[p].oversized /\ w.tmp = proc[p].tmp
        /\ w.written = proc[p].written + 1 /\ w.booked = proc[p].booked
    BY <1>1
  <2>2. Locals(p, v) \/ Fail(p, "badGateway") \/ Locals(p, w)
    BY <1>5 DEF Copy
  <2>3. proc[p].pc = "copy"
    BY <1>5 DEF Copy
  <2> HIDE DEF v, w
  <2>4. CASE Locals(p, v)
    BY <2>1, <2>3, <2>4, PaidOnwards DEF Before, Uncounted, Late, Settling
  <2>5. Paid(w)
    BY <1>1, <2>1, <2>3 DEF Paid, Settling, Before, Uncounted, Late
  <2>6. QED
    BY <1>3, <2>2, <2>3, <2>4, <2>5, PaidStep
<1>6. CASE Landed(p)
  <2> DEFINE w == [proc[p] EXCEPT !.pc = "book", !.due = @ - (IF proc[p].due > 0 THEN 1 ELSE 0)]
  <2>1. /\ w.pc = "book" /\ w.written = proc[p].written /\ w.booked = proc[p].booked
        /\ w.oversized = proc[p].oversized /\ w.tmp = proc[p].tmp
        /\ Locals(p, w) /\ proc[p].pc = "landed"
    BY <1>6 DEF Landed
  <2> HIDE DEF w
  <2>2. QED
    BY <1>1, <2>1, PaidStep DEF Paid, Settling, Before, Uncounted, Late
<1>7. CASE Close(p)
  <2> DEFINE v == [proc[p] EXCEPT !.pc = "settle", !.then = "add", !.tmp = FALSE]
             w == [proc[p] EXCEPT !.pc = "settle", !.then = "unlock", !.tmp = FALSE,
                                  !.answer = "badGateway"]
  <2>1. /\ v.pc = "settle" /\ ~v.tmp /\ w.pc = "settle" /\ ~w.tmp
        /\ Locals(p, v) \/ Locals(p, w)
        /\ proc[p].pc = "close"
    BY <1>7 DEF Close
  <2>2. \A x \in {v, w} : /\ x.written = proc[p].written /\ x.booked = proc[p].booked
                         /\ x.oversized = proc[p].oversized
    OBVIOUS
  <2>3. proc[p].tmp
    BY <2>1, InvParts DEF Work, Writing
  <2> HIDE DEF v, w
  <2>4. Paid(v) /\ Paid(w)
    BY <1>1, <2>1, <2>2, <2>3 DEF Paid, Settling, Before, Uncounted, Late
  <2>5. QED
    BY <2>1, <2>4, PaidStep
<1>8. CASE Settle(p)
  <2> DEFINE w == [proc[p] EXCEPT !.pc = "settleDisk", !.booked = 0]
  <2>1. /\ w.pc = "settleDisk" /\ w.then = proc[p].then /\ w.tmp = proc[p].tmp /\ Locals(p, w)
        /\ proc[p].pc = "settle"
    BY <1>8 DEF Settle
  <2> HIDE DEF w
  <2>2. QED
    BY <1>1, <2>1, PaidStep DEF Paid, Settling, Before, Uncounted, Late
<1>9. CASE SettleDisk(p)
  <2> DEFINE w == [proc[p] EXCEPT !.pc = proc[p].then, !.due = 0]
  <2>1. w.pc = proc[p].then /\ w.tmp = proc[p].tmp /\ Locals(p, w)
    BY <1>9 DEF SettleDisk
  <2>2. proc[p].then \in {"remove", "add", "unlock"}
    BY <1>9, InvParts DEF SettleDisk, Work, Settling
  <2>3. w.pc # "remove" => ~w.tmp
    BY <1>1, <1>9, <2>1 DEF SettleDisk, Paid, Settling
  <2> HIDE DEF w
  <2>4. QED
    BY <2>1, <2>2, <2>3, PaidStep DEF Paid, Settling, Before, Uncounted, Late
<1>10. CASE Add(p)
  <2> DEFINE w == [proc[p] EXCEPT !.then = "reopen",
                     !.pc = IF capped /\ ~proc[p].oversized THEN "evict" ELSE "reopen"]
  <2>1. /\ w.written = proc[p].written /\ w.booked = proc[p].booked /\ w.pc \in {"evict", "reopen"}
        /\ w.oversized = proc[p].oversized /\ w.tmp = proc[p].tmp /\ proc[p].pc = "add"
        /\ Locals(p, w)
    BY <1>10 DEF Add
  <2>2. ~proc[p].tmp
    BY <2>1, InvParts DEF Committed, Commits, Absent, Wants
  <2> HIDE DEF w
  <2>3. QED
    BY <2>1, <2>2, PaidOnwards DEF Before, Uncounted, Late, Settling
<1>11. QED
  BY <1>2, <1>4, <1>5, <1>6, <1>7, <1>8, <1>9, <1>10, QuietPaid DEF Step

LEMMA AlwaysPaid == Spec => []AllPaid
<1>1. Init => AllPaid
  <2> SUFFICES ASSUME Init, NEW p \in Proc PROVE Paid(proc[p])
    BY DEF AllPaid
  <2>1. proc[p] = Idle(AnyKey)
    BY DEF Init
  <2>2. QED
    BY <2>1, IdlePaid
<1>2. Inv /\ AllPaid /\ [Next]_vars => AllPaid'
  <2> SUFFICES ASSUME Inv, AllPaid, [Next]_vars PROVE AllPaid'
    OBVIOUS
  <2>1. CASE UNCHANGED vars
    BY <2>1 DEF vars, AllPaid, Paid, Before, Uncounted, Late, Settling
  <2>2. CASE CrashRestart
    <3>1. proc' = [p \in Proc |-> Idle(AnyKey)]
      BY <2>2 DEF CrashRestart
    <3>2. \A p \in Proc : Paid(proc'[p])
      BY <3>1, IdlePaid
    <3>3. QED
      BY <3>2 DEF AllPaid, Paid, Before, Uncounted, Late, Settling
  <2>3. QED
    BY <2>1, <2>2, StepPaid DEF Next
<1>3. QED
  BY <1>1, <1>2, SpecKeepsInv, PTL DEF Spec

(* The two sums of DiskCounted. *)
LEMMA FilesAreUsed ==
  ASSUME Inv, FilesIndexed, capped
  PROVE  LET K == DOMAIN linked \ (Doomed \cup InCommit) IN
         /\ Total([k \in K |-> linked[k]]) <= index.used
         /\ Total([k \in K |-> linked[k]]) \in Nat /\ index.used \in Nat
<1> DEFINE K == DOMAIN linked \ (Doomed \cup InCommit)
           f == [k \in K |-> linked[k]]
           g == [k \in DOMAIN index.entries |-> index.entries[k].size]
<1>1. /\ DOMAIN index.entries \in SUBSET Key /\ index.used \in Nat
      /\ index.used = Bytes(index.entries, DOMAIN index.entries)
  BY InvParts, SoundParts DEF Capping
<1>2. index.used = Total(g)
  BY <1>1 DEF Bytes
<1>3. K \in SUBSET DOMAIN index.entries
  BY DEF FilesIndexed
<1>4. \A k \in DOMAIN index.entries :
        /\ index.entries[k].size = Size[k] /\ linked[k] = Size[k] /\ Size[k] \in 0..MaxEntry
        /\ Size[k] <= Size[k]
  BY <1>1, InvParts, Sizes DEF Indexed, OnlyWholeBlobs
<1>5. IsFiniteSet(DOMAIN index.entries)
  BY <1>1, KeyAssumption, FS_Subset
<1>6. g \in [DOMAIN index.entries -> 0..MaxEntry] /\ DOMAIN f = K
      /\ \A k \in K : f[k] \in 0..MaxEntry /\ f[k] <= g[k]
  BY <1>3, <1>4
<1> HIDE DEF K, f, g
<1>7. Total(f) <= Total(g) /\ Total(f) \in Nat
  BY <1>3, <1>5, <1>6, TotalMonotonic
<1>8. QED
  BY <1>1, <1>2, <1>7 DEF f, K

LEMMA WrittenIsBooked ==
  ASSUME Inv, AllPaid, capped
  PROVE  LET D == {q \in Proc : (Downloading(q) \/ Committing(q)) /\ ~Unreserved(q)} IN
         /\ Total([p \in D |-> proc[p].written - Unbooked(p)]) <= index.inflight
         /\ Total([p \in D |-> proc[p].written - Unbooked(p)]) \in Nat /\ index.inflight \in Nat
<1> DEFINE D == {q \in Proc : (Downloading(q) \/ Committing(q)) /\ ~Unreserved(q)}
           f == [p \in D |-> proc[p].written - Unbooked(p)]
           g == [p \in Proc |-> proc[p].booked]
<1>1. index.inflight = Total(g)
  BY InvParts DEF BooksBalance
<1>2. \A p \in Proc : proc[p].booked \in 0..MaxEntry /\ proc[p].written \in 0..MaxEntry
  BY OwnFrame DEF Frame
<1>3. \A p \in D : /\ proc[p].written - Unbooked(p) \in 0..MaxEntry
                   /\ proc[p].written - Unbooked(p) <= proc[p].booked
  <2> SUFFICES ASSUME NEW p \in D
               PROVE  /\ proc[p].written - Unbooked(p) \in 0..MaxEntry
                      /\ proc[p].written - Unbooked(p) <= proc[p].booked
    OBVIOUS
  <2>1. proc[p].tmp \/ proc[p].pc = "settle"
    BY DEF Downloading, Committing, Unreserved, At
  <2>2. proc[p].written <= proc[p].booked + Late(proc[p])
    BY <2>1 DEF AllPaid, Paid, Unreserved, Uncounted
  <2>3. QED
    BY <1>2, <2>2, Sizes DEF Late, Unbooked
<1>4. g \in [Proc -> 0..MaxEntry] /\ DOMAIN f = D /\ D \in SUBSET Proc
      /\ \A p \in D : f[p] \in 0..MaxEntry /\ f[p] <= g[p]
  BY <1>2, <1>3
<1> HIDE DEF D, f, g
<1>5. Total(f) <= Total(g) /\ Total(f) \in Nat /\ Total(g) \in Nat
  BY <1>4, BlobAssumption, TotalMonotonic
<1>6. QED
  BY <1>1, <1>5 DEF f, D

(* As long as no os.Remove of a victim fails: what evictIfNeeded compares  *)
(* with the cap covers the committed files and the bytes of the downloads  *)
(* under way.  Outside the sum are popped files not yet unlinked, blobs    *)
(* larger than the cap until they are added, the file of a commit that has *)
(* settled and not yet been added, the temp file of a failed download that *)
(* has settled and not yet been removed, the one byte a chunked download   *)
(* has written and not yet booked, abandoned temp files, and unlinked      *)
(* files that are still being read.                                        *)
THEOREM DiskIsCounted ==
  ASSUME "unlink" \notin Faults
  PROVE  Spec => []DiskCounted
<1>1. Inv /\ AllPaid /\ FilesIndexed => DiskCounted
  BY FilesAreUsed, WrittenIsBooked DEF DiskCounted
<1>2. Spec => []FilesIndexed
  BY NoFileEscapes
<1>3. QED
  BY <1>1, <1>2, AlwaysPaid, SpecKeepsInv, PTL

-----------------------------------------------------------------------------
(* The bytes that granted downloads have yet to write are free on disk.    *)

(* What has no bytes may be counted too. *)
LEMMA TotalPadded ==
  ASSUME NEW f, NEW W, DOMAIN f \in SUBSET W
  PROVE  Total(f) = Total([x \in W |-> IF x \in DOMAIN f THEN f[x] ELSE 0])
<1> DEFINE g == [x \in W |-> IF x \in DOMAIN f THEN f[x] ELSE 0]
<1>1. {b \in (DOMAIN f) \X (1..MaxEntry) : b[2] <= f[b[1]]}
        = {b \in W \X (1..MaxEntry) : b[2] <= g[b[1]]}
  BY SizeAssumption
<1>2. DOMAIN g = W
  OBVIOUS
<1>3. QED
  BY <1>1, <1>2 DEF Total

TempOf(w) == IF w.tmp THEN w.written ELSE 0

OutstandingOf(w) == IF w.pc \in {"copy", "landed", "book"} THEN Size[w.key] - w.written ELSE 0

Temps == [p \in Proc |-> TempOf(proc[p])]
Outs == [p \in Proc |-> OutstandingOf(proc[p])]
Files == [k \in Key |-> IF k \in DOMAIN linked THEN linked[k] ELSE 0]
Ghosts == [o \in orphans |-> o.size]

LEMMA TempsAreBytes ==
  ASSUME TypeOK
  PROVE  TempBytes = Total(Temps) /\ Total(linked) = Total(Files)
<1> DEFINE f == [p \in {q \in Proc : proc[q].tmp} |-> proc[p].written]
<1>1. TempBytes = Total(f) /\ DOMAIN f = {q \in Proc : proc[q].tmp}
  BY DEF TempBytes
<1>2. [p \in Proc |-> IF p \in DOMAIN f THEN f[p] ELSE 0] = Temps
  BY <1>1 DEF Temps, TempOf
<1> HIDE DEF f
<1>3. Total(f) = Total(Temps)
  BY <1>1, <1>2, TotalPadded
<1>4. Total(linked) = Total(Files)
  BY TotalPadded DEF Files, TypeOK
<1>5. QED
  BY <1>1, <1>3, <1>4

FewOrphans == IsFiniteSet(orphans)

LEMMA Measured ==
  ASSUME Inv, FewOrphans
  PROVE  /\ DiskUse = Total(Files) + Total(Temps) + Total(Ghosts) + leaked
         /\ Total(Files) \in Nat /\ Total(Temps) \in Nat /\ Total(Ghosts) \in Nat
         /\ Total(Outs) \in Nat /\ leaked \in Nat
         /\ Temps \in [Proc -> 0..MaxEntry] /\ Outs \in [Proc -> 0..MaxEntry]
         /\ Files \in [Key -> 0..MaxEntry]
<1>1. \A p \in Proc : TempOf(proc[p]) \in 0..MaxEntry /\ OutstandingOf(proc[p]) \in 0..MaxEntry
  <2> SUFFICES ASSUME NEW p \in Proc
               PROVE  TempOf(proc[p]) \in 0..MaxEntry /\ OutstandingOf(proc[p]) \in 0..MaxEntry
    OBVIOUS
  <2>1. /\ proc[p].written \in 0..MaxEntry /\ proc[p].written <= Size[proc[p].key]
        /\ Size[proc[p].key] \in 0..MaxEntry /\ MaxEntry \in Nat
    BY InvParts, Sizes DEF Work, Frame
  <2>2. QED
    BY <2>1 DEF TempOf, OutstandingOf
<1>2. Temps \in [Proc -> 0..MaxEntry] /\ Outs \in [Proc -> 0..MaxEntry]
  BY <1>1 DEF Temps, Outs
<1>3. Files \in [Key -> 0..MaxEntry]
  BY InvParts, Sizes DEF Files, TypeOK
<1>4. DOMAIN Ghosts = orphans /\ DOMAIN Temps = Proc /\ DOMAIN Outs = Proc /\ DOMAIN Files = Key
  BY DEF Ghosts, Temps, Outs, Files
<1>5. /\ Total(Files) \in Nat /\ Total(Temps) \in Nat /\ Total(Ghosts) \in Nat
      /\ Total(Outs) \in Nat
  BY <1>4, TotalIsNat, BlobAssumption, KeyAssumption DEF FewOrphans
<1>6. DiskUse = Total(Files) + Total(Temps) + Total(Ghosts) + leaked
  BY TempsAreBytes, InvParts DEF DiskUse, Ghosts
<1>7. QED
  BY <1>2, <1>3, <1>5, <1>6, InvParts

(* Granted bytes and bytes on disk fit together. *)
Fit ==
  /\ FewOrphans
  /\ Total(Outs) + Total(Files) + Total(Temps) + Total(Ghosts) + leaked <= Capacity

LEMMA FitIs ==
  ASSUME Inv, Fit
  PROVE  AnnouncedBytesFit
<1>1. [p \in Proc |-> Outstanding(p)] = Outs
  BY DEF Outstanding, Outs, OutstandingOf
<1>2. Total(Outs) <= Free
  BY Measured, BlobAssumption DEF Fit, Free
<1>3. QED
  BY <1>1, <1>2 DEF AnnouncedBytesFit

Sums == /\ Temps \in [Proc -> 0..MaxEntry] /\ Outs \in [Proc -> 0..MaxEntry]
        /\ Files \in [Key -> 0..MaxEntry]

LEMMA SumsTyped == Inv /\ FewOrphans => Sums
  BY Measured DEF Sums

(* One goroutine moves. *)
LEMMA WriterMoves ==
  ASSUME Inv, Inv', FewOrphans, FewOrphans',
         NEW p \in Proc, NEW w, Locals(p, w)
  PROVE  /\ Total(Temps)' = Total(Temps) - TempOf(proc[p]) + TempOf(w)
         /\ Total(Outs)' = Total(Outs) - OutstandingOf(proc[p]) + OutstandingOf(w)
         /\ TempOf(proc[p]) \in Nat /\ TempOf(w) \in Nat
         /\ OutstandingOf(proc[p]) \in Nat /\ OutstandingOf(w) \in Nat
<1>1. proc'[p] = w /\ \A q \in Proc : q # p => proc'[q] = proc[q]
  BY AloneStep DEF Alone
<1>2. /\ Temps \in [Proc -> 0..MaxEntry] /\ Outs \in [Proc -> 0..MaxEntry]
  BY Measured
<1>3. /\ Temps' \in [Proc -> 0..MaxEntry] /\ Outs' \in [Proc -> 0..MaxEntry]
  <2>1. Sums'
    BY SumsTyped, PTL
  <2>2. QED
    BY <2>1 DEF Sums
<1>4. /\ Temps'[p] = TempOf(w) /\ Outs'[p] = OutstandingOf(w)
      /\ Temps[p] = TempOf(proc[p]) /\ Outs[p] = OutstandingOf(proc[p])
      /\ \A q \in Proc \ {p} : Temps'[q] = Temps[q] /\ Outs'[q] = Outs[q]
  BY <1>1 DEF Temps, Outs, TempOf, OutstandingOf
<1> DEFINE s == Temps
           t == Temps'
           u == Outs
           v == Outs'
<1>5. /\ s \in [Proc -> 0..MaxEntry] /\ t \in [Proc -> 0..MaxEntry]
      /\ u \in [Proc -> 0..MaxEntry] /\ v \in [Proc -> 0..MaxEntry]
      /\ \A q \in Proc \ {p} : t[q] = s[q] /\ v[q] = u[q]
  BY <1>2, <1>3, <1>4
<1>a. Total(Temps)' = Total(t) /\ Total(Outs)' = Total(v)
  BY DEF Total
<1> HIDE DEF s, t, u, v
<1>6. Total(t) = Total(s) - s[p] + t[p] /\ Total(v) = Total(u) - u[p] + v[p]
  BY <1>5, BlobAssumption, TotalOfOneChanged
<1>7. s[p] \in Nat /\ t[p] \in Nat /\ u[p] \in Nat /\ v[p] \in Nat
  BY <1>5, Sizes
<1>8. QED
  BY <1>4, <1>6, <1>7, <1>a DEF s, t, u, v

(* One more file, and files that others stand for. *)
LEMMA SizesOfMore ==
  ASSUME NEW S, IsFiniteSet(S), \A x \in S : x.size \in 0..MaxEntry,
         NEW o, o.size \in 0..MaxEntry, NEW T \in SUBSET (S \cup {o})
  PROVE  /\ IsFiniteSet(T)
         /\ Total([x \in T |-> x.size]) <= Total([x \in S |-> x.size]) + o.size
<1> DEFINE D == S \cup {o}
           f == [x \in D |-> IF x \in S THEN x.size ELSE 0]
           g == [x \in D |-> x.size]
           h == [x \in T |-> x.size]
           e == [x \in S |-> x.size]
<1>1. IsFiniteSet(D) /\ IsFiniteSet(T)
  BY FS_AddElement, FS_Subset
<1>2. f \in [D -> 0..MaxEntry] /\ g \in [D -> 0..MaxEntry]
  BY Sizes
<1>3. Total(e) = Total(f)
  <2>1. DOMAIN e = S /\ f = [x \in D |-> IF x \in DOMAIN e THEN e[x] ELSE 0] /\ S \in SUBSET D
    OBVIOUS
  <2> HIDE DEF e, f
  <2>2. QED
    BY <2>1, TotalPadded
<1>4. /\ DOMAIN h = T /\ T \in SUBSET D
      /\ \A x \in T : h[x] \in 0..MaxEntry /\ g[x] \in 0..MaxEntry /\ h[x] = g[x]
  OBVIOUS
<1>5. /\ \A q \in D \ {o} : g[q] = f[q]
      /\ o \in D /\ f[o] >= 0 /\ f[o] \in Nat /\ g[o] = o.size /\ o.size \in Nat
  BY Sizes
<1> HIDE DEF D, f, g, h, e
<1>6. Total(h) <= Total(g) /\ Total(h) \in Nat /\ Total(g) \in Nat
  <2>1. \A x \in T : h[x] \in 0..MaxEntry /\ h[x] <= g[x]
    BY <1>4, Sizes
  <2>2. QED
    BY <1>1, <1>2, <1>4, <2>1, TotalMonotonic
<1>7. Total(g) = Total(f) - f[o] + g[o] /\ Total(f) \in Nat
  BY <1>1, <1>2, <1>5, TotalOfOneChanged
<1>8. Total(h) <= Total(e) + o.size
  BY <1>3, <1>5, <1>6, <1>7
<1>9. QED
  BY <1>1, <1>8 DEF h, e

(* A set no larger than a finite one. *)
LEMMA ImageIsFinite ==
  ASSUME NEW S, IsFiniteSet(S), NEW g, NEW T, \A y \in T : \E x \in S : y = g[x]
  PROVE  IsFiniteSet(T)
<1> DEFINE R == {x \in S : g[x] \in T}
           i == [x \in R |-> g[x]]
<1>1. IsFiniteSet(R)
  BY FS_Subset
<1>2. i \in Surjection(R, T)
  BY DEF Surjection
<1> HIDE DEF R, i
<1>3. QED
  BY <1>1, <1>2, FS_Surjection

(* Nor do its sizes add up to more. *)
LEMMA SizesOfImages ==
  ASSUME NEW S, IsFiniteSet(S), \A x \in S : x.size \in 0..MaxEntry,
         NEW g, DOMAIN g = S, \A x \in S : g[x].size = x.size,
         NEW T, \A y \in T : \E x \in S : y = g[x]
  PROVE  /\ IsFiniteSet(T)
         /\ Total([x \in T |-> x.size]) <= Total([x \in S |-> x.size])
<1> DEFINE e == [x \in S |-> x.size]
           h == [x \in T |-> x.size]
           R == {x \in S : g[x] \in T}
           i == [x \in R |-> g[x]]
           V == {u \in Units(e) : u[1] \in R}
           j == [u \in V |-> <<g[u[1]], u[2]>>]
<1>1. IsFiniteSet(T)
  BY ImageIsFinite
<1>2. /\ IsFiniteSet(Units(e)) /\ Total(e) = Cardinality(Units(e)) /\ Total(e) \in Nat
      /\ Total(h) = Cardinality(Units(h)) /\ Total(h) \in Nat
  BY <1>1, TotalIsNat
<1>3. IsFiniteSet(V) /\ Cardinality(V) <= Cardinality(Units(e))
  BY <1>2, FS_Subset
<1>4. j \in Surjection(V, Units(h))
  <2>1. ASSUME NEW u \in V PROVE <<g[u[1]], u[2]>> \in Units(h)
    <3>1. u \in S \X (1..MaxEntry) /\ u[2] <= u[1].size /\ g[u[1]] \in T
      BY DEF Units
    <3>2. g[u[1]].size = u[1].size
      BY <3>1
    <3>3. QED
      BY <3>1, <3>2 DEF Units
  <2>2. ASSUME NEW v \in Units(h) PROVE \E u \in V : j[u] = v
    <3>1. v \in T \X (1..MaxEntry) /\ v[2] <= v[1].size
      BY DEF Units
    <3>2. PICK x \in S : v[1] = g[x]
      BY <3>1
    <3>3. <<x, v[2]>> \in V
      BY <3>1, <3>2 DEF Units
    <3>4. j[<<x, v[2]>>] = <<g[x], v[2]>>
      BY <3>3
    <3>5. v = <<v[1], v[2]>>
      BY <3>1
    <3>6. QED
      BY <3>2, <3>3, <3>4, <3>5
  <2>3. j \in [V -> Units(h)]
    BY <2>1
  <2>4. QED
    BY <2>2, <2>3 DEF Surjection
<1> HIDE DEF V, j, h, e
<1>5. Cardinality(Units(h)) <= Cardinality(V)
  BY <1>3, <1>4, FS_Surjection
<1>6. Cardinality(V) \in Nat
  BY <1>3, FS_CardinalityType
<1>7. Total(h) <= Total(e)
  BY <1>2, <1>3, <1>5, <1>6
<1>8. QED
  BY <1>1, <1>7 DEF h, e

-----------------------------------------------------------------------------
(* What a writer has been granted, when every blob is announced and the    *)
(* disk can be measured: its booking covers the blob, so nothing is evicted *)
(* in the middle of it, and what it is due is what it has yet to write.    *)
Measuring(w) ==
  \/ w.pc \in {"claim", "measure", "free"}
  \/ w.pc \in Evicting /\ w.then \in {"claim", "measure"}

Receiving(w) == w.pc \in {"copy", "landed", "book"}

Promised(w) ==
  /\ Before(w) \/ w.pc \in {"fetch", "reserve"} \/ Measuring(w) => w.written = 0
  /\ Measuring(w) \/ Receiving(w) => w.oversized \/ w.booked = Size[w.key]
  /\ w.pc \in {"copy", "book"} => w.due = Size[w.key] - w.written
  /\ w.pc = "landed" => w.due = Size[w.key] - w.written + 1
  /\ w.pc \in Evicting => w.then # "copy"
  /\ w.pc = "remove" \/ (w.pc \in Settling /\ w.then = "remove") => w.tmp

AllPromised == \A p \in Proc : Promised(proc[p])

Announced == FALSE \notin Announce /\ FALSE \notin StatfsOk

LEMMA PromisedStep ==
  ASSUME Inv, AllPromised, NEW p \in Proc, NEW w, Locals(p, w), Promised(w)
  PROVE  AllPromised'
<1>1. proc'[p] = w /\ \A q \in Proc : q # p => proc'[q] = proc[q]
  BY AloneStep DEF Alone
<1>2. \A q \in Proc : Promised(proc'[q])
  BY <1>1 DEF AllPromised
<1>3. QED
  BY <1>2 DEF AllPromised, Promised, Before, Measuring, Receiving, Evicting, Settling

LEMMA IdlePromised == ASSUME NEW k PROVE Promised(Idle(k))
  BY DEF Idle, Promised, Before, Measuring, Receiving, Evicting, Settling

(* What the writers have yet to write is due to them. *)
LEMMA DueCovers ==
  ASSUME Inv, AllPromised, FewOrphans
  PROVE  Total(Outs) <= pending
<1> DEFINE d == [p \in Proc |-> proc[p].due]
<1>1. pending = Total(d)
  BY InvParts DEF BooksBalance
<1>2. \A p \in Proc : OutstandingOf(proc[p]) <= proc[p].due /\ proc[p].due \in 0..MaxEntry
  <2> SUFFICES ASSUME NEW p \in Proc
               PROVE  OutstandingOf(proc[p]) <= proc[p].due /\ proc[p].due \in 0..MaxEntry
    OBVIOUS
  <2>1. /\ proc[p].written \in Nat /\ proc[p].due \in Nat /\ proc[p].due \in 0..MaxEntry
        /\ Size[proc[p].key] \in Nat /\ proc[p].written <= Size[proc[p].key]
    BY InvParts, Sizes DEF Work, Frame
  <2>2. QED
    BY <2>1 DEF OutstandingOf, AllPromised, Promised
<1>3. Outs \in [Proc -> 0..MaxEntry] /\ d \in [Proc -> 0..MaxEntry]
  BY <1>2, Measured
<1>4. \A p \in Proc : Outs[p] <= d[p]
  BY <1>2 DEF Outs
<1> HIDE DEF d
<1>5. Total(Outs) <= Total(d)
  <2> DEFINE u == Outs
  <2>1. u \in [Proc -> 0..MaxEntry] /\ DOMAIN u = Proc
        /\ \A p \in Proc : u[p] \in 0..MaxEntry /\ u[p] <= d[p]
    BY <1>3, <1>4
  <2> HIDE DEF u
  <2>2. Total(u) <= Total(d)
    BY <1>3, <2>1, BlobAssumption, TotalMonotonic
  <2>3. QED
    BY <2>2 DEF u
<1>6. QED
  BY <1>1, <1>5

(* Steps after which a goroutine is not receiving a blob. *)
Elsewhere(w) ==
  /\ ~Before(w) /\ w.pc \notin {"fetch", "reserve", "remove"} /\ ~Measuring(w) /\ ~Receiving(w)
  /\ w.pc \in Evicting => w.then # "copy"
  /\ w.pc \in Settling => w.then # "remove"

LEMMA ElsewhereIsPromised == ASSUME NEW w, Elsewhere(w) PROVE Promised(w)
  BY DEF Elsewhere, Promised, Receiving

LEMMA StepPromised ==
  ASSUME Announced, Inv, AllPromised, AllPaid, NEW p \in Proc, Arrive(p) \/ Step(p)
  PROVE  AllPromised'
<1> USE OwnFrame DEF Frame, At, Goto
<1>1. /\ proc[p].written \in Nat /\ proc[p].booked \in Nat /\ proc[p].due \in Nat
      /\ proc[p].written <= Size[proc[p].key] /\ Size[proc[p].key] \in Nat
      /\ Promised(proc[p]) /\ Work(proc[p])
  BY InvParts, Sizes DEF Work, AllPromised
<1>2. CASE Arrive(p)
  <2>1. PICK k \in Key, first \in {"lock", "stat"} : Locals(p, [Idle(k) EXCEPT !.pc = first])
    BY <1>2 DEF Arrive
  <2>2. Promised([Idle(k) EXCEPT !.pc = first])
    BY DEF Idle, Promised, Before, Measuring, Receiving, Evicting, Settling
  <2>3. QED
    BY <2>1, <2>2, PromisedStep
<1>3. CASE TouchHead(p) \/ Serve(p) \/ Leave(p) \/ RemoveTemp(p)
  <2>1. Locals(p, Idle(AnyKey))
    BY <1>3 DEF TouchHead, Serve, Leave, RemoveTemp, Finish
  <2>2. QED
    BY <2>1, IdlePromised, PromisedStep
<1>4. CASE Touch(p)
  <2>1. Locals(p, [Idle(proc[p].key) EXCEPT !.pc = "serve", !.answer = "ok"])
    BY <1>4 DEF Touch
  <2>2. Promised([Idle(proc[p].key) EXCEPT !.pc = "serve", !.answer = "ok"])
    BY DEF Idle, Promised, Before, Measuring, Receiving, Evicting, Settling
  <2>3. QED
    BY <2>1, <2>2, PromisedStep
<1>5. ASSUME NEW w, Locals(p, w), w.written = proc[p].written, w.pc \in {"head", "lock", "open", "put", "fetch"},
             proc[p].pc \in {"stat", "lock", "open", "put"}
      PROVE  AllPromised'
  <2>1. Promised(w)
    BY <1>1, <1>5 DEF Promised, Before, Measuring, Receiving, Evicting, Settling
  <2>2. QED
    BY <1>5, <2>1, PromisedStep
<1>6. ASSUME NEW w, Locals(p, w), w.pc \in {"touch", "unlock", "close", "reopen", "add"}
      PROVE  AllPromised'
  <2>1. Promised(w)
    BY <1>6, ElsewhereIsPromised DEF Elsewhere, Before, Measuring, Receiving, Evicting, Settling
  <2>2. QED
    BY <1>6, <2>1, PromisedStep
<1>7. ASSUME NEW answer, Fail(p, answer), Writing(proc[p]) PROVE AllPromised'
  <2> DEFINE w == [proc[p] EXCEPT !.pc = "settle", !.then = "remove", !.answer = answer]
  <2>1. Locals(p, w) /\ w.tmp /\ w.pc = "settle"
    BY <1>1, <1>7 DEF Fail, Work
  <2> HIDE DEF w
  <2>2. Promised(w)
    BY <2>1 DEF Promised, Before, Measuring, Receiving, Evicting, Settling
  <2>3. QED
    BY <2>1, <2>2, PromisedStep
<1>8. CASE Stat(p) \/ Lock(p)
  <2> DEFINE w == [proc[p] EXCEPT !.pc = "open"]
             u == [proc[p] EXCEPT !.pc = IF proc[p].key \in DOMAIN linked THEN "head" ELSE "lock"]
  <2>1. (Locals(p, w) \/ Locals(p, u)) /\ proc[p].pc \in {"stat", "lock"}
    BY <1>8 DEF Stat, Lock
  <2>2. /\ w.pc = "open" /\ u.pc \in {"head", "lock"}
        /\ w.written = proc[p].written /\ u.written = proc[p].written
    OBVIOUS
  <2> HIDE DEF u, w
  <2>3. QED
    BY <1>5, <2>1, <2>2
<1>9. CASE Open(p)
  <2> DEFINE v == [proc[p] EXCEPT !.pc = "touch"]
             u == [proc[p] EXCEPT !.pc = "put"]
             w == [proc[p] EXCEPT !.pc = "unlock", !.answer = "notFound"]
  <2>1. Locals(p, v) \/ (Locals(p, u) /\ proc[p].pc = "open") \/ Locals(p, w)
    <3>1. CASE proc[p].key \in DOMAIN linked
      BY <1>9, <3>1 DEF Open
    <3>2. CASE proc[p].key \notin DOMAIN linked
      BY <1>9, <3>2 DEF Open
    <3>3. QED
      BY <3>1, <3>2
  <2>2. u.pc = "put" /\ u.written = proc[p].written /\ v.pc = "touch" /\ w.pc = "unlock"
    OBVIOUS
  <2> HIDE DEF u, v, w
  <2>3. QED
    BY <1>5, <1>6, <2>1, <2>2
<1>10. CASE CreateTemp(p)
  <2> DEFINE v == [proc[p] EXCEPT !.pc = "fetch", !.tmp = TRUE]
             w == [proc[p] EXCEPT !.pc = "unlock", !.answer = "badGateway"]
  <2>1. proc[p].pc = "put" /\ (Locals(p, v) \/ Locals(p, w))
    BY <1>10 DEF CreateTemp
  <2>2. v.written = proc[p].written /\ v.pc = "fetch" /\ w.pc = "unlock"
    OBVIOUS
  <2> HIDE DEF v, w
  <2>3. QED
    BY <1>5, <1>6, <2>1, <2>2
<1>11. CASE Respond(p)
  <2>1. proc[p].pc = "fetch" /\ Writing(proc[p]) /\ proc[p].booked = 0 /\ proc[p].due = 0
    BY <1>1, <1>11 DEF Respond, Writing, Work, Books, Owes, Evicting
  <2>2. CASE \E answer : Fail(p, answer)
    BY <1>7, <2>1, <2>2
  <2> DEFINE v == [proc[p] EXCEPT !.pc = "reserve"]
             w == [proc[p] EXCEPT !.pc = "copy"]
  <2>3. (\E answer : Fail(p, answer)) \/ Locals(p, v) \/ (Locals(p, w) /\ ~(Size[proc[p].key] > 0))
    <3>1. \A a \in Announce : a = TRUE
      BY BlobAssumption DEF Announced
    <3>2. CASE Size[proc[p].key] > 0
      BY <1>11, <3>1, <3>2 DEF Respond
    <3>3. CASE ~(Size[proc[p].key] > 0)
      BY <1>11, <3>1, <3>3 DEF Respond
    <3>4. QED
      BY <3>2, <3>3
  <2>4. proc[p].written = 0
    BY <1>1, <2>1 DEF Promised
  <2>5. /\ v.pc = "reserve" /\ v.written = 0
        /\ w.pc = "copy" /\ w.written = 0 /\ w.booked = 0 /\ w.due = 0 /\ w.key = proc[p].key
    BY <2>1, <2>4
  <2> HIDE DEF v, w
  <2>6. CASE Locals(p, v)
    <3>1. Promised(v)
      BY <2>5 DEF Promised, Before, Measuring, Receiving, Evicting, Settling
    <3>2. QED
      BY <2>6, <3>1, PromisedStep
  <2>7. CASE Locals(p, w) /\ ~(Size[proc[p].key] > 0)
    <3>1. Promised(w)
      BY <1>1, <2>5, <2>7 DEF Promised, Before, Measuring, Receiving, Evicting, Settling
    <3>2. QED
      BY <2>7, <3>1, PromisedStep
  <2>8. QED
    BY <2>2, <2>3, <2>6, <2>7
<1>12. CASE Reserve(p) \/ BookWritten(p)
  <2> DEFINE total == IF proc[p].pc = "reserve" THEN Size[proc[p].key] ELSE proc[p].written
             next == IF proc[p].pc = "reserve" THEN "claim" ELSE "copy"
             u == [proc[p] EXCEPT !.pc = next]
             v == [proc[p] EXCEPT !.pc = next, !.oversized = TRUE, !.booked = 0]
             x == [proc[p] EXCEPT !.pc = IF capped THEN "evict" ELSE next,
                                  !.then = next, !.booked = total]
  <2>1. proc[p].pc \in {"reserve", "book"} /\ Book(p, total, next)
    BY <1>12 DEF Reserve, BookWritten
  <2>2. total \in Nat
    BY <1>1
  <2>3. \/ Locals(p, u) /\ (proc[p].oversized \/ total <= proc[p].booked)
        \/ Locals(p, v)
        \/ Locals(p, x) /\ ~proc[p].oversized /\ ~(total <= proc[p].booked)
    <3> HIDE DEF total, next
    <3>1. QED
      BY <2>1 DEF Book
  <2>4. /\ u.pc = next /\ u.written = proc[p].written /\ u.booked = proc[p].booked
        /\ u.oversized = proc[p].oversized /\ u.due = proc[p].due /\ u.key = proc[p].key
        /\ v.pc = next /\ v.oversized /\ v.written = proc[p].written /\ v.due = proc[p].due
        /\ v.key = proc[p].key
        /\ x.pc \in {"evict", next} /\ x.written = proc[p].written /\ x.booked = total
        /\ x.then = next /\ x.key = proc[p].key
    <3> HIDE DEF total, next
    <3>1. QED
      OBVIOUS
  <2>5. proc[p].pc = "reserve" => proc[p].written = 0 /\ proc[p].booked = 0
    BY <1>1 DEF Promised, Work, Books, Evicting
  <2>6. proc[p].pc = "book" => /\ proc[p].oversized \/ proc[p].booked = Size[proc[p].key]
                               /\ proc[p].due = Size[proc[p].key] - proc[p].written
    BY <1>1 DEF Promised, Receiving
  <2>7. next \in {"claim", "copy"}
    OBVIOUS
  <2> HIDE DEF u, v, x
  <2>8. CASE Locals(p, u) /\ (proc[p].oversized \/ total <= proc[p].booked)
    <3>1. Promised(u)
      BY <1>1, <2>1, <2>4, <2>5, <2>6, <2>8 DEF Promised, Before, Measuring, Receiving, Evicting, Settling
    <3>2. QED
      BY <2>8, <3>1, PromisedStep
  <2>9. CASE Locals(p, v)
    <3>1. Promised(v)
      BY <1>1, <2>1, <2>4, <2>5, <2>6 DEF Promised, Before, Measuring, Receiving, Evicting, Settling
    <3>2. QED
      BY <2>9, <3>1, PromisedStep
  <2>10. CASE Locals(p, x) /\ ~proc[p].oversized /\ ~(total <= proc[p].booked)
    <3>1. proc[p].pc = "reserve"
      BY <1>1, <2>1, <2>6, <2>10
    <3>2. Promised(x)
      BY <1>1, <2>4, <2>5, <3>1 DEF Promised, Before, Measuring, Receiving, Evicting, Settling
    <3>3. QED
      BY <2>10, <3>2, PromisedStep
  <2>11. QED
    BY <2>3, <2>8, <2>9, <2>10
<1>13. CASE Evict(p) \/ Unlink(p)
  <2>1. PICK v, pc : /\ Locals(p, [proc[p] EXCEPT !.victims = v, !.pc = pc])
                     /\ pc = proc[p].then \/ pc = "unlink"
    BY <1>13 DEF Evict, Unlink
  <2> DEFINE w == [proc[p] EXCEPT !.victims = v, !.pc = pc]
  <2>2. /\ w.written = proc[p].written /\ w.booked = proc[p].booked /\ w.then = proc[p].then
        /\ w.oversized = proc[p].oversized /\ w.key = proc[p].key /\ w.pc = pc
    OBVIOUS
  <2>3. Locals(p, w)
    BY <2>1
  <2> HIDE DEF w
  <2>4. proc[p].pc \in Evicting /\ proc[p].then \in {"claim", "measure", "reopen"}
    BY <1>1, <1>13 DEF Evict, Unlink, Work, Evicting, Promised
  <2>5. Promised(w)
    BY <1>1, <2>1, <2>2, <2>4 DEF Promised, Before, Measuring, Receiving, Evicting, Settling
  <2>6. QED
    BY <2>3, <2>5, PromisedStep
<1>14. CASE Claim(p) \/ Measure(p) \/ FreeOne(p)
  <2>1. proc[p].pc \in {"claim", "measure", "free"} /\ Writing(proc[p])
    BY <1>14 DEF Claim, Measure, FreeOne, Writing
  <2> DEFINE t == [proc[p] EXCEPT !.pc = "measure"]
             u == [proc[p] EXCEPT !.pc = "free"]
             v == [proc[p] EXCEPT !.pc = "copy", !.due = Size[proc[p].key]]
             w == [proc[p] EXCEPT !.pc = "unlink", !.then = "measure", !.victims = Victims(index, 1)]
  <2>2. Fail(p, "insufficient") \/ Locals(p, t) \/ Locals(p, u) \/ Locals(p, v) \/ Locals(p, w)
    <3>1. CASE Claim(p)
      BY <3>1 DEF Claim, Grant
    <3>2. CASE Measure(p)
      BY <3>2 DEF Measure, Grant, Refuse
    <3>3. CASE FreeOne(p)
      BY <3>3 DEF FreeOne, Refuse
    <3>4. QED
      BY <1>14, <3>1, <3>2, <3>3
  <2>3. \A x \in {t, u, v, w} :
          /\ x.written = proc[p].written /\ x.booked = proc[p].booked
          /\ x.oversized = proc[p].oversized /\ x.key = proc[p].key
    OBVIOUS
  <2>4. /\ t.pc = "measure" /\ u.pc = "free" /\ v.pc = "copy" /\ w.pc = "unlink"
        /\ v.due = Size[proc[p].key] /\ w.then = "measure"
    OBVIOUS
  <2> HIDE DEF t, u, v, w
  <2>5. /\ proc[p].written = 0 /\ (proc[p].oversized \/ proc[p].booked = Size[proc[p].key])
    BY <1>1, <2>1 DEF Promised, Measuring
  <2>6. Promised(t) /\ Promised(u) /\ Promised(w)
    BY <1>1, <2>3, <2>4, <2>5 DEF Promised, Before, Measuring, Receiving, Evicting, Settling
  <2>7. Promised(v)
    BY <1>1, <2>3, <2>4, <2>5 DEF Promised, Before, Measuring, Receiving, Evicting, Settling
  <2>8. QED
    BY <1>7, <2>1, <2>2, <2>6, <2>7, PromisedStep
<1>15. CASE Copy(p)
  <2> DEFINE v == [proc[p] EXCEPT !.pc = "close"]
             w == [proc[p] EXCEPT !.pc = "landed", !.written = @ + 1]
  <2>1. /\ v.pc = "close" /\ w.pc = "landed" /\ w.written = proc[p].written + 1
        /\ w.booked = proc[p].booked /\ w.due = proc[p].due /\ w.key = proc[p].key
        /\ w.oversized = proc[p].oversized
    OBVIOUS
  <2>2. Locals(p, v) \/ Fail(p, "badGateway") \/ Locals(p, w)
    BY <1>15 DEF Copy
  <2>3. proc[p].pc = "copy" /\ Writing(proc[p])
    BY <1>15 DEF Copy, Writing
  <2> HIDE DEF v, w
  <2>4. Promised(w)
    BY <1>1, <2>1, <2>3 DEF Promised, Before, Measuring, Receiving, Evicting, Settling
  <2>5. QED
    BY <1>6, <1>7, <2>1, <2>2, <2>3, <2>4, PromisedStep
<1>16. CASE Landed(p)
  <2> DEFINE n == IF proc[p].due > 0 THEN 1 ELSE 0
             w == [proc[p] EXCEPT !.pc = "book", !.due = @ - n]
  <2>1. Locals(p, w) /\ proc[p].pc = "landed"
    BY <1>16 DEF Landed
  <2>2. proc[p].due = Size[proc[p].key] - proc[p].written + 1
    BY <1>1, <2>1 DEF Promised
  <2>3. n = 1
    BY <1>1, <2>2
  <2> HIDE DEF n
  <2>4. /\ w.pc = "book" /\ w.written = proc[p].written /\ w.due = proc[p].due - 1
        /\ w.booked = proc[p].booked /\ w.key = proc[p].key /\ w.oversized = proc[p].oversized
    BY <2>3
  <2> HIDE DEF w
  <2>5. Promised(w)
    BY <1>1, <2>1, <2>2, <2>4 DEF Promised, Before, Measuring, Receiving, Evicting, Settling
  <2>6. QED
    BY <2>1, <2>5, PromisedStep
<1>17. CASE Close(p)
  <2> DEFINE v == [proc[p] EXCEPT !.pc = "settle", !.then = "add", !.tmp = FALSE]
             w == [proc[p] EXCEPT !.pc = "settle", !.then = "unlock", !.tmp = FALSE,
                                  !.answer = "badGateway"]
  <2>1. /\ v.pc = "settle" /\ v.then = "add" /\ w.pc = "settle" /\ w.then = "unlock"
        /\ Locals(p, v) \/ Locals(p, w)
    BY <1>17 DEF Close
  <2> HIDE DEF v, w
  <2>2. Promised(v) /\ Promised(w)
    BY <2>1 DEF Promised, Before, Measuring, Receiving, Evicting, Settling
  <2>3. QED
    BY <2>1, <2>2, PromisedStep
<1>18. CASE Settle(p)
  <2> DEFINE w == [proc[p] EXCEPT !.pc = "settleDisk", !.booked = 0]
  <2>1. /\ w.pc = "settleDisk" /\ w.then = proc[p].then /\ w.tmp = proc[p].tmp /\ Locals(p, w)
        /\ proc[p].pc = "settle"
    BY <1>18 DEF Settle
  <2> HIDE DEF w
  <2>2. Promised(w)
    BY <1>1, <2>1 DEF Promised, Before, Measuring, Receiving, Evicting, Settling
  <2>3. QED
    BY <2>1, <2>2, PromisedStep
<1>19. CASE SettleDisk(p)
  <2> DEFINE w == [proc[p] EXCEPT !.pc = proc[p].then, !.due = 0]
  <2>1. /\ w.pc = proc[p].then /\ w.tmp = proc[p].tmp /\ Locals(p, w)
        /\ proc[p].pc = "settleDisk"
    BY <1>19 DEF SettleDisk
  <2>2. proc[p].then \in {"remove", "add", "unlock"}
    BY <1>1, <2>1 DEF Work, Settling
  <2> HIDE DEF w
  <2>3. Promised(w)
    BY <1>1, <2>1, <2>2 DEF Promised, Before, Measuring, Receiving, Evicting, Settling
  <2>4. QED
    BY <2>1, <2>3, PromisedStep
<1>20. CASE Add(p)
  <2> DEFINE w == [proc[p] EXCEPT !.then = "reopen",
                     !.pc = IF capped /\ ~proc[p].oversized THEN "evict" ELSE "reopen"]
  <2>1. w.pc \in {"evict", "reopen"} /\ w.then = "reopen" /\ Locals(p, w)
    BY <1>20 DEF Add
  <2> HIDE DEF w
  <2>2. Promised(w)
    BY <2>1 DEF Promised, Before, Measuring, Receiving, Evicting, Settling
  <2>3. QED
    BY <2>1, <2>2, PromisedStep
<1>21. QED
  BY <1>2, <1>3, <1>4, <1>8, <1>9, <1>10, <1>11, <1>12, <1>13, <1>14, <1>15, <1>16, <1>17,
     <1>18, <1>19, <1>20 DEF Step

-----------------------------------------------------------------------------
(* Steps that only move a writer. *)
LoadOf(w) == TempOf(w) + OutstandingOf(w)

LEMMA FitWriter ==
  ASSUME Inv, Inv', Fit, NEW p \in Proc, NEW w, Locals(p, w),
         UNCHANGED <<linked, orphans, leaked>>, LoadOf(w) <= LoadOf(proc[p])
  PROVE  Fit'
<1>1. FewOrphans /\ FewOrphans' /\ Files' = Files /\ Ghosts' = Ghosts
  BY DEF Fit, FewOrphans, Files, Ghosts
<1>2. /\ Total(Temps)' = Total(Temps) - TempOf(proc[p]) + TempOf(w)
      /\ Total(Outs)' = Total(Outs) - OutstandingOf(proc[p]) + OutstandingOf(w)
      /\ TempOf(proc[p]) \in Nat /\ TempOf(w) \in Nat
      /\ OutstandingOf(proc[p]) \in Nat /\ OutstandingOf(w) \in Nat
  BY <1>1, WriterMoves
<1>3. Total(Files)' = Total(Files) /\ Total(Ghosts)' = Total(Ghosts)
  BY <1>1 DEF Total
<1>4. /\ Total(Files) \in Nat /\ Total(Temps) \in Nat /\ Total(Ghosts) \in Nat
      /\ Total(Outs) \in Nat /\ leaked \in Nat /\ Capacity \in Nat
  BY <1>1, Measured, BlobAssumption
<1>5. QED
  BY <1>1, <1>2, <1>3, <1>4 DEF Fit, LoadOf

(* It ends, or goes on with the same temp file. *)
LEMMA FitOnwards ==
  ASSUME Inv, Inv', Fit, NEW p \in Proc, NEW w, Locals(p, w),
         UNCHANGED <<linked, orphans, leaked>>,
         \/ ~w.tmp /\ ~Receiving(w)
         \/ /\ w.written = proc[p].written /\ w.tmp = proc[p].tmp /\ w.key = proc[p].key
            /\ Receiving(w) => Receiving(proc[p]) \/ w.written = Size[w.key]
  PROVE  Fit'
<1>1. /\ proc[p].written \in Nat /\ Size[proc[p].key] \in Nat
      /\ proc[p].written <= Size[proc[p].key]
  BY InvParts, Sizes DEF Work, Frame
<1>2. LoadOf(w) <= LoadOf(proc[p])
  BY <1>1 DEF LoadOf, TempOf, OutstandingOf, Receiving
<1>3. QED
  BY <1>2, FitWriter

LEMMA QuietFit ==
  ASSUME Announced, Inv, Inv', Fit, AllPromised, AllPaid, NEW p \in Proc,
         \/ Arrive(p) \/ Stat(p) \/ TouchHead(p) \/ Lock(p) \/ Open(p) \/ Touch(p)
         \/ Leave(p) \/ CreateTemp(p) \/ Respond(p) \/ Reserve(p) \/ BookWritten(p) \/ Evict(p)
         \/ FreeOne(p) \/ Copy(p) \/ Landed(p) \/ Settle(p) \/ SettleDisk(p) \/ Add(p)
  PROVE  Fit'
<1> USE OwnFrame DEF Frame, At, Goto, Receiving
<1>a. UNCHANGED <<linked, orphans, leaked>>
  <2>1. CASE Open(p)
    BY <2>1 DEF Open
  <2>2. CASE ~Open(p)
    BY <2>2 DEF Arrive, Stat, TouchHead, Lock, Touch, Leave, CreateTemp, Respond, Reserve,
                BookWritten, Evict, FreeOne, Copy, Landed, Settle, SettleDisk, Add, disk
  <2>3. QED
    BY <2>1, <2>2
<1>1. /\ proc[p].written \in Nat /\ proc[p].written <= Size[proc[p].key]
      /\ Size[proc[p].key] \in Nat /\ Work(proc[p]) /\ Promised(proc[p]) /\ Paid(proc[p])
  BY InvParts, Sizes DEF Work, AllPromised, AllPaid
<1>2. CASE Arrive(p) \/ TouchHead(p) \/ Leave(p) \/ Touch(p)
  <2>1. ASSUME NEW w, Locals(p, w), ~w.tmp, ~Receiving(w) PROVE Fit'
    BY <1>a, <2>1, FitOnwards
  <2>2. CASE Arrive(p)
    <3>1. PICK k \in Key, first \in {"lock", "stat"} : Locals(p, [Idle(k) EXCEPT !.pc = first])
      BY <2>2 DEF Arrive
    <3> DEFINE w == [Idle(k) EXCEPT !.pc = first]
    <3>2. ~w.tmp /\ w.pc = first
      BY DEF Idle
    <3> HIDE DEF w
    <3>3. QED
      BY <2>1, <3>1, <3>2 DEF w
  <2>3. CASE TouchHead(p) \/ Leave(p)
    <3>1. Locals(p, Idle(AnyKey))
      BY <2>3 DEF TouchHead, Leave, Finish
    <3>2. ~Idle(AnyKey).tmp /\ Idle(AnyKey).pc = "idle"
      BY DEF Idle
    <3>3. QED
      BY <2>1, <3>1, <3>2
  <2>4. CASE Touch(p)
    <3> DEFINE w == [Idle(proc[p].key) EXCEPT !.pc = "serve", !.answer = "ok"]
    <3>1. Locals(p, w) /\ ~w.tmp /\ w.pc = "serve"
      BY <2>4 DEF Touch, Idle
    <3> HIDE DEF w
    <3>2. QED
      BY <2>1, <3>1
  <2>5. QED
    BY <1>2, <2>2, <2>3, <2>4
<1>3. ASSUME NEW w, Locals(p, w), ~Receiving(w), w.written = proc[p].written,
             w.tmp = proc[p].tmp, w.key = proc[p].key
      PROVE  Fit'
  BY <1>a, <1>3, FitOnwards
<1>4. CASE Stat(p) \/ Lock(p)
  <2> DEFINE w == [proc[p] EXCEPT !.pc = "open"]
             u == [proc[p] EXCEPT !.pc = IF proc[p].key \in DOMAIN linked THEN "head" ELSE "lock"]
  <2>1. Locals(p, w) \/ Locals(p, u)
    BY <1>4 DEF Stat, Lock
  <2>2. /\ w.pc = "open" /\ w.written = proc[p].written /\ w.tmp = proc[p].tmp
        /\ w.key = proc[p].key
        /\ u.pc \in {"head", "lock"} /\ u.written = proc[p].written /\ u.tmp = proc[p].tmp
        /\ u.key = proc[p].key
    OBVIOUS
  <2> HIDE DEF u, w
  <2>3. QED
    BY <1>3, <2>1, <2>2
<1>5. CASE Open(p)
  <2> DEFINE v == [proc[p] EXCEPT !.pc = "touch"]
             u == [proc[p] EXCEPT !.pc = "put"]
             w == [proc[p] EXCEPT !.pc = "unlock", !.answer = "notFound"]
  <2>1. Locals(p, v) \/ Locals(p, u) \/ Locals(p, w)
    <3>1. CASE proc[p].key \in DOMAIN linked
      BY <1>5, <3>1 DEF Open
    <3>2. CASE proc[p].key \notin DOMAIN linked
      BY <1>5, <3>2 DEF Open
    <3>3. QED
      BY <3>1, <3>2
  <2>2. /\ u.pc = "put" /\ v.pc = "touch" /\ w.pc = "unlock"
        /\ \A x \in {u, v, w} : x.written = proc[p].written /\ x.tmp = proc[p].tmp /\ x.key = proc[p].key
    OBVIOUS
  <2> HIDE DEF u, v, w
  <2>3. QED
    BY <1>3, <2>1, <2>2
<1>6. CASE CreateTemp(p)
  <2> DEFINE v == [proc[p] EXCEPT !.pc = "fetch", !.tmp = TRUE]
             w == [proc[p] EXCEPT !.pc = "unlock", !.answer = "badGateway"]
  <2>1. proc[p].pc = "put" /\ (Locals(p, v) \/ Locals(p, w))
    BY <1>6 DEF CreateTemp
  <2>2. /\ v.written = proc[p].written /\ v.pc = "fetch" /\ v.tmp
        /\ w.pc = "unlock" /\ w.written = proc[p].written /\ w.tmp = proc[p].tmp
        /\ w.key = proc[p].key
    OBVIOUS
  <2> HIDE DEF v, w
  <2>3. CASE Locals(p, v)
    <3>1. v.written = 0
      BY <1>1, <2>1, <2>2 DEF Promised, Before
    <3>2. LoadOf(v) = 0 /\ LoadOf(proc[p]) \in Nat
      BY <1>1, <2>2, <3>1 DEF LoadOf, TempOf, OutstandingOf
    <3>3. LoadOf(v) <= LoadOf(proc[p])
      BY <3>2
    <3>4. QED
      BY <1>a, <2>3, <3>3, FitWriter
  <2>4. QED
    BY <1>3, <2>1, <2>2, <2>3
<1>7. ASSUME NEW answer, Fail(p, answer) PROVE Fit'
  <2> DEFINE w == [proc[p] EXCEPT !.pc = "settle", !.then = "remove", !.answer = answer]
  <2>1. Locals(p, w) /\ w.pc = "settle" /\ w.written = proc[p].written /\ w.tmp = proc[p].tmp
        /\ w.key = proc[p].key
    BY <1>7 DEF Fail
  <2> HIDE DEF w
  <2>2. QED
    BY <1>3, <2>1
<1>8. CASE Respond(p)
  <2> DEFINE v == [proc[p] EXCEPT !.pc = "reserve"]
             w == [proc[p] EXCEPT !.pc = "copy"]
  <2>1. (\E answer : Fail(p, answer)) \/ Locals(p, v) \/ (Locals(p, w) /\ ~(Size[proc[p].key] > 0))
    <3>1. \A a \in Announce : a = TRUE
      BY BlobAssumption DEF Announced
    <3>2. CASE Size[proc[p].key] > 0
      BY <1>8, <3>1, <3>2 DEF Respond
    <3>3. CASE ~(Size[proc[p].key] > 0)
      BY <1>8, <3>1, <3>3 DEF Respond
    <3>4. QED
      BY <3>2, <3>3
  <2>2. /\ v.pc = "reserve" /\ w.pc = "copy"
        /\ \A x \in {v, w} : x.written = proc[p].written /\ x.tmp = proc[p].tmp /\ x.key = proc[p].key
    OBVIOUS
  <2> HIDE DEF v, w
  <2>3. CASE Locals(p, w) /\ ~(Size[proc[p].key] > 0)
    BY <1>a, <1>1, <2>2, <2>3, FitOnwards
  <2>4. QED
    BY <1>3, <1>7, <2>1, <2>2, <2>3
<1>9. CASE Reserve(p) \/ BookWritten(p)
  <2>1. PICK total, next : /\ Book(p, total, next)
                           /\ next = "claim" \/ (next = "copy" /\ proc[p].pc = "book")
    BY <1>9 DEF Reserve, BookWritten
  <2> DEFINE u == [proc[p] EXCEPT !.pc = next]
             v == [proc[p] EXCEPT !.pc = next, !.oversized = TRUE, !.booked = 0]
             x == [proc[p] EXCEPT !.pc = IF capped THEN "evict" ELSE next,
                                  !.then = next, !.booked = total]
  <2>2. Locals(p, u) \/ Locals(p, v) \/ Locals(p, x)
    BY <2>1 DEF Book
  <2>3. /\ u.pc = next /\ v.pc = next /\ x.pc \in {"evict", next}
        /\ \A y \in {u, v, x} : y.written = proc[p].written /\ y.tmp = proc[p].tmp /\ y.key = proc[p].key
    OBVIOUS
  <2> HIDE DEF u, v, x
  <2>4. ASSUME NEW y \in {u, v, x}, Locals(p, y) PROVE Fit'
    BY <1>a, <2>1, <2>3, <2>4, FitOnwards
  <2>5. QED
    BY <2>2, <2>4
<1>10. CASE Evict(p)
  <2>1. PICK v, pc : /\ Locals(p, [proc[p] EXCEPT !.victims = v, !.pc = pc])
                     /\ pc = proc[p].then \/ pc = "unlink"
    BY <1>10 DEF Evict
  <2> DEFINE w == [proc[p] EXCEPT !.victims = v, !.pc = pc]
  <2>2. /\ w.written = proc[p].written /\ w.tmp = proc[p].tmp /\ w.key = proc[p].key /\ w.pc = pc
    OBVIOUS
  <2>3. Locals(p, w)
    BY <2>1
  <2> HIDE DEF w
  <2>4. proc[p].then \in {"claim", "measure", "reopen"}
    BY <1>1, <1>10 DEF Evict, Work, Evicting, Promised
  <2>5. QED
    BY <1>3, <2>1, <2>2, <2>3, <2>4
<1>11. CASE FreeOne(p)
  <2> DEFINE w == [proc[p] EXCEPT !.pc = "unlink", !.then = "measure", !.victims = Victims(index, 1)]
  <2>1. Fail(p, "insufficient") \/ Locals(p, w)
    BY <1>11 DEF FreeOne, Refuse
  <2>2. w.pc = "unlink" /\ w.written = proc[p].written /\ w.tmp = proc[p].tmp /\ w.key = proc[p].key
    OBVIOUS
  <2> HIDE DEF w
  <2>3. QED
    BY <1>3, <1>7, <2>1, <2>2
<1>12. CASE Copy(p)
  <2> DEFINE v == [proc[p] EXCEPT !.pc = "close"]
             w == [proc[p] EXCEPT !.pc = "landed", !.written = @ + 1]
  <2>1. /\ v.pc = "close" /\ v.written = proc[p].written /\ v.tmp = proc[p].tmp /\ v.key = proc[p].key
        /\ w.pc = "landed" /\ w.written = proc[p].written + 1 /\ w.tmp = proc[p].tmp
        /\ w.key = proc[p].key
    OBVIOUS
  <2>2. Locals(p, v) \/ Fail(p, "badGateway") \/ (Locals(p, w) /\ proc[p].written < Size[proc[p].key])
    BY <1>12 DEF Copy
  <2>3. proc[p].pc = "copy"
    BY <1>12 DEF Copy
  <2> HIDE DEF v, w
  <2>4. CASE Locals(p, w) /\ proc[p].written < Size[proc[p].key]
    <3>1. LoadOf(w) <= LoadOf(proc[p])
      BY <1>1, <2>1, <2>3 DEF LoadOf, TempOf, OutstandingOf
    <3>2. QED
      BY <1>a, <2>4, <3>1, FitWriter
  <2>5. QED
    BY <1>3, <1>7, <2>1, <2>2, <2>4
<1>13. CASE Landed(p)
  <2> DEFINE n == IF proc[p].due > 0 THEN 1 ELSE 0
             w == [proc[p] EXCEPT !.pc = "book", !.due = @ - n]
  <2>1. Locals(p, w) /\ proc[p].pc = "landed"
    BY <1>13 DEF Landed
  <2> HIDE DEF n
  <2>2. w.written = proc[p].written /\ w.tmp = proc[p].tmp /\ w.key = proc[p].key
    OBVIOUS
  <2> HIDE DEF w
  <2>3. QED
    BY <1>a, <2>1, <2>2, FitOnwards
<1>14. CASE Settle(p) \/ SettleDisk(p) \/ Add(p)
  <2> DEFINE u == [proc[p] EXCEPT !.pc = "settleDisk", !.booked = 0]
             v == [proc[p] EXCEPT !.pc = proc[p].then, !.due = 0]
             w == [proc[p] EXCEPT !.then = "reopen",
                     !.pc = IF capped /\ ~proc[p].oversized THEN "evict" ELSE "reopen"]
  <2>1. Locals(p, u) \/ (Locals(p, v) /\ proc[p].pc = "settleDisk") \/ Locals(p, w)
    BY <1>14 DEF Settle, SettleDisk, Add
  <2>2. /\ u.pc = "settleDisk" /\ v.pc = proc[p].then /\ w.pc \in {"evict", "reopen"}
        /\ \A x \in {u, v, w} : x.written = proc[p].written /\ x.tmp = proc[p].tmp /\ x.key = proc[p].key
    OBVIOUS
  <2>3. proc[p].pc = "settleDisk" => proc[p].then \in {"remove", "add", "unlock"}
    BY <1>1 DEF Work, Settling
  <2> HIDE DEF u, v, w
  <2>4. QED
    BY <1>3, <2>1, <2>2, <2>3
<1>15. QED
  BY <1>2, <1>4, <1>5, <1>6, <1>8, <1>9, <1>10, <1>11, <1>12, <1>13, <1>14

(* A grant: what is free covers all that is due, and this blob. *)
LEMMA GrantFits ==
  ASSUME Inv, Inv', Fit, AllPromised, NEW p \in Proc, proc[p].pc \in {"claim", "measure"},
         Grant(p), Free >= Need(p), UNCHANGED <<linked, orphans, leaked>>
  PROVE  Fit'
<1> DEFINE n == Size[proc[p].key]
           w == [proc[p] EXCEPT !.pc = "copy", !.due = n]
<1>1. n \in Nat /\ Locals(p, w) /\ proc[p].written = 0
  BY OwnFrame, Sizes DEF Frame, Grant, AllPromised, Promised, Measuring
<1>2. w.pc = "copy" /\ w.written = proc[p].written /\ w.tmp = proc[p].tmp /\ w.key = proc[p].key
  BY OwnFrame DEF Frame
<1> HIDE DEF w
<1>3. TempOf(w) = TempOf(proc[p]) /\ OutstandingOf(w) = n /\ OutstandingOf(proc[p]) = 0
  BY <1>1, <1>2 DEF TempOf, OutstandingOf
<1>4. FewOrphans /\ FewOrphans' /\ Files' = Files /\ Ghosts' = Ghosts
  BY DEF Fit, FewOrphans, Files, Ghosts
<1>5. /\ Total(Temps)' = Total(Temps) - TempOf(proc[p]) + TempOf(w)
      /\ Total(Outs)' = Total(Outs) - OutstandingOf(proc[p]) + OutstandingOf(w)
      /\ TempOf(proc[p]) \in Nat
  BY <1>1, <1>4, WriterMoves
<1>6. Total(Files)' = Total(Files) /\ Total(Ghosts)' = Total(Ghosts)
  BY <1>4 DEF Total
<1>7. /\ Total(Files) \in Nat /\ Total(Temps) \in Nat /\ Total(Ghosts) \in Nat
      /\ Total(Outs) \in Nat /\ leaked \in Nat /\ Capacity \in Nat /\ pending \in Nat
      /\ DiskUse = Total(Files) + Total(Temps) + Total(Ghosts) + leaked
  BY <1>4, Measured, InvParts, BlobAssumption
<1>8. Total(Outs) <= pending /\ Capacity - DiskUse >= n + pending
  BY <1>4, DueCovers DEF Need, Free
<1> HIDE DEF n
<1>9. QED
  BY <1>1, <1>3, <1>4, <1>5, <1>6, <1>7, <1>8 DEF Fit

LEMMA LedgerFit ==
  ASSUME Announced, Inv, Inv', Fit, AllPromised, NEW p \in Proc, Claim(p) \/ Measure(p)
  PROVE  Fit'
<1>1. proc[p].pc \in {"claim", "measure"} /\ UNCHANGED <<linked, orphans, leaked>>
  BY DEF Claim, Measure, At, disk
<1>2. \A ok \in StatfsOk : ok = TRUE
  BY BlobAssumption DEF Announced
<1> DEFINE t == [proc[p] EXCEPT !.pc = "measure"]
           u == [proc[p] EXCEPT !.pc = "free"]
           v == [proc[p] EXCEPT !.pc = "settle", !.then = "remove", !.answer = "insufficient"]
<1>3. Locals(p, t) \/ Locals(p, u) \/ Locals(p, v) \/ (Grant(p) /\ ~(Free < Need(p)))
  <2>1. CASE Claim(p)
    BY <1>2, <2>1 DEF Claim, Goto
  <2>2. CASE Measure(p)
    <3>1. CASE Free >= Need(p)
      <4>1. Free \in Int /\ Need(p) \in Int
        <5>1. Free \in Int
          BY Measured, BlobAssumption DEF Free, Fit
        <5>2. Need(p) \in Int
          BY OwnFrame, InvParts, Sizes DEF Need, Frame
        <5>3. QED
          BY <5>1, <5>2
      <4>2. Grant(p)
        BY <1>2, <2>2, <3>1 DEF Measure
      <4>3. QED
        BY <3>1, <4>1, <4>2
    <3>2. CASE ~(Free >= Need(p))
      BY <1>2, <2>2, <3>2 DEF Measure, Goto, Refuse, Fail
    <3>3. QED
      BY <3>1, <3>2
  <2>3. QED
    BY <2>1, <2>2
<1>4. /\ t.pc = "measure" /\ u.pc = "free" /\ v.pc = "settle"
      /\ \A x \in {t, u, v} : x.written = proc[p].written /\ x.tmp = proc[p].tmp /\ x.key = proc[p].key
  BY OwnFrame DEF Frame
<1> HIDE DEF t, u, v
<1>5. ASSUME NEW x \in {t, u, v}, Locals(p, x) PROVE Fit'
  BY <1>1, <1>4, <1>5, FitOnwards DEF Receiving
<1>6. CASE Grant(p) /\ ~(Free < Need(p))
  <2>1. Free \in Int /\ Need(p) \in Int
    <3>1. Free \in Int
      BY Measured, BlobAssumption DEF Free, Fit
    <3>2. Need(p) \in Int
      BY OwnFrame, InvParts, Sizes DEF Need, Frame
    <3>3. QED
      BY <3>1, <3>2
  <2>2. Free >= Need(p)
    BY <1>6, <2>1
  <2>3. QED
    BY <1>1, <1>6, <2>2, GrantFits
<1>7. QED
  BY <1>3, <1>5, <1>6

-----------------------------------------------------------------------------
(* Steps that move files. *)
LEMMA FileMoves ==
  ASSUME Inv, Inv', FewOrphans, FewOrphans', NEW k \in Key,
         \A x \in Key \ {k} : Files'[x] = Files[x]
  PROVE  Total(Files)' = Total(Files) - Files[k] + Files'[k] /\ Files[k] \in Nat /\ Files'[k] \in Nat
<1>1. Files \in [Key -> 0..MaxEntry]
  BY Measured
<1>2. Files' \in [Key -> 0..MaxEntry]
  <2>1. Sums'
    BY SumsTyped, PTL
  <2>2. QED
    BY <2>1 DEF Sums
<1> DEFINE s == Files
           t == Files'
<1>3. Total(Files)' = Total(t)
  BY DEF Total
<1>4. s \in [Key -> 0..MaxEntry] /\ t \in [Key -> 0..MaxEntry] /\ \A x \in Key \ {k} : t[x] = s[x]
  BY <1>1, <1>2
<1> HIDE DEF s, t
<1>5. Total(t) = Total(s) - s[k] + t[k] /\ s[k] \in Nat /\ t[k] \in Nat
  BY <1>4, KeyAssumption, Sizes, TotalOfOneChanged
<1>6. QED
  BY <1>3, <1>5 DEF s, t

(* The last handle on an unlinked file frees its bytes. *)
LEMMA ServeFit == ASSUME Inv, Inv', Fit, NEW p \in Proc, Serve(p) PROVE Fit'
<1> DEFINE g == [f \in orphans |-> [f EXCEPT !.by = @ \ {p}]]
           w == Idle(AnyKey)
<1>1. /\ orphans' = {o \in {[f EXCEPT !.by = @ \ {p}] : f \in orphans} : o.by # {}}
      /\ Locals(p, w) /\ UNCHANGED <<linked, leaked>>
  BY DEF Serve, Finish
<1>2. \A o \in orphans : o \in [size : 0..MaxEntry, by : (SUBSET Proc) \ {{}}]
  BY InvParts
<1>3. /\ DOMAIN g = orphans /\ \A o \in orphans : o.size \in 0..MaxEntry /\ g[o].size = o.size
      /\ \A y \in orphans' : \E x \in orphans : y = g[x]
  BY <1>1, <1>2
<1> HIDE DEF g
<1>4. FewOrphans' /\ Total(Ghosts)' <= Total(Ghosts)
  <2> DEFINE S == orphans
             T == orphans'
  <2>1. IsFiniteSet(S)
    BY DEF Fit, FewOrphans
  <2>2. \A y \in T : \E x \in S : y = g[x]
    BY <1>3
  <2>3. DOMAIN g = S /\ \A x \in S : x.size \in 0..MaxEntry
    BY <1>3
  <2>4. \A x \in S : g[x].size = x.size
    BY <1>3
  <2> HIDE DEF S, T
  <2>5. IsFiniteSet(T)
    BY <2>1, <2>2, ImageIsFinite
  <2>6. Total([x \in T |-> x.size]) <= Total([x \in S |-> x.size])
    BY <2>1, <2>2, <2>3, <2>4, SizesOfImages
  <2>7. QED
    BY <2>5, <2>6 DEF FewOrphans, Ghosts, Total, S, T
<1>5. Files' = Files /\ Total(Files)' = Total(Files)
  BY <1>1 DEF Files, Total
<1>6. w.tmp = FALSE /\ w.pc = "idle"
  BY DEF Idle
<1> HIDE DEF w
<1>7. TempOf(w) = 0 /\ OutstandingOf(w) = 0
  BY <1>6 DEF TempOf, OutstandingOf
<1>8. /\ Total(Temps)' = Total(Temps) - TempOf(proc[p]) + TempOf(w)
      /\ Total(Outs)' = Total(Outs) - OutstandingOf(proc[p]) + OutstandingOf(w)
      /\ TempOf(proc[p]) \in Nat /\ OutstandingOf(proc[p]) \in Nat
  BY <1>1, <1>4, WriterMoves DEF Fit
<1>9. /\ Total(Files) \in Nat /\ Total(Temps) \in Nat /\ Total(Ghosts) \in Nat
      /\ Total(Outs) \in Nat /\ leaked \in Nat /\ Capacity \in Nat
  BY Measured, BlobAssumption DEF Fit
<1>10. Total(Ghosts)' \in Nat
  <2>1. Total(Ghosts') \in Nat
    BY <1>4, TotalIsNat DEF Ghosts, FewOrphans
  <2>2. QED
    BY <2>1 DEF Total
<1>11. QED
  BY <1>1, <1>4, <1>5, <1>7, <1>8, <1>9, <1>10 DEF Fit

(* Its bytes go with the file, or stay with whoever reads it. *)
LEMMA UnlinkFit ==
  ASSUME Announced, Inv, Inv', Fit, AllPromised, NEW p \in Proc, Unlink(p)
  PROVE  Fit'
<1> DEFINE w == [proc[p] EXCEPT !.victims = Tail(proc[p].victims),
                   !.pc = IF Tail(proc[p].victims) = <<>> THEN proc[p].then ELSE "unlink"]
           k == Head(proc[p].victims)
<1>1. Locals(p, w) /\ (RemoveFile(k) \/ UNCHANGED disk)
  BY DEF Unlink
<1>2. /\ w.written = proc[p].written /\ w.tmp = proc[p].tmp /\ w.key = proc[p].key
      /\ w.pc \in {proc[p].then, "unlink"}
  BY OwnFrame DEF Frame
<1>3. proc[p].pc = "unlink" /\ proc[p].then \in {"claim", "measure", "reopen"}
  BY InvParts DEF Unlink, At, Work, Evicting, AllPromised, Promised
<1>4. k \in Key
  BY <1>3, InvParts, UnlinkedOne DEF Work, Frame, OnlyVictims
<1> HIDE DEF w, k
<1>5. ~Receiving(w)
  BY <1>2, <1>3 DEF Receiving
<1>6. CASE UNCHANGED disk
  BY <1>1, <1>2, <1>5, <1>6, FitOnwards DEF disk
<1>7. CASE RemoveFile(k)
  <2> DEFINE o == [size |-> Files[k], by |-> reading[k]]
  <2>1. /\ linked' = [x \in DOMAIN linked \ {k} |-> linked[x]] /\ leaked' = leaked
        /\ orphans' = orphans \cup
             {[size |-> linked[x], by |-> reading[x]] :
                x \in {y \in DOMAIN linked \cap {k} : reading[y] # {}}}
    BY <1>7 DEF RemoveFile
  <2>2. Files \in [Key -> 0..MaxEntry] /\ Files[k] \in 0..MaxEntry /\ Files[k] \in Nat
    BY <1>4, Measured, Sizes DEF Fit
  <2>3. orphans' \in SUBSET (orphans \cup {o})
    BY <1>4, <2>1 DEF Files
  <2>4. FewOrphans' /\ Total(Ghosts)' <= Total(Ghosts) + Files[k] /\ Total(Ghosts') \in Nat
    <3>1. IsFiniteSet(orphans) /\ \A x \in orphans : x.size \in 0..MaxEntry
      BY InvParts DEF Fit, FewOrphans
    <3> DEFINE T == orphans'
    <3>2. T \in SUBSET (orphans \cup {o}) /\ o.size \in 0..MaxEntry /\ o.size = Files[k]
      BY <2>2, <2>3
    <3> HIDE DEF T, o
    <3>3. IsFiniteSet(T) /\ Total([x \in T |-> x.size]) <= Total([x \in orphans |-> x.size]) + o.size
      BY <3>1, <3>2, SizesOfMore
    <3>4. IsFiniteSet(orphans')
      BY <3>3 DEF T
    <3>5. Total(Ghosts') \in Nat
      BY <3>4, TotalIsNat DEF Ghosts
    <3>6. QED
      BY <3>2, <3>3, <3>4, <3>5 DEF FewOrphans, Ghosts, Total, T
  <2>5. (\A x \in Key \ {k} : Files'[x] = Files[x]) /\ Files'[k] = 0
    BY <1>4, <2>1 DEF Files
  <2>6. Total(Files)' = Total(Files) - Files[k]
    <3>1. Total(Files)' = Total(Files) - Files[k] + Files'[k] /\ Files[k] \in Nat /\ Files'[k] \in Nat
      BY <1>4, <2>4, <2>5, FileMoves DEF Fit
    <3>2. Total(Files) \in Nat
      BY Measured DEF Fit
    <3>3. QED
      BY <2>5, <3>1, <3>2
  <2>7. TempOf(w) = TempOf(proc[p]) /\ OutstandingOf(w) = 0 /\ OutstandingOf(proc[p]) = 0
    BY <1>2, <1>3, <1>5 DEF TempOf, OutstandingOf, Receiving
  <2>8. /\ Total(Temps)' = Total(Temps) - TempOf(proc[p]) + TempOf(w)
        /\ Total(Outs)' = Total(Outs) - OutstandingOf(proc[p]) + OutstandingOf(w)
        /\ TempOf(proc[p]) \in Nat
    BY <1>1, <2>4, WriterMoves DEF Fit
  <2>9. /\ Total(Files) \in Nat /\ Total(Temps) \in Nat /\ Total(Ghosts) \in Nat
        /\ Total(Outs) \in Nat /\ leaked \in Nat /\ Capacity \in Nat
    BY Measured, BlobAssumption DEF Fit
  <2>10. Total(Ghosts)' \in Nat
    BY <2>4 DEF Total
  <2>11. QED
    BY <2>1, <2>2, <2>4, <2>6, <2>7, <2>8, <2>9, <2>10 DEF Fit
<1>8. QED
  BY <1>1, <1>6, <1>7

(* The temp file becomes the committed one, or nobody's. *)
LEMMA CloseFit == ASSUME Inv, Inv', Fit, NEW p \in Proc, Close(p) PROVE Fit'
<1> DEFINE v == [proc[p] EXCEPT !.pc = "settle", !.then = "add", !.tmp = FALSE]
           w == [proc[p] EXCEPT !.pc = "settle", !.then = "unlock", !.tmp = FALSE,
                                !.answer = "badGateway"]
           k == proc[p].key
<1>1. \/ /\ Locals(p, v) /\ UNCHANGED leaked
         /\ linked' = [x \in DOMAIN linked \cup {k} |-> IF x = k THEN proc[p].written ELSE linked[x]]
      \/ Locals(p, w) /\ leaked' = leaked + proc[p].written /\ UNCHANGED linked
  BY DEF Close
<1>2. /\ proc[p].pc = "close" /\ UNCHANGED orphans /\ proc[p].tmp /\ k \in Key
      /\ k \notin DOMAIN linked /\ proc[p].written \in Nat
  BY InvParts, Sizes DEF Close, At, Work, Writing, Frame, Absent, Wants
<1>3. v.pc = "settle" /\ ~v.tmp /\ w.pc = "settle" /\ ~w.tmp
  BY OwnFrame DEF Frame
<1> HIDE DEF v, w, k
<1>4. FewOrphans /\ FewOrphans' /\ Ghosts' = Ghosts /\ Total(Ghosts)' = Total(Ghosts)
  BY <1>2 DEF Fit, FewOrphans, Ghosts, Total
<1>5. /\ Total(Files) \in Nat /\ Total(Temps) \in Nat /\ Total(Ghosts) \in Nat
      /\ Total(Outs) \in Nat /\ leaked \in Nat /\ Capacity \in Nat
  BY <1>4, Measured, BlobAssumption
<1>6. /\ TempOf(proc[p]) = proc[p].written /\ OutstandingOf(proc[p]) = 0
      /\ TempOf(v) = 0 /\ OutstandingOf(v) = 0 /\ TempOf(w) = 0 /\ OutstandingOf(w) = 0
  BY <1>2, <1>3 DEF TempOf, OutstandingOf
<1>7. ASSUME NEW x, Locals(p, x), TempOf(x) = 0, OutstandingOf(x) = 0
      PROVE  Total(Temps)' = Total(Temps) - proc[p].written /\ Total(Outs)' = Total(Outs)
  <2>1. /\ Total(Temps)' = Total(Temps) - TempOf(proc[p]) + TempOf(x)
        /\ Total(Outs)' = Total(Outs) - OutstandingOf(proc[p]) + OutstandingOf(x)
    BY <1>4, <1>7, WriterMoves
  <2>2. QED
    BY <1>2, <1>5, <1>6, <1>7, <2>1
<1>8. CASE /\ Locals(p, v) /\ UNCHANGED leaked
           /\ linked' = [x \in DOMAIN linked \cup {k} |-> IF x = k THEN proc[p].written ELSE linked[x]]
  <2>1. /\ \A x \in Key \ {k} : Files'[x] = Files[x]
        /\ Files[k] = 0 /\ Files'[k] = proc[p].written
    BY <1>2, <1>8 DEF Files
  <2>2. Total(Files)' = Total(Files) - Files[k] + Files'[k]
    BY <1>2, <1>4, <2>1, FileMoves
  <2>3. QED
    BY <1>2, <1>4, <1>5, <1>6, <1>7, <1>8, <2>1, <2>2 DEF Fit
<1>9. CASE Locals(p, w) /\ leaked' = leaked + proc[p].written /\ UNCHANGED linked
  <2>1. Total(Files)' = Total(Files)
    BY <1>9 DEF Files, Total
  <2>2. QED
    BY <1>2, <1>4, <1>5, <1>6, <1>7, <1>9, <2>1 DEF Fit
<1>10. QED
  BY <1>1, <1>8, <1>9

LEMMA RemoveTempFit ==
  ASSUME Inv, Inv', Fit, AllPromised, NEW p \in Proc, RemoveTemp(p)
  PROVE  Fit'
<1> DEFINE w == Idle(AnyKey)
<1>1. /\ Locals(p, w) /\ leaked' \in {leaked, leaked + proc[p].written} /\ UNCHANGED <<linked, orphans>>
  BY DEF RemoveTemp, Finish
<1>2. proc[p].pc = "remove" /\ proc[p].tmp /\ proc[p].written \in Nat
  BY InvParts, Sizes DEF RemoveTemp, At, AllPromised, Promised, Frame
<1>3. ~w.tmp /\ w.pc = "idle"
  BY DEF Idle
<1> HIDE DEF w
<1>4. /\ TempOf(proc[p]) = proc[p].written /\ OutstandingOf(proc[p]) = 0
      /\ TempOf(w) = 0 /\ OutstandingOf(w) = 0
  BY <1>2, <1>3 DEF TempOf, OutstandingOf
<1>5. /\ FewOrphans /\ FewOrphans' /\ Total(Ghosts)' = Total(Ghosts) /\ Total(Files)' = Total(Files)
  BY <1>1 DEF Fit, FewOrphans, Ghosts, Files, Total
<1>6. /\ Total(Temps)' = Total(Temps) - TempOf(proc[p]) + TempOf(w)
      /\ Total(Outs)' = Total(Outs) - OutstandingOf(proc[p]) + OutstandingOf(w)
  BY <1>1, <1>5, WriterMoves
<1>7. /\ Total(Files) \in Nat /\ Total(Temps) \in Nat /\ Total(Ghosts) \in Nat
      /\ Total(Outs) \in Nat /\ leaked \in Nat /\ Capacity \in Nat
  BY <1>5, Measured, BlobAssumption
<1>8. QED
  BY <1>1, <1>2, <1>4, <1>5, <1>6, <1>7 DEF Fit

(* A restart writes nothing: what was in flight is abandoned on disk. *)
LEMMA RestartFit == ASSUME Inv, Inv', Fit, CrashRestart PROVE Fit'
<1>1. /\ leaked' = leaked + TempBytes /\ orphans' = {}
      /\ proc' = [p \in Proc |-> Idle(AnyKey)]
  BY DEF CrashRestart
<1>2. Total(Ghosts)' = 0 /\ FewOrphans'
  <2>1. IsFiniteSet({})
    BY FS_EmptySet
  <2>2. FewOrphans'
    BY <1>1, <2>1 DEF FewOrphans
  <2>3. DOMAIN Ghosts' = {}
    BY <1>1 DEF Ghosts
  <2>4. Total(Ghosts') = 0
    BY <2>3, TotalOfZeros
  <2>5. QED
    BY <2>2, <2>4 DEF Total
<1>3. Total(Temps)' = 0 /\ Total(Outs)' = 0
  <2>1. \A p \in Proc : ~proc'[p].tmp /\ proc'[p].pc = "idle"
    BY <1>1 DEF Idle
  <2>2. \A p \in Proc : Temps'[p] = 0 /\ Outs'[p] = 0
    BY <2>1 DEF Temps, Outs, TempOf, OutstandingOf
  <2>3. DOMAIN Temps' = Proc /\ DOMAIN Outs' = Proc
    BY DEF Temps, Outs
  <2>4. Total(Temps') = 0 /\ Total(Outs') = 0
    BY <2>2, <2>3, TotalOfZeros
  <2>5. QED
    BY <2>4 DEF Total
<1>4. DOMAIN linked' \subseteq DOMAIN linked /\ \A k \in DOMAIN linked' : linked'[k] = linked[k]
  <2>1. CASE capped'
    <3>1. PICK l \in Listing(DOMAIN linked) :
            \E n \in 0..Len(l) : /\ index' = Popped(Scanned(l, linked), n)
                                 /\ linked' = [k \in DOMAIN index'.entries |-> linked[k]]
      BY <2>1 DEF CrashRestart
    <3>2. PICK n \in 0..Len(l) : /\ index' = Popped(Scanned(l, linked), n)
                                 /\ linked' = [k \in DOMAIN index'.entries |-> linked[k]]
      BY <3>1
    <3>3. /\ DOMAIN linked \in SUBSET Key /\ Measures(linked, DOMAIN linked)
      BY InvParts DEF TypeOK, Measures
    <3> DEFINE scanned == Scanned(l, linked)
    <3>4. IsScan(scanned, l, DOMAIN linked, linked)
      BY <3>3, ScannedIsSound
    <3>5. index' = Popped(scanned, n)
      BY <3>2
    <3> HIDE DEF scanned
    <3>6. Sound(scanned) /\ DOMAIN scanned.entries = DOMAIN linked /\ n \in 0..Len(scanned.lru)
      BY <3>4 DEF IsScan
    <3>7. DOMAIN index'.entries \subseteq DOMAIN linked
      BY <3>5, <3>6, PoppedKeeps
    <3>8. QED
      BY <3>2, <3>7
  <2>2. CASE ~capped'
    BY <2>2 DEF CrashRestart
  <2>3. QED
    BY <2>1, <2>2
<1>5. Total(Files)' <= Total(Files) /\ Total(Files)' \in Nat
  <2>1. Files \in [Key -> 0..MaxEntry]
    BY Measured DEF Fit
  <2>2. DOMAIN Files' = Key /\ \A k \in Key : Files'[k] \in 0..MaxEntry /\ Files'[k] <= Files[k]
    <3>1. DOMAIN Files' = Key
      BY DEF Files
    <3>2. ASSUME NEW k \in Key PROVE Files'[k] \in 0..MaxEntry /\ Files'[k] <= Files[k]
      <4>1. Files'[k] = Files[k] \/ Files'[k] = 0
        BY <1>4 DEF Files
      <4>2. Files[k] \in 0..MaxEntry
        BY <2>1
      <4>3. QED
        BY <4>1, <4>2, Sizes
    <3>3. QED
      BY <3>1, <3>2
  <2> DEFINE s == Files
             t == Files'
  <2>3. s \in [Key -> 0..MaxEntry] /\ DOMAIN t = Key /\ \A k \in Key : t[k] \in 0..MaxEntry /\ t[k] <= s[k]
    BY <2>1, <2>2
  <2> HIDE DEF s, t
  <2>4. Total(t) <= Total(s) /\ Total(t) \in Nat
    BY <2>3, KeyAssumption, TotalMonotonic
  <2>5. QED
    BY <2>4 DEF s, t, Total
<1>6. TempBytes = Total(Temps)
  BY TempsAreBytes, InvParts
<1>7. /\ Total(Files) \in Nat /\ Total(Temps) \in Nat /\ Total(Ghosts) \in Nat
      /\ Total(Outs) \in Nat /\ leaked \in Nat /\ Capacity \in Nat
  BY Measured, BlobAssumption DEF Fit
<1>8. QED
  BY <1>1, <1>2, <1>3, <1>5, <1>6, <1>7 DEF Fit

LEMMA InitFits == Init => Fit
<1> SUFFICES ASSUME Init PROVE Fit
  OBVIOUS
<1>1. /\ orphans = {} /\ leaked = 0 /\ proc = [p \in Proc |-> Idle(AnyKey)] /\ DOMAIN linked = {}
  BY DEF Init
<1>2. FewOrphans
  BY <1>1, FS_EmptySet DEF FewOrphans
<1>3. \A p \in Proc : Temps[p] = 0 /\ Outs[p] = 0
  BY <1>1 DEF Temps, Outs, TempOf, OutstandingOf, Idle
<1>4. \A k \in Key : Files[k] = 0
  BY <1>1 DEF Files
<1>5. DOMAIN Temps = Proc /\ DOMAIN Outs = Proc /\ DOMAIN Files = Key /\ DOMAIN Ghosts = {}
  BY <1>1 DEF Temps, Outs, Files, Ghosts
<1>6. Total(Temps) = 0 /\ Total(Outs) = 0 /\ Total(Files) = 0 /\ Total(Ghosts) = 0
  BY <1>3, <1>4, <1>5, TotalOfZeros
<1>7. QED
  BY <1>1, <1>2, <1>6, BlobAssumption DEF Fit

LEMMA AlwaysPromised == ASSUME Announced PROVE Spec => []AllPromised
<1>1. Init => AllPromised
  <2> SUFFICES ASSUME Init, NEW p \in Proc PROVE Promised(proc[p])
    BY DEF AllPromised
  <2>1. proc[p] = Idle(AnyKey)
    BY DEF Init
  <2>2. QED
    BY <2>1, IdlePromised
<1>2. Inv /\ AllPaid /\ AllPromised /\ [Next]_vars => AllPromised'
  <2> SUFFICES ASSUME Inv, AllPaid, AllPromised, [Next]_vars PROVE AllPromised'
    OBVIOUS
  <2>1. CASE UNCHANGED vars
    BY <2>1 DEF vars, AllPromised, Promised, Before, Measuring, Receiving, Evicting, Settling
  <2>2. CASE CrashRestart
    <3>1. proc' = [p \in Proc |-> Idle(AnyKey)]
      BY <2>2 DEF CrashRestart
    <3>2. \A p \in Proc : Promised(proc'[p])
      BY <3>1, IdlePromised
    <3>3. QED
      BY <3>2 DEF AllPromised, Promised, Before, Measuring, Receiving, Evicting, Settling
  <2>3. QED
    BY <2>1, <2>2, StepPromised DEF Next
<1>3. QED
  BY <1>1, <1>2, SpecKeepsInv, AlwaysPaid, PTL DEF Spec

(* If upstream announces every blob and the disk can be measured, a grant  *)
(* is good: the bytes that granted downloads have yet to write are free,   *)
(* so none of them meets a full disk, whatever else is downloaded, evicted, *)
(* read after its unlink or left behind by a crash.                        *)
THEOREM GrantedBytesFit ==
  ASSUME FALSE \notin Announce, FALSE \notin StatfsOk
  PROVE  Spec => []AnnouncedBytesFit
<1>1. Announced
  BY DEF Announced
<1>2. Inv /\ Inv' /\ Fit /\ AllPaid /\ AllPromised /\ [Next]_vars => Fit'
  <2> SUFFICES ASSUME Inv, Inv', Fit, AllPaid, AllPromised, [Next]_vars PROVE Fit'
    OBVIOUS
  <2>1. CASE UNCHANGED vars
    BY <2>1 DEF vars, Fit, FewOrphans, Temps, Outs, Files, Ghosts, Total, TempOf, OutstandingOf
  <2>2. ASSUME NEW p \in Proc, Arrive(p) \/ Step(p) PROVE Fit'
    BY <1>1, <2>2, QuietFit, LedgerFit, ServeFit, UnlinkFit, CloseFit, RemoveTempFit DEF Step
  <2>3. QED
    BY <2>1, <2>2, RestartFit DEF Next
<1>3. Inv /\ Fit => AnnouncedBytesFit
  BY FitIs
<1>4. Spec => []AllPromised
  BY <1>1, AlwaysPromised
<1>5. QED
  BY <1>2, <1>3, <1>4, InitFits, SpecKeepsInv, AlwaysPaid, PTL DEF Spec

-----------------------------------------------------------------------------
(* What the requests inherit from the evictor: if no eviction is owed, the *)
(* cap is kept.                                                            *)
CapKept == Debts = 0 => WarmFits(index)

LEMMA FreshAgain ==
  ASSUME NEW ix, E!IsFresh(ix)
  PROVE  IsFresh(ix)
  BY DEF E!IsFresh, IsFresh, E!Listing, Listing, E!Scanned, Scanned, E!OverCap, OverCap,
         E!Elements, Elements, E!Once, Once, E!Bytes, Bytes, E!Total, Total,
         E!Cardinality, Cardinality

LEMMA SameJudgement ==
  ASSUME NEW ix
  PROVE  /\ E!Counted(ix) <=> Counted(ix)
         /\ E!ColdBehind(ix.lru, ix.entries) <=> ColdBehind(ix.lru, ix.entries)
         /\ E!WarmFits(ix) <=> WarmFits(ix)
<1>1. \A e, K : E!Bytes(e, K) = Bytes(e, K)
  BY DEF E!Bytes, Bytes, E!Total, Total, E!Cardinality, Cardinality
<1>2. E!WarmKeys(ix) = WarmKeys(ix)
  BY DEF E!WarmKeys, WarmKeys
<1>3. QED
  BY <1>1, <1>2 DEF E!Counted, Counted, E!ColdBehind, ColdBehind, E!WarmFits, WarmFits

(* Fewer entries or bytes in flight, and no debt paid: the cap is kept. *)
LEMMA LessKeepsCap ==
  ASSUME Inv, Inv', CapKept, Debts' = Debts,
         WarmKeys(index') \subseteq WarmKeys(index),
         \A k \in WarmKeys(index') : index'.entries[k].size = index.entries[k].size,
         index'.inflight <= index.inflight
  PROVE  CapKept'
<1>1. Sound(index) /\ Sound(index')
  BY InvParts DEF Capping, Inv
<1>2. WarmFits(index) => WarmFits(index')
  BY <1>1, FewerStillFit
<1>3. QED
  BY <1>2 DEF CapKept, WarmFits, WarmKeys

LEMMA AddKeepsCap ==
  ASSUME Inv, Inv', CapKept, NEW k \in Key, NEW size \in 0..MaxEntry, NEW cold \in BOOLEAN,
         E!Add(k, size, cold)
  PROVE  CapKept'
<1>1. /\ Sound(index) /\ index.inflight \in Nat /\ Debts \in Nat
  BY InvParts, SoundParts, Bounds DEF Capping
<1>2. /\ index' = Added(index, k, size, cold)
      /\ Debts' = IF cold THEN Debts ELSE Debts + 1
  BY SameAdded DEF E!Add, Debts, Owing
<1>3. CASE ~cold
  BY <1>1, <1>2, <1>3 DEF CapKept
<1>4. CASE cold
  <2>1. /\ DOMAIN index'.entries = DOMAIN index.entries \cup {k}
        /\ index'.entries[k] = [size |-> size, cold |-> cold]
        /\ \A x \in DOMAIN index.entries \ {k} : index'.entries[x] = index.entries[x]
        /\ index'.inflight = index.inflight
    BY <1>1, <1>2, AddedKeeps
  <2>2. WarmKeys(index') \subseteq WarmKeys(index) \ {k}
    BY <1>4, <2>1 DEF WarmKeys
  <2>3. \A x \in WarmKeys(index') : index'.entries[x].size = index.entries[x].size
    BY <2>1, <2>2 DEF WarmKeys
  <2>4. Debts' = Debts
    BY <1>2, <1>4, Zenon
  <2>5. index'.inflight <= index.inflight
    BY <1>1, <2>1
  <2>6. WarmKeys(index') \subseteq WarmKeys(index)
    BY <2>2
  <2>7. QED
    BY <2>3, <2>4, <2>5, <2>6, LessKeepsCap
<1>5. QED
  BY <1>3, <1>4

LEMMA StepKeepsCap ==
  ASSUME Inv, Inv', CapKept, [E!Next]_(E!vars)
  PROVE  CapKept'
<1>1. /\ Sound(index) /\ index.inflight \in Nat /\ Debts \in Nat
      /\ index.lru \in Seq(Key) /\ Len(index.lru) \in Nat
  BY InvParts, SoundParts, Bounds, LenProperties DEF Capping
<1>2. CASE UNCHANGED E!vars
  <2>1. index' = index /\ Debts' = Debts
    BY <1>2 DEF E!vars, Debts, Owing
  <2>2. QED
    BY <1>1, <2>1, LessKeepsCap
<1>3. ASSUME NEW k \in Key, E!Touch(k) PROVE CapKept'
  <2>1. index' = Touched(index, k) /\ Debts' = Debts
    BY <1>3, SameTouched DEF E!Touch, Debts, Owing
  <2>2. index'.entries = index.entries /\ index'.inflight = index.inflight
    BY <1>1, <2>1, TouchedKeeps
  <2>3. WarmKeys(index') = WarmKeys(index)
    BY <2>2 DEF WarmKeys
  <2>4. QED
    BY <1>1, <2>1, <2>2, <2>3, LessKeepsCap
<1>4. ASSUME NEW n \in 1..MayBook, E!Reserve(n) PROVE CapKept'
  <2>1. Debts' = Debts + 1
    BY <1>4 DEF E!Reserve, Debts, Owing
  <2>2. QED
    BY <1>1, <2>1 DEF CapKept
<1>5. ASSUME NEW n \in 1..MayBook, E!Release(n) PROVE CapKept'
  <2>1. index' = Released(index, n) /\ Debts' = Debts /\ n <= index.inflight /\ n \in Nat
    BY <1>5, SameMoved, Bounds DEF E!Release, Debts, Owing
  <2>2. index' = [index EXCEPT !.inflight = index.inflight - n]
    BY <2>1 DEF Released
  <2>3. index.inflight - n \in Nat /\ index.inflight - n <= index.inflight
    BY <1>1, <2>1
  <2>4. index'.entries = index.entries /\ index'.inflight = index.inflight - n
    BY <1>1, <2>2, <2>3, InflightKeeps
  <2>5. WarmKeys(index') = WarmKeys(index)
    BY <2>4 DEF WarmKeys
  <2>6. QED
    BY <2>1, <2>3, <2>4, <2>5, LessKeepsCap
<1>6. CASE E!EvictIfNeeded
  <2>1. PICK n \in 0..Len(index.lru) : Evicts(index, n) /\ index' = Popped(index, n)
    BY <1>6, SameEvicts, SamePopped DEF E!EvictIfNeeded
  <2>2. WarmFits(index')
    BY <1>1, <2>1, EvictionRestoresCap
  <2>3. QED
    BY <2>2 DEF CapKept, WarmFits, WarmKeys
<1>7. CASE E!FreeOne
  <2>1. index' = Popped(index, 1) /\ Debts' = Debts /\ index.lru # <<>>
    BY <1>7, SamePopped DEF E!FreeOne, Debts, Owing
  <2>2. 1 \in 0..Len(index.lru)
    BY <1>1, <2>1, EmptySeq
  <2>3. /\ index'.inflight = index.inflight
        /\ DOMAIN index'.entries \subseteq DOMAIN index.entries
        /\ \A k \in DOMAIN index'.entries : index'.entries[k] = index.entries[k]
    BY <1>1, <2>1, <2>2, PoppedKeeps
  <2>4. /\ WarmKeys(index') \subseteq WarmKeys(index)
        /\ \A k \in WarmKeys(index') : index'.entries[k].size = index.entries[k].size
    BY <2>3 DEF WarmKeys
  <2>5. QED
    BY <1>1, <2>1, <2>3, <2>4, LessKeepsCap
<1>8. CASE E!Restart
  <2>1. IsFresh(index')
    BY <1>8, FreshAgain DEF E!Restart
  <2>2. WarmFits(index')
    BY <2>1, FreshIsSound
  <2>3. QED
    BY <2>2 DEF CapKept, WarmFits, WarmKeys
<1>9. QED
  BY <1>2, <1>3, <1>4, <1>5, <1>6, <1>7, <1>8, AddKeepsCap DEF E!Next, MayBook

(* The evictor's promises, of the index that the requests share: its       *)
(* counter is exact, oversized blobs go first, and whenever no request has *)
(* an evictIfNeeded still to run, the blobs that can be kept fit under the *)
(* cap together with all bytes reserved, or none is left.                  *)
THEOREM RequestsKeepCap ==
  Spec => [](E!Accounting /\ E!ColdLast /\ E!WarmWithinCap)
<1>1. Init => Cold /\ CapKept
  <2> SUFFICES ASSUME Init PROVE Cold /\ CapKept
    OBVIOUS
  <2>1. proc = [q \in Proc |-> Idle(AnyKey)]
    BY DEF Init
  <2>2. Cold
    BY <2>1 DEF Cold, Idle
  <2>3. WarmFits(index)
    BY EmptyIsFresh, FreshIsSound DEF Init
  <2>4. QED
    BY <2>2, <2>3 DEF CapKept
<1>2. Inv /\ Inv' /\ Cold /\ CapKept /\ [Next]_vars => Cold' /\ CapKept'
  BY NextIsSeen, StepKeepsCap
<1>3. Inv /\ CapKept => E!Accounting /\ E!ColdLast /\ E!WarmWithinCap
  <2> SUFFICES ASSUME Inv, CapKept PROVE E!Accounting /\ E!ColdLast /\ E!WarmWithinCap
    OBVIOUS
  <2>1. Counted(index) /\ ColdBehind(index.lru, index.entries) /\ Debts \in Nat
    BY InvParts, Bounds DEF Capping, Sound
  <2>2. Debts > 0 \/ E!WarmFits(index)
    BY <2>1, SameJudgement DEF CapKept
  <2>3. QED
    BY <2>1, <2>2, SameJudgement DEF E!Accounting, E!ColdLast, E!WarmWithinCap, Debts, Owing
<1>4. QED
  BY <1>1, <1>2, <1>3, SpecKeepsInv, PTL DEF Spec

(* A step that evicts takes cold blobs first. *)
ColdFirst ==
  \A k \in WarmKeys(index) : k \notin DOMAIN index'.entries
    => \A c \in DOMAIN index'.entries : ~index'.entries[c].cold

LEMMA PoppingTakesCold ==
  ASSUME Sound(index), NEW n \in 0..Len(index.lru), index' = Popped(index, n)
  PROVE  ColdFirst
<1> SUFFICES ASSUME NEW k \in WarmKeys(index), k \notin DOMAIN index'.entries,
                    NEW c \in DOMAIN index'.entries
             PROVE  ~index'.entries[c].cold
  BY DEF ColdFirst
<1>1. k \in DOMAIN index.entries /\ ~index.entries[k].cold
  BY DEF WarmKeys
<1>2. /\ DOMAIN index'.entries = DOMAIN index.entries \ Coldest(index, n)
      /\ index'.entries[c] = index.entries[c]
      /\ \A x \in Coldest(index, n), y \in DOMAIN index'.entries :
           index.entries[y].cold => index.entries[x].cold
  BY PoppedKeeps
<1>3. QED
  BY <1>1, <1>2

LEMMA StepTakesCold == ASSUME Inv, E!Next PROVE ColdFirst
<1>1. Sound(index) /\ index.lru \in Seq(Key) /\ Len(index.lru) \in Nat
  BY InvParts, SoundParts, LenProperties DEF Capping
<1>2. ASSUME DOMAIN index.entries \subseteq DOMAIN index'.entries PROVE ColdFirst
  BY <1>2 DEF ColdFirst, WarmKeys
<1>3. ASSUME NEW k \in Key, E!Touch(k) PROVE ColdFirst
  <2>1. index'.entries = index.entries
    BY <1>1, <1>3, SameTouched, TouchedKeeps DEF E!Touch
  <2>2. QED
    BY <1>2, <2>1
<1>4. ASSUME NEW k \in Key, NEW size \in 0..MaxEntry, NEW cold \in BOOLEAN,
             E!Add(k, size, cold)
      PROVE  ColdFirst
  <2>1. index' = Added(index, k, size, cold)
    BY <1>4, SameAdded DEF E!Add
  <2>2. DOMAIN Added(index, k, size, cold).entries = DOMAIN index.entries \cup {k}
    BY <1>1 DEF Added, Sound, WellFormed, Index
  <2>3. QED
    BY <1>2, <2>1, <2>2
<1>5. ASSUME NEW n \in 1..MayBook, E!Reserve(n) \/ E!Release(n) PROVE ColdFirst
  <2>1. index' = Reserved(index, n) \/ index' = Released(index, n)
    BY <1>5, SameMoved DEF E!Reserve, E!Release
  <2>2. index'.entries = index.entries
    <3>1. index \in Index
      BY <1>1 DEF Sound, WellFormed
    <3>2. Reserved(index, n).entries = index.entries /\ Released(index, n).entries = index.entries
      BY <3>1 DEF Reserved, Released, Index
    <3>3. QED
      BY <2>1, <3>2
  <2>3. QED
    BY <1>2, <2>2
<1>6. CASE E!EvictIfNeeded
  <2>1. PICK n \in 0..Len(index.lru) : index' = Popped(index, n)
    BY <1>6, SamePopped DEF E!EvictIfNeeded
  <2>2. QED
    BY <1>1, <2>1, PoppingTakesCold
<1>7. CASE E!FreeOne
  <2>1. index' = Popped(index, 1) /\ index.lru # <<>>
    BY <1>7, SamePopped DEF E!FreeOne
  <2>2. 1 \in 0..Len(index.lru)
    BY <1>1, <2>1, EmptySeq
  <2>3. QED
    BY <1>1, <2>1, <2>2, PoppingTakesCold
<1>8. CASE E!Restart
  <2>1. IsFresh(index')
    BY <1>8, FreshAgain DEF E!Restart
  <2>2. WarmKeys(index') = DOMAIN index'.entries
    BY <2>1, FreshIsSound
  <2>3. QED
    BY <2>2 DEF ColdFirst, WarmKeys
<1>9. QED
  BY <1>3, <1>4, <1>5, <1>6, <1>7, <1>8 DEF E!Next, MayBook

(* And no eviction, by whichever request and for the cap or for the disk,  *)
(* takes a blob that fits while an oversized one stays.                    *)
THEOREM RequestsEvictColdFirst == Spec => E!ColdGoesFirst
<1>1. Init => Cold
  BY DEF Init, Cold, Idle
<1>2. Inv /\ Inv' /\ Cold /\ [Next]_vars => Cold' /\ [ColdFirst]_(E!vars)
  BY NextIsSeen, StepTakesCold
<1>3. [ColdFirst]_(E!vars) =>
        [\A k \in E!WarmKeys(index) : k \notin DOMAIN index'.entries
           => \A c \in DOMAIN index'.entries : ~index'.entries[c].cold]_(E!vars)
  BY DEF ColdFirst, E!WarmKeys, WarmKeys
<1>4. QED
  BY <1>1, <1>2, <1>3, SpecKeepsInv, PTL DEF Spec, E!ColdGoesFirst
=============================================================================
