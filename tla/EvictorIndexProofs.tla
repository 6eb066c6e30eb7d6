------------------------- MODULE EvictorIndexProofs -------------------------
(* What the operators on an index preserve, for every value of the constants. *)
EXTENDS EvictorIndex, FiniteSetTheorems, SequenceTheorems, TLAPS

-----------------------------------------------------------------------------
(* Sums of sizes. *)

ByteSet(e, K) == {b \in K \X (1..MaxEntry) : b[2] <= e[b[1]].size}

(* A sum of sizes is the cardinality of a finite set of bytes. *)
LEMMA BytesAreFinite ==
  ASSUME NEW e, NEW K \in SUBSET Key
  PROVE  /\ IsFiniteSet(ByteSet(e, K))
         /\ Bytes(e, K) = Cardinality(ByteSet(e, K))
         /\ Bytes(e, K) \in Nat
<1>1. IsFiniteSet(K) BY KeyAssumption, FS_Subset
<1>2. IsFiniteSet(1..MaxEntry) BY SizeAssumption, FS_Interval
<1>3. IsFiniteSet(K \X (1..MaxEntry)) BY <1>1, <1>2, FS_Product
<1>4. ByteSet(e, K) \in SUBSET (K \X (1..MaxEntry)) BY DEF ByteSet
<1>5. IsFiniteSet(ByteSet(e, K)) BY <1>3, <1>4, FS_Subset
<1>6. Bytes(e, K) = Cardinality(ByteSet(e, K))
  BY DEF Bytes, Total, ByteSet
<1>7. QED BY <1>5, <1>6, FS_CardinalityType

(* Disjoint sets of keys add up. *)
LEMMA BytesAddUp ==
  ASSUME NEW e, NEW K \in SUBSET Key, NEW L \in SUBSET Key, K \cap L = {}
  PROVE  Bytes(e, K \cup L) = Bytes(e, K) + Bytes(e, L)
<1>1. ByteSet(e, K \cup L) = ByteSet(e, K) \cup ByteSet(e, L)
  BY DEF ByteSet
<1>2. ByteSet(e, K) \cap ByteSet(e, L) = {}
  BY DEF ByteSet
<1>3. /\ IsFiniteSet(ByteSet(e, K)) /\ IsFiniteSet(ByteSet(e, L))
      /\ Bytes(e, K) = Cardinality(ByteSet(e, K)) /\ Bytes(e, K) \in Nat
      /\ Bytes(e, L) = Cardinality(ByteSet(e, L)) /\ Bytes(e, L) \in Nat
      /\ Bytes(e, K \cup L) = Cardinality(ByteSet(e, K \cup L))
  BY BytesAreFinite
<1>4. Cardinality(ByteSet(e, K) \cup ByteSet(e, L)) =
        Cardinality(ByteSet(e, K)) + Cardinality(ByteSet(e, L))
          - Cardinality(ByteSet(e, K) \cap ByteSet(e, L))
  BY <1>3, FS_Union
<1>5. Cardinality(ByteSet(e, K) \cap ByteSet(e, L)) = 0
  BY <1>2, FS_EmptySet
<1>6. Bytes(e, K \cup L) = Cardinality(ByteSet(e, K) \cup ByteSet(e, L))
  BY <1>1, <1>3
<1>7. Bytes(e, K \cup L) = Bytes(e, K) + Bytes(e, L) - 0
  BY <1>3, <1>4, <1>5, <1>6
<1>8. QED BY <1>3, <1>7

(* The interval that stands for the bytes of one key. *)
LEMMA OneToN ==
  ASSUME NEW n \in Nat
  PROVE  IsFiniteSet(1..n) /\ Cardinality(1..n) = n
<1>1. 1 \in Int /\ n \in Int
  OBVIOUS
<1>2. IsFiniteSet(1..n) /\ Cardinality(1..n) = IF 1 > n THEN 0 ELSE n - 1 + 1
  BY <1>1, FS_Interval
<1>3. (IF 1 > n THEN 0 ELSE n - 1 + 1) = n
  OBVIOUS
<1>4. QED BY <1>2, <1>3

(* One key counts for its size. *)
LEMMA BytesOfOne ==
  ASSUME NEW e, NEW k \in Key, e[k].size \in 0..MaxEntry
  PROVE  Bytes(e, {k}) = e[k].size
<1> DEFINE n == e[k].size
<1>1. ByteSet(e, {k}) = {k} \X (1..n)
  BY SizeAssumption DEF ByteSet
<1>2. /\ IsFiniteSet({k}) /\ Cardinality({k}) = 1
  BY FS_Singleton
<1>3. n \in Nat
  BY SizeAssumption
<1> HIDE DEF n
<1>4. /\ IsFiniteSet(1..n) /\ Cardinality(1..n) = n
  BY <1>3, OneToN
<1>5. Cardinality({k} \X (1..n)) = Cardinality({k}) * Cardinality(1..n)
  BY <1>2, <1>4, FS_Product
<1>6. Cardinality({k}) * Cardinality(1..n) = n
  BY <1>2, <1>3, <1>4
<1>7. Bytes(e, {k}) = Cardinality(ByteSet(e, {k}))
  BY BytesAreFinite
<1>8. Bytes(e, {k}) = n
  BY <1>1, <1>5, <1>6, <1>7
<1>9. QED BY <1>8 DEF n

(* Only the sizes of the keys counted matter. *)
LEMMA BytesAgree ==
  ASSUME NEW e, NEW f, NEW K \in SUBSET Key, \A k \in K : e[k].size = f[k].size
  PROVE  Bytes(e, K) = Bytes(f, K)
<1>1. ByteSet(e, K) = ByteSet(f, K)
  BY DEF ByteSet
<1>2. QED BY <1>1, BytesAreFinite

(* More keys, more bytes. *)
LEMMA BytesMonotonic ==
  ASSUME NEW e, NEW K \in SUBSET Key, NEW L \in SUBSET K
  PROVE  Bytes(e, L) <= Bytes(e, K)
<1>1. ByteSet(e, L) \in SUBSET ByteSet(e, K)
  BY DEF ByteSet
<1>2. IsFiniteSet(ByteSet(e, K))
  BY BytesAreFinite
<1>3. Cardinality(ByteSet(e, L)) <= Cardinality(ByteSet(e, K))
  BY <1>1, <1>2, FS_Subset
<1>4. L \in SUBSET Key
  OBVIOUS
<1>5. QED BY <1>3, <1>4, BytesAreFinite

(* No keys, no bytes. *)
LEMMA BytesOfNone ==
  ASSUME NEW e
  PROVE  Bytes(e, {}) = 0
<1>1. ByteSet(e, {}) = {}
  BY DEF ByteSet
<1>2. Bytes(e, {}) = Cardinality(ByteSet(e, {}))
  BY BytesAreFinite
<1>3. QED BY <1>1, <1>2, FS_EmptySet

-----------------------------------------------------------------------------
(* Lists without duplicates. *)

(* Without takes out the one occurrence of a key and closes the gap. *)
LEMMA WithoutShifts ==
  ASSUME NEW l \in Seq(Key), Once(l), NEW k \in Elements(l)
  PROVE  \E p \in 1..Len(l) :
           /\ l[p] = k
           /\ Without(l, k) \in Seq(Key)
           /\ Len(Without(l, k)) = Len(l) - 1
           /\ \A i \in 1..(Len(l) - 1) :
                Without(l, k)[i] = IF i < p THEN l[i] ELSE l[i + 1]
<1> DEFINE p == CHOOSE i \in DOMAIN l : l[i] = k
           front == SubSeq(l, 1, p - 1)
           back  == SubSeq(l, p + 1, Len(l))
<1>1. /\ Len(l) \in Nat /\ DOMAIN l = 1..Len(l) /\ \A i \in 1..Len(l) : l[i] \in Key
  BY LenProperties
<1>2. p \in 1..Len(l) /\ l[p] = k
  BY <1>1 DEF Elements
<1> HIDE DEF p
<1>3. /\ front \in Seq(Key) /\ Len(front) = p - 1
      /\ \A i \in 1..(p - 1) : front[i] = l[i]
  BY <1>1, <1>2, SubSeqProperties
<1>4. /\ back \in Seq(Key) /\ Len(back) = Len(l) - p
      /\ \A i \in 1..(Len(l) - p) : back[i] = l[p + i]
  <2>1. \A i \in (p + 1)..Len(l) : l[i] \in Key
    BY <1>1, <1>2
  <2>2. /\ back \in Seq(Key)
        /\ Len(back) = IF p + 1 <= Len(l) THEN Len(l) - (p + 1) + 1 ELSE 0
        /\ \A i \in 1..(Len(l) - (p + 1) + 1) : back[i] = l[(p + 1) + i - 1]
    BY <2>1, <1>1, <1>2, SubSeqProperties
  <2> HIDE DEF back
  <2>3. Len(l) - (p + 1) + 1 = Len(l) - p
    BY <1>1, <1>2
  <2>4. \A i \in 1..(Len(l) - p) : (p + 1) + i - 1 = p + i
    BY <1>1, <1>2
  <2>5. Len(back) = Len(l) - p
    <3>1. p \in Int /\ Len(l) \in Int /\ p <= Len(l)
      BY <1>1, <1>2
    <3>2. CASE p + 1 <= Len(l)
      BY <3>1, <3>2, <2>2, <2>3
    <3>3. CASE ~(p + 1 <= Len(l))
      <4>1. Len(back) = 0
        BY <3>3, <2>2
      <4>2. p = Len(l)
        BY <3>1, <3>3
      <4>3. QED BY <3>1, <4>1, <4>2
    <3>4. QED BY <3>2, <3>3
  <2>6. ASSUME NEW i \in 1..(Len(l) - p) PROVE back[i] = l[p + i]
    BY <2>2, <2>3, <2>4
  <2>7. QED BY <2>2, <2>5, <2>6
<1>5. Without(l, k) = front \o back
  BY DEF Without, RemoveAt, p
<1> HIDE DEF front, back
<1>6. /\ front \o back \in Seq(Key)
      /\ Len(front \o back) = Len(l) - 1
      /\ \A i \in 1..(Len(l) - 1) :
           (front \o back)[i] = IF i <= p - 1 THEN front[i] ELSE back[i - (p - 1)]
  <2>1. Len(front) + Len(back) = Len(l) - 1
    BY <1>1, <1>2, <1>3, <1>4
  <2>2. /\ front \o back \in Seq(Key)
        /\ Len(front \o back) = Len(front) + Len(back)
        /\ \A i \in 1..(Len(front) + Len(back)) :
             (front \o back)[i] = IF i <= Len(front) THEN front[i] ELSE back[i - Len(front)]
    BY <1>3, <1>4, ConcatProperties
  <2>3. QED BY <1>3, <2>1, <2>2
<1>7. \A i \in 1..(Len(l) - 1) :
        (front \o back)[i] = IF i < p THEN l[i] ELSE l[i + 1]
  BY <1>1, <1>2, <1>3, <1>4, <1>6
<1>8. QED BY <1>2, <1>5, <1>6, <1>7

(* A list picked in order from a list without duplicates is one too, and   *)
(* keeps cold keys behind warm ones.                                       *)
LEMMA PickedKeeps ==
  ASSUME NEW l \in Seq(Key), Once(l), NEW e, ColdBehind(l, e),
         NEW r \in Seq(Key), NEW h \in [1..Len(r) -> 1..Len(l)],
         \A i, j \in 1..Len(r) : i < j => h[i] < h[j],
         \A i \in 1..Len(r) : r[i] = l[h[i]]
  PROVE  Once(r) /\ ColdBehind(r, e)
<1>1. /\ Len(r) \in Nat /\ Len(l) \in Nat
      /\ DOMAIN l = 1..Len(l) /\ DOMAIN r = 1..Len(r)
  BY LenProperties
<1>2. Once(r)
  <2> SUFFICES ASSUME NEW i \in 1..Len(r), NEW j \in 1..Len(r), r[i] = r[j]
               PROVE  i = j
    BY <1>1 DEF Once
  <2>1. h[i] \in 1..Len(l) /\ h[j] \in 1..Len(l) /\ l[h[i]] = l[h[j]]
    OBVIOUS
  <2>2. h[i] = h[j]
    BY <2>1, <1>1 DEF Once
  <2>3. ~(i < j) /\ ~(j < i)
    BY <2>1, <2>2
  <2>4. QED BY <2>3, <1>1
<1>3. ColdBehind(r, e)
  <2> SUFFICES ASSUME NEW i \in 1..Len(r), NEW j \in 1..Len(r), i < j, e[r[i]].cold
               PROVE  e[r[j]].cold
    BY <1>1 DEF ColdBehind
  <2>1. h[i] \in DOMAIN l /\ h[j] \in DOMAIN l /\ h[i] < h[j]
    BY <1>1
  <2>2. e[l[h[i]]].cold
    OBVIOUS
  <2>3. e[l[h[j]]].cold
    BY <2>1, <2>2 DEF ColdBehind
  <2>4. QED BY <2>3
<1>4. QED BY <1>2, <1>3

(* What is left of a list has no duplicates, lacks only the key, and is    *)
(* still in order.                                                         *)
LEMMA WithoutKeeps ==
  ASSUME NEW l \in Seq(Key), Once(l), NEW k \in Elements(l), NEW e, ColdBehind(l, e)
  PROVE  /\ Without(l, k) \in Seq(Key)
         /\ Once(Without(l, k))
         /\ Elements(Without(l, k)) = Elements(l) \ {k}
         /\ ColdBehind(Without(l, k), e)
<1> DEFINE r == Without(l, k)
<1>1. PICK p \in 1..Len(l) :
        /\ l[p] = k
        /\ r \in Seq(Key)
        /\ Len(r) = Len(l) - 1
        /\ \A i \in 1..(Len(l) - 1) : r[i] = IF i < p THEN l[i] ELSE l[i + 1]
  BY WithoutShifts
<1> HIDE DEF r
<1> DEFINE h == [i \in 1..Len(r) |-> IF i < p THEN i ELSE i + 1]
<1>2. /\ Len(l) \in Nat /\ Len(r) \in Nat
      /\ DOMAIN l = 1..Len(l) /\ DOMAIN r = 1..Len(r)
  BY <1>1, LenProperties
<1>3. /\ h \in [1..Len(r) -> 1..Len(l)]
      /\ \A i, j \in 1..Len(r) : i < j => h[i] < h[j]
  BY <1>1, <1>2
<1>4. ASSUME NEW i \in 1..Len(r)
      PROVE  r[i] = l[h[i]] /\ h[i] # p
  <2>1. h[i] = IF i < p THEN i ELSE i + 1
    OBVIOUS
  <2>2. r[i] = IF i < p THEN l[i] ELSE l[i + 1]
    BY <1>1
  <2>3. CASE i < p
    BY <2>1, <2>2, <2>3
  <2>4. CASE ~(i < p)
    BY <2>1, <2>2, <2>4, <1>1, <1>2
  <2>5. QED BY <2>3, <2>4
<1>5. ASSUME NEW j \in 1..Len(l), j # p
      PROVE  \E i \in 1..Len(r) : h[i] = j
  <2>1. CASE j < p
    BY <2>1, <1>1, <1>2
  <2>2. CASE j > p
    <3>1. j - 1 \in 1..Len(r) /\ ~(j - 1 < p)
      BY <2>2, <1>1, <1>2
    <3>2. h[j - 1] = (j - 1) + 1
      BY <3>1
    <3>3. QED BY <3>1, <3>2
  <2>3. QED BY <2>1, <2>2, <1>5
<1> HIDE DEF h
<1>6. Once(r) /\ ColdBehind(r, e)
  <2>1. \A i \in 1..Len(r) : r[i] = l[h[i]]
    BY <1>4
  <2>2. QED BY <2>1, <1>1, <1>3, PickedKeeps
<1>7. Elements(r) = Elements(l) \ {k}
  <2>1. ASSUME NEW i \in 1..Len(r) PROVE r[i] \in Elements(l) \ {k}
    <3>1. h[i] \in 1..Len(l) /\ h[i] # p /\ r[i] = l[h[i]]
      BY <1>3, <1>4
    <3>2. l[h[i]] # l[p]
      BY <3>1, <1>2 DEF Once
    <3>3. QED BY <3>1, <3>2, <1>1, <1>2 DEF Elements
  <2>2. ASSUME NEW j \in 1..Len(l), l[j] # k PROVE l[j] \in Elements(r)
    <3>1. PICK i \in 1..Len(r) : h[i] = j
      BY <2>2, <1>1, <1>5
    <3>2. r[i] = l[j]
      BY <3>1, <1>4
    <3>3. QED BY <3>2, <1>2 DEF Elements
  <2>3. QED BY <2>1, <2>2, <1>2 DEF Elements
<1>8. QED BY <1>1, <1>6, <1>7 DEF r

(* Putting a new warm key in front of a list. *)
LEMMA FrontKeeps ==
  ASSUME NEW l \in Seq(Key), Once(l), NEW k \in Key \ Elements(l),
         NEW e, ColdBehind(l, e), e[k].cold = FALSE
  PROVE  /\ <<k>> \o l \in Seq(Key)
         /\ Once(<<k>> \o l)
         /\ Elements(<<k>> \o l) = Elements(l) \cup {k}
         /\ ColdBehind(<<k>> \o l, e)
<1> DEFINE m == <<k>> \o l
<1>1. /\ <<k>> \in Seq(Key) /\ Len(<<k>>) = 1 /\ <<k>>[1] = k
  OBVIOUS
<1>2. /\ m \in Seq(Key) /\ Len(m) = 1 + Len(l)
      /\ \A i \in 1..(1 + Len(l)) : m[i] = IF i <= 1 THEN <<k>>[i] ELSE l[i - 1]
  BY <1>1, ConcatProperties
<1> HIDE DEF m
<1>3. /\ Len(l) \in Nat /\ DOMAIN l = 1..Len(l) /\ DOMAIN m = 1..(1 + Len(l))
  BY <1>2, LenProperties
<1>4. m[1] = k /\ \A i \in 2..(1 + Len(l)) : m[i] = l[i - 1] /\ i - 1 \in 1..Len(l)
  BY <1>1, <1>2, <1>3
<1>5. \A i \in 1..Len(l) : l[i] # k /\ l[i] = m[i + 1]
  BY <1>3, <1>4 DEF Elements
<1>6. Once(m)
  <2> SUFFICES ASSUME NEW i \in 1..(1 + Len(l)), NEW j \in 1..(1 + Len(l)), m[i] = m[j]
               PROVE  i = j
    BY <1>3 DEF Once
  <2>1. CASE i = 1 \/ j = 1
    BY <2>1, <1>3, <1>4, <1>5
  <2>2. CASE i # 1 /\ j # 1
    <3>1. /\ i - 1 \in DOMAIN l /\ j - 1 \in DOMAIN l
          /\ m[i] = l[i - 1] /\ m[j] = l[j - 1]
      BY <2>2, <1>3, <1>4
    <3>2. i - 1 = j - 1
      BY <3>1 DEF Once
    <3>3. QED BY <3>2
  <2>3. QED BY <2>1, <2>2
<1>7. Elements(m) = Elements(l) \cup {k}
  <2>1. ASSUME NEW x \in Elements(m) PROVE x \in Elements(l) \cup {k}
    BY <1>3, <1>4 DEF Elements
  <2>2. ASSUME NEW x \in Elements(l) PROVE x \in Elements(m)
    <3>1. PICK i \in 1..Len(l) : x = l[i]
      BY <1>3 DEF Elements
    <3>2. i + 1 \in 1..(1 + Len(l)) /\ m[i + 1] = x
      BY <3>1, <1>3, <1>5
    <3>3. QED BY <3>2, <1>3 DEF Elements
  <2>3. k \in Elements(m)
    BY <1>3, <1>4 DEF Elements
  <2>4. QED BY <2>1, <2>2, <2>3
<1>8. ColdBehind(m, e)
  <2> SUFFICES ASSUME NEW i \in 1..(1 + Len(l)), NEW j \in 1..(1 + Len(l)),
                      i < j, e[m[i]].cold
               PROVE  e[m[j]].cold
    BY <1>3 DEF ColdBehind
  <2>1. i # 1
    BY <1>4
  <2>2. /\ i - 1 \in DOMAIN l /\ j - 1 \in DOMAIN l /\ i - 1 < j - 1
        /\ m[i] = l[i - 1] /\ m[j] = l[j - 1]
    BY <2>1, <1>3, <1>4
  <2>3. QED BY <2>2 DEF ColdBehind
<1>9. QED BY <1>2, <1>6, <1>7, <1>8 DEF m

(* Putting a new cold key behind a list. *)
LEMMA BackKeeps ==
  ASSUME NEW l \in Seq(Key), Once(l), NEW k \in Key \ Elements(l),
         NEW e, ColdBehind(l, e), e[k].cold = TRUE
  PROVE  /\ Append(l, k) \in Seq(Key)
         /\ Once(Append(l, k))
         /\ Elements(Append(l, k)) = Elements(l) \cup {k}
         /\ ColdBehind(Append(l, k), e)
<1> DEFINE m == Append(l, k)
<1>1. /\ m \in Seq(Key) /\ Len(m) = Len(l) + 1
      /\ \A i \in 1..Len(l) : m[i] = l[i]
      /\ m[Len(l) + 1] = k
  BY AppendProperties
<1> HIDE DEF m
<1>2. /\ Len(l) \in Nat /\ DOMAIN l = 1..Len(l) /\ DOMAIN m = 1..(Len(l) + 1)
  BY <1>1, LenProperties
<1>3. \A i \in 1..Len(l) : l[i] # k
  BY <1>2 DEF Elements
<1>4. Once(m)
  BY <1>1, <1>2, <1>3 DEF Once
<1>5. Elements(m) = Elements(l) \cup {k}
  BY <1>1, <1>2 DEF Elements
<1>6. ColdBehind(m, e)
  BY <1>1, <1>2 DEF ColdBehind
<1>7. QED BY <1>1, <1>4, <1>5, <1>6 DEF m

-----------------------------------------------------------------------------
(* The operators on an index. *)

Sound(ix) == WellFormed(ix) /\ Counted(ix) /\ ColdBehind(ix.lru, ix.entries)

(* What the types of a sound index say of its parts. *)
LEMMA SoundParts ==
  ASSUME NEW ix, Sound(ix)
  PROVE  /\ ix.lru \in Seq(Key) /\ Once(ix.lru)
         /\ DOMAIN ix.entries = Elements(ix.lru)
         /\ DOMAIN ix.entries \in SUBSET Key
         /\ ix.entries \in [DOMAIN ix.entries -> Entry]
         /\ ix.used \in Nat /\ ix.inflight \in Nat
         /\ ix.used = Bytes(ix.entries, DOMAIN ix.entries)
         /\ ColdBehind(ix.lru, ix.entries)
  BY DEF Sound, WellFormed, Counted, Index

(* Touching moves one key and counts nothing. *)
LEMMA TouchedKeeps ==
  ASSUME NEW ix, Sound(ix), NEW k \in Key
  PROVE  /\ Sound(Touched(ix, k))
         /\ Touched(ix, k).entries = ix.entries
         /\ Touched(ix, k).used = ix.used
         /\ Touched(ix, k).inflight = ix.inflight
<1>1. CASE ~(k \in DOMAIN ix.entries /\ ~ix.entries[k].cold)
  <2>1. Touched(ix, k) = ix
    BY <1>1 DEF Touched
  <2>2. QED BY <2>1
<1>2. CASE k \in DOMAIN ix.entries /\ ~ix.entries[k].cold
  <2> DEFINE l == <<k>> \o Without(ix.lru, k)
             t == [ix EXCEPT !.lru = l]
  <2>1. Touched(ix, k) = t
    BY <1>2 DEF Touched
  <2>2. /\ Without(ix.lru, k) \in Seq(Key)
        /\ Once(Without(ix.lru, k))
        /\ Elements(Without(ix.lru, k)) = Elements(ix.lru) \ {k}
        /\ ColdBehind(Without(ix.lru, k), ix.entries)
    BY <1>2, SoundParts, WithoutKeeps
  <2>3. ix.entries[k].cold = FALSE
    BY <1>2, SoundParts DEF Entry
  <2>4. /\ l \in Seq(Key) /\ Once(l)
        /\ Elements(l) = (Elements(ix.lru) \ {k}) \cup {k}
        /\ ColdBehind(l, ix.entries)
    BY <2>2, <2>3, FrontKeeps
  <2>5. Elements(l) = Elements(ix.lru)
    BY <2>4, <1>2, SoundParts
  <2> HIDE DEF l
  <2>6. ix \in Index
    BY DEF Sound, WellFormed
  <2>7. /\ t \in Index /\ t.lru = l /\ t.entries = ix.entries
        /\ t.used = ix.used /\ t.inflight = ix.inflight
    BY <2>4, <2>6 DEF Index
  <2> HIDE DEF t
  <2>8. Sound(t)
    BY <2>4, <2>5, <2>7, SoundParts DEF Sound, WellFormed, Counted
  <2>9. QED BY <2>1, <2>7, <2>8
<1>3. QED BY <1>1, <1>2

(* Booking changes nothing but inflight. *)
LEMMA InflightKeeps ==
  ASSUME NEW ix, Sound(ix), NEW n \in Nat
  PROVE  LET q == [ix EXCEPT !.inflight = n] IN
         /\ Sound(q)
         /\ q.entries = ix.entries /\ q.used = ix.used /\ q.inflight = n
         /\ q.lru = ix.lru
<1> DEFINE q == [ix EXCEPT !.inflight = n]
<1>1. ix \in Index
  BY DEF Sound, WellFormed
<1>2. /\ q \in Index /\ q.lru = ix.lru /\ q.entries = ix.entries
      /\ q.used = ix.used /\ q.inflight = n
  BY <1>1 DEF Index
<1> HIDE DEF q
<1>3. Sound(q)
  BY <1>2, SoundParts DEF Sound, WellFormed, Counted
<1>4. QED BY <1>2, <1>3 DEF q

(* Popping splits the keys in two: those at the back go, with their bytes. *)
LEMMA PoppedKeeps ==
  ASSUME NEW ix, Sound(ix), NEW n \in 0..Len(ix.lru)
  PROVE  LET q == Popped(ix, n) IN
         /\ Sound(q)
         /\ Coldest(ix, n) \subseteq DOMAIN ix.entries
         /\ DOMAIN q.entries = DOMAIN ix.entries \ Coldest(ix, n)
         /\ \A k \in DOMAIN q.entries : q.entries[k] = ix.entries[k]
         /\ q.inflight = ix.inflight
         /\ q.lru = SubSeq(ix.lru, 1, Len(ix.lru) - n)
         /\ \A k \in Coldest(ix, n), c \in DOMAIN q.entries :
              ix.entries[c].cold => ix.entries[k].cold
<1> DEFINE q == Popped(ix, n)
           l == ix.lru
           m == Len(l) - n
           r == SubSeq(l, 1, m)
           out == Coldest(ix, n)
           D == DOMAIN ix.entries
           kept == [k \in D \ out |-> ix.entries[k]]
<1>1. /\ Len(l) \in Nat /\ DOMAIN l = 1..Len(l) /\ \A i \in 1..Len(l) : l[i] \in Key
  BY SoundParts, LenProperties
<1>2. m \in 0..Len(l) /\ (m + 1)..Len(l) \subseteq 1..Len(l) /\ 1..m \subseteq 1..Len(l)
  BY <1>1
<1>3. /\ r \in Seq(Key) /\ Len(r) = m /\ \A i \in 1..m : r[i] = l[i]
  BY <1>1, <1>2, SubSeqProperties
<1>4. out = {l[i] : i \in (m + 1)..Len(l)}
  BY <1>1 DEF Coldest
<1> HIDE DEF r, out, m
<1>5. DOMAIN r = 1..m
  BY <1>3, LenProperties
<1>6. Once(l) /\ ColdBehind(l, ix.entries) /\ D = Elements(l) /\ D \in SUBSET Key
  BY SoundParts
<1>7. out \subseteq D
  BY <1>1, <1>2, <1>4, <1>6 DEF Elements
<1>8. Elements(r) = D \ out
  <2>1. ASSUME NEW i \in 1..m PROVE r[i] \in D \ out
    <3>1. r[i] = l[i] /\ i \in 1..Len(l)
      BY <1>2, <1>3
    <3>2. \A j \in (m + 1)..Len(l) : i # j /\ j \in DOMAIN l /\ i \in DOMAIN l
      BY <1>1, <1>2
    <3>3. \A j \in (m + 1)..Len(l) : l[i] # l[j]
      BY <3>2, <1>6 DEF Once
    <3>4. QED BY <3>1, <3>3, <1>1, <1>4, <1>6 DEF Elements
  <2>2. ASSUME NEW i \in 1..Len(l), l[i] \notin out PROVE l[i] \in Elements(r)
    <3>1. i \in 1..m
      BY <2>2, <1>1, <1>2, <1>4
    <3>2. QED BY <3>1, <1>3, <1>5 DEF Elements
  <2>3. QED BY <2>1, <2>2, <1>1, <1>5, <1>6 DEF Elements
<1>9. Once(r) /\ ColdBehind(r, ix.entries)
  <2> DEFINE h == [i \in 1..Len(r) |-> i]
  <2>1. h \in [1..Len(r) -> 1..Len(l)]
    BY <1>2, <1>3
  <2>2. \A i, j \in 1..Len(r) : i < j => h[i] < h[j]
    OBVIOUS
  <2>3. \A i \in 1..Len(r) : r[i] = l[h[i]]
    BY <1>3
  <2> HIDE DEF h
  <2>4. l \in Seq(Key)
    BY SoundParts
  <2>5. QED BY <2>1, <2>2, <2>3, <2>4, <1>3, <1>6, PickedKeeps
<1>10. ColdBehind(r, kept)
  <2>1. \A i \in 1..m : kept[r[i]] = ix.entries[r[i]]
    BY <1>5, <1>8 DEF Elements
  <2>2. QED BY <2>1, <1>5, <1>9 DEF ColdBehind
<1>11. kept \in [D \ out -> Entry] /\ D \ out \in SUBSET Key
  BY <1>6, SoundParts
<1>12. /\ Bytes(ix.entries, D) = Bytes(ix.entries, D \ out) + Bytes(ix.entries, out)
       /\ Bytes(ix.entries, D \ out) \in Nat /\ Bytes(ix.entries, out) \in Nat
  <2>1. (D \ out) \cup out = D /\ (D \ out) \cap out = {}
    BY <1>7
  <2>2. D \ out \in SUBSET Key /\ out \in SUBSET Key
    BY <1>6, <1>7
  <2>3. QED BY <2>1, <2>2, BytesAddUp, BytesAreFinite
<1>13. Bytes(kept, D \ out) = Bytes(ix.entries, D \ out)
  <2>1. \A k \in D \ out : kept[k].size = ix.entries[k].size
    OBVIOUS
  <2>2. QED BY <2>1, <1>11, BytesAgree
<1> HIDE DEF kept
<1>14. ix \in Index /\ ix.used = Bytes(ix.entries, D)
  BY SoundParts DEF Sound, WellFormed
<1>15. ix.used - Bytes(ix.entries, out) = Bytes(kept, D \ out)
  BY <1>12, <1>13, <1>14
<1>16. q = [ix EXCEPT !.lru = r, !.entries = kept, !.used = ix.used - Bytes(ix.entries, out)]
  BY <1>14 DEF Popped, kept, r, m, out, Index
<1>17. /\ q \in Index /\ q.lru = r /\ q.entries = kept
       /\ q.used = Bytes(kept, D \ out) /\ q.inflight = ix.inflight
  <2>1. kept \in UNION {[K -> Entry] : K \in SUBSET Key}
    BY <1>11
  <2>2. QED BY <2>1, <1>3, <1>12, <1>13, <1>14, <1>15, <1>16 DEF Index
<1> HIDE DEF q
<1>18. DOMAIN q.entries = D \ out
  BY <1>11, <1>17
<1>19. Sound(q)
  BY <1>8, <1>9, <1>10, <1>17, <1>18 DEF Sound, WellFormed, Counted
<1>20. \A k \in D \ out : q.entries[k] = ix.entries[k]
  BY <1>17 DEF kept
<1>21. ASSUME NEW k \in out, NEW c \in D \ out, ix.entries[c].cold
       PROVE  ix.entries[k].cold
  <2>1. PICK j \in (m + 1)..Len(l) : k = l[j]
    BY <1>4
  <2>2. PICK i \in 1..m : c = l[i]
    BY <1>3, <1>5, <1>8 DEF Elements
  <2>3. i \in DOMAIN l /\ j \in DOMAIN l /\ i < j
    BY <1>1, <1>2
  <2>4. QED BY <2>1, <2>2, <2>3, <1>6, <1>21 DEF ColdBehind
<1>22. QED BY <1>7, <1>17, <1>18, <1>19, <1>20, <1>21 DEF q, r, m, out

(* Adding lists the key once, at the end its temperature calls for, and    *)
(* moves the byte count by the difference to the entry it replaces.        *)
LEMMA AddedKeeps ==
  ASSUME NEW ix, Sound(ix), NEW k \in Key, NEW size \in 0..MaxEntry, NEW cold \in BOOLEAN
  PROVE  LET q == Added(ix, k, size, cold) IN
         /\ Sound(q)
         /\ DOMAIN q.entries = DOMAIN ix.entries \cup {k}
         /\ q.entries[k] = [size |-> size, cold |-> cold]
         /\ \A x \in DOMAIN ix.entries \ {k} : q.entries[x] = ix.entries[x]
         /\ q.inflight = ix.inflight
<1> DEFINE q == Added(ix, k, size, cold)
           D == DOMAIN ix.entries
           known == k \in D
           rest == IF known THEN Without(ix.lru, k) ELSE ix.lru
           old == IF known THEN ix.entries[k].size ELSE 0
           new == [size |-> size, cold |-> cold]
           e == [x \in D \cup {k} |-> IF x = k THEN new ELSE ix.entries[x]]
           l == IF cold THEN Append(rest, k) ELSE <<k>> \o rest
<1>1. /\ ix.lru \in Seq(Key) /\ Once(ix.lru) /\ D = Elements(ix.lru)
      /\ D \in SUBSET Key /\ ix.entries \in [D -> Entry]
      /\ ix.used = Bytes(ix.entries, D) /\ ColdBehind(ix.lru, ix.entries)
  BY SoundParts
<1>2. /\ rest \in Seq(Key) /\ Once(rest) /\ Elements(rest) = D \ {k}
      /\ ColdBehind(rest, ix.entries)
  <2>1. CASE known
    BY <2>1, <1>1, WithoutKeeps
  <2>2. CASE ~known
    BY <2>2, <1>1
  <2>3. QED BY <2>1, <2>2
<1>3. new \in Entry /\ new.size = size /\ new.cold = cold
  BY DEF Entry
<1>4. /\ e \in [D \cup {k} -> Entry] /\ D \cup {k} \in SUBSET Key
      /\ DOMAIN e = D \cup {k} /\ e[k] = new /\ \A x \in D \ {k} : e[x] = ix.entries[x]
  BY <1>1, <1>3
<1> HIDE DEF rest, e, new
<1>5. ColdBehind(rest, e)
  <2>1. \A i \in DOMAIN rest : e[rest[i]] = ix.entries[rest[i]]
    BY <1>2, <1>4 DEF Elements
  <2>2. QED BY <2>1, <1>2 DEF ColdBehind
<1>6. /\ l \in Seq(Key) /\ Once(l) /\ Elements(l) = (D \ {k}) \cup {k} /\ ColdBehind(l, e)
  <2>1. k \in Key \ Elements(rest)
    BY <1>2
  <2>2. CASE cold
    <3>1. e[k].cold = TRUE
      BY <2>2, <1>3, <1>4
    <3>2. QED BY <3>1, <2>1, <2>2, <1>2, <1>5, BackKeeps
  <2>3. CASE ~cold
    <3>1. e[k].cold = FALSE
      BY <2>3, <1>3, <1>4
    <3>2. QED BY <3>1, <2>1, <2>3, <1>2, <1>5, FrontKeeps
  <2>4. QED BY <2>2, <2>3
<1> HIDE DEF l
<1>7. /\ Bytes(ix.entries, D) = Bytes(ix.entries, D \ {k}) + old
      /\ Bytes(ix.entries, D \ {k}) \in Nat /\ old \in Nat
  <2>1. D \ {k} \in SUBSET Key
    BY <1>1
  <2>2. Bytes(ix.entries, D \ {k}) \in Nat
    BY <2>1, BytesAreFinite
  <2>3. CASE known
    <3>1. ix.entries[k].size \in 0..MaxEntry
      BY <2>3, <1>1 DEF Entry
    <3>2. Bytes(ix.entries, {k}) = old
      BY <2>3, <3>1, BytesOfOne
    <3>3. (D \ {k}) \cup {k} = D /\ (D \ {k}) \cap {k} = {} /\ {k} \in SUBSET Key
      BY <2>3
    <3>4. Bytes(ix.entries, (D \ {k}) \cup {k}) =
            Bytes(ix.entries, D \ {k}) + Bytes(ix.entries, {k})
      BY <2>1, <3>3, BytesAddUp
    <3>5. Bytes(ix.entries, D) = Bytes(ix.entries, D \ {k}) + Bytes(ix.entries, {k})
      BY <3>3, <3>4
    <3>6. old \in Nat
      BY <2>3, <3>1, SizeAssumption
    <3>7. QED BY <2>2, <3>2, <3>5, <3>6
  <2>4. CASE ~known
    BY <2>2, <2>4
  <2>5. QED BY <2>3, <2>4
<1>8. Bytes(e, D \cup {k}) = Bytes(ix.entries, D \ {k}) + size
  <2>1. D \ {k} \in SUBSET Key /\ {k} \in SUBSET Key
    BY <1>1
  <2>2. Bytes(e, {k}) = size
    BY <1>3, <1>4, BytesOfOne
  <2>3. \A x \in D \ {k} : e[x].size = ix.entries[x].size
    BY <1>4
  <2>4. Bytes(e, D \ {k}) = Bytes(ix.entries, D \ {k})
    BY <2>1, <2>3, BytesAgree
  <2>5. Bytes(e, (D \ {k}) \cup {k}) = Bytes(e, D \ {k}) + Bytes(e, {k})
    BY <2>1, BytesAddUp
  <2>6. (D \ {k}) \cup {k} = D \cup {k}
    OBVIOUS
  <2>7. QED BY <2>2, <2>4, <2>5, <2>6
<1> HIDE DEF old
<1>9. /\ ix.used - old + size = Bytes(e, D \cup {k})
      /\ ix.used - old + size \in Nat
  BY <1>1, <1>7, <1>8, SizeAssumption
<1>10. ix \in Index
  BY DEF Sound, WellFormed
<1>11. q = [ix EXCEPT !.lru = l, !.entries = e, !.used = ix.used - old + size]
  BY <1>10 DEF Added, l, e, old, new, rest, Index
<1>12. /\ q \in Index /\ q.lru = l /\ q.entries = e
       /\ q.used = Bytes(e, D \cup {k}) /\ q.inflight = ix.inflight
  <2>1. e \in UNION {[K -> Entry] : K \in SUBSET Key}
    BY <1>4
  <2>2. QED BY <2>1, <1>6, <1>9, <1>10, <1>11 DEF Index
<1> HIDE DEF q
<1>13. Sound(q)
  BY <1>4, <1>6, <1>12 DEF Sound, WellFormed, Counted
<1>14. QED BY <1>4, <1>12, <1>13 DEF q, new

-----------------------------------------------------------------------------
(* The cap. *)

(* Only keys the list holds can be kept. *)
LEMMA WarmKeysAreListed ==
  ASSUME NEW ix, Sound(ix)
  PROVE  /\ WarmKeys(ix) \in SUBSET Key
         /\ WarmKeys(ix) \in SUBSET DOMAIN ix.entries
         /\ Bytes(ix.entries, WarmKeys(ix)) \in Nat
         /\ Bytes(ix.entries, WarmKeys(ix)) <= ix.used
<1>1. /\ WarmKeys(ix) \in SUBSET DOMAIN ix.entries
      /\ DOMAIN ix.entries \in SUBSET Key
      /\ ix.used = Bytes(ix.entries, DOMAIN ix.entries)
  BY SoundParts DEF WarmKeys
<1>2. WarmKeys(ix) \in SUBSET Key
  BY <1>1
<1>3. Bytes(ix.entries, WarmKeys(ix)) <= Bytes(ix.entries, DOMAIN ix.entries)
  BY <1>1, BytesMonotonic
<1>4. QED BY <1>1, <1>2, <1>3, BytesAreFinite

(* An index under the cap altogether keeps it for its warm entries. *)
LEMMA UnderCapFits ==
  ASSUME NEW ix, Sound(ix), ~OverCap(ix)
  PROVE  WarmFits(ix)
<1>1. ix.used \in Nat /\ ix.inflight \in Nat
  BY SoundParts
<1>2. ix.used + ix.inflight <= MaxStorage
  BY <1>1, SizeAssumption DEF OverCap
<1>3. Bytes(ix.entries, WarmKeys(ix)) + ix.inflight <= MaxStorage
  BY <1>1, <1>2, WarmKeysAreListed, SizeAssumption
<1>4. QED BY <1>3 DEF WarmFits

(* Losing warm entries or bytes in flight never breaks the cap. *)
LEMMA FewerStillFit ==
  ASSUME NEW ix, Sound(ix), WarmFits(ix), NEW q, Sound(q),
         WarmKeys(q) \subseteq WarmKeys(ix),
         \A k \in WarmKeys(q) : q.entries[k].size = ix.entries[k].size,
         q.inflight <= ix.inflight
  PROVE  WarmFits(q)
<1>1. CASE WarmKeys(ix) = {}
  BY <1>1 DEF WarmFits
<1>2. CASE WarmKeys(ix) # {}
  <2>1. Bytes(ix.entries, WarmKeys(ix)) + ix.inflight <= MaxStorage
    BY <1>2 DEF WarmFits
  <2>2. /\ WarmKeys(ix) \in SUBSET Key /\ WarmKeys(q) \in SUBSET Key
        /\ Bytes(ix.entries, WarmKeys(ix)) \in Nat
        /\ Bytes(q.entries, WarmKeys(q)) \in Nat
        /\ ix.inflight \in Nat /\ q.inflight \in Nat
    BY WarmKeysAreListed, SoundParts
  <2>3. Bytes(q.entries, WarmKeys(q)) = Bytes(ix.entries, WarmKeys(q))
    BY <2>2, BytesAgree
  <2>4. Bytes(ix.entries, WarmKeys(q)) <= Bytes(ix.entries, WarmKeys(ix))
    BY <2>2, BytesMonotonic
  <2>5. Bytes(q.entries, WarmKeys(q)) + q.inflight <= MaxStorage
    BY <2>1, <2>2, <2>3, <2>4, SizeAssumption
  <2>6. QED BY <2>5 DEF WarmFits
<1>3. QED BY <1>1, <1>2

(* evictIfNeeded restores the cap, whatever it finds. *)
LEMMA EvictionRestoresCap ==
  ASSUME NEW ix, Sound(ix), NEW n \in 0..Len(ix.lru), Evicts(ix, n)
  PROVE  WarmFits(Popped(ix, n))
<1> DEFINE q == Popped(ix, n)
<1>1. /\ Sound(q) /\ q.inflight = ix.inflight
      /\ DOMAIN q.entries = DOMAIN ix.entries \ Coldest(ix, n)
      /\ \A k \in DOMAIN q.entries : q.entries[k] = ix.entries[k]
      /\ q.lru = SubSeq(ix.lru, 1, Len(ix.lru) - n)
  BY PoppedKeeps
<1>2. /\ ix.used \in Nat /\ ix.inflight \in Nat /\ q.used \in Nat
      /\ Low <= MaxStorage /\ Low \in Int /\ MaxStorage \in Nat
      /\ Len(ix.lru) \in Nat
  BY <1>1, SoundParts, LenProperties, SizeAssumption DEF Low
<1>3. CASE ~OverCap(ix)
  <2>1. q.used <= ix.used
    <3>1. /\ q.used = Bytes(q.entries, DOMAIN q.entries) /\ DOMAIN q.entries \in SUBSET Key
          /\ ix.used = Bytes(ix.entries, DOMAIN ix.entries)
          /\ DOMAIN ix.entries \in SUBSET Key
      BY <1>1, SoundParts
    <3>2. Bytes(q.entries, DOMAIN q.entries) = Bytes(ix.entries, DOMAIN q.entries)
      BY <1>1, <3>1, BytesAgree
    <3>3. DOMAIN q.entries \in SUBSET DOMAIN ix.entries
      BY <1>1
    <3>4. Bytes(ix.entries, DOMAIN q.entries) <= Bytes(ix.entries, DOMAIN ix.entries)
      BY <3>1, <3>3, BytesMonotonic
    <3>5. QED BY <3>1, <3>2, <3>4
  <2>2. ~OverCap(q)
    BY <1>1, <1>2, <1>3, <2>1 DEF OverCap
  <2>3. QED BY <1>1, <2>2, UnderCapFits
<1>4. CASE OverCap(ix) /\ n = Len(ix.lru)
  <2>1. q.lru = SubSeq(ix.lru, 1, 0)
    BY <1>1, <1>2, <1>4
  <2>2. q.lru = <<>>
    BY <2>1, SubSeqEmpty
  <2>3. DOMAIN q.entries = {}
    <3>1. DOMAIN q.entries = Elements(q.lru) /\ q.lru \in Seq(Key)
      BY <1>1, SoundParts
    <3>2. DOMAIN q.lru = {}
      <4>1. Len(q.lru) = 0
        BY <2>2, EmptySeq
      <4>2. DOMAIN q.lru = 1..0
        BY <3>1, <4>1, LenProperties
      <4>3. QED BY <4>2
    <3>3. QED BY <3>1, <3>2 DEF Elements
  <2>4. QED BY <2>3 DEF WarmFits, WarmKeys
<1>5. CASE OverCap(ix) /\ ~OverLow(ix, n)
  <2>1. q.used + q.inflight <= Low
    BY <1>1, <1>2, <1>5 DEF OverLow
  <2>2. ~OverCap(q)
    BY <1>1, <1>2, <2>1 DEF OverCap
  <2>3. QED BY <1>1, <2>2, UnderCapFits
<1>6. QED BY <1>3, <1>4, <1>5 DEF Evicts

(* What the scan of newEvictor makes of the files it finds. *)
Measures(size, K) == \A k \in K : size[k] \in 0..MaxEntry

IsScan(ix, l, K, size) ==
  /\ Sound(ix) /\ ix.inflight = 0 /\ ix.lru = l /\ DOMAIN ix.entries = K
  /\ \A k \in K : ix.entries[k].size = size[k] /\ ix.entries[k].cold = FALSE

LEMMA ScannedIsSound ==
  ASSUME NEW K \in SUBSET Key, NEW l \in Listing(K), NEW size, Measures(size, K)
  PROVE  IsScan(Scanned(l, size), l, K, size)
<1> DEFINE ix == Scanned(l, size)
           e == [k \in K |-> [size |-> size[k], cold |-> FALSE]]
<1>3. Elements(l) = K /\ Once(l) /\ l \in [1..Cardinality(K) -> K]
  BY DEF Listing
<1>4. IsFiniteSet(K) /\ Cardinality(K) \in Nat
  BY KeyAssumption, FS_Subset, FS_CardinalityType
<1>5. l \in Seq(Key)
  <2>1. l \in [1..Cardinality(K) -> Key]
    BY <1>3
  <2>2. QED BY <1>4, <2>1, SeqDef
<1>6. e \in [K -> Entry] /\ \A k \in K : e[k].cold = FALSE
  BY DEF Entry, Measures
<1>7. ix = [lru |-> l, entries |-> e, used |-> Bytes(e, K), inflight |-> 0]
  BY <1>3 DEF Scanned
<1>8. Bytes(e, K) \in Nat
  BY BytesAreFinite
<1>8a. \A k \in K : e[k].size = size[k] /\ e[k].cold = FALSE
  OBVIOUS
<1> HIDE DEF e, ix
<1>9. /\ ix.lru = l /\ ix.entries = e /\ ix.used = Bytes(e, K) /\ ix.inflight = 0
      /\ DOMAIN e = K /\ ix \in Index
  <2>1. e \in UNION {[L -> Entry] : L \in SUBSET Key}
    BY <1>6
  <2>2. QED BY <1>5, <1>6, <1>7, <1>8, <2>1 DEF Index
<1>10. ColdBehind(l, e)
  BY <1>3, <1>6 DEF ColdBehind, Elements
<1>11. Sound(ix)
  BY <1>3, <1>9, <1>10 DEF Sound, WellFormed, Counted
<1>12. IsScan(ix, l, K, size)
  BY <1>8a, <1>9, <1>11 DEF IsScan
<1>13. QED BY <1>12 DEF ix

(* What newEvictor starts from. *)
LEMMA FreshIsSound ==
  ASSUME NEW ix, IsFresh(ix)
  PROVE  Sound(ix) /\ ix.inflight = 0 /\ WarmKeys(ix) = DOMAIN ix.entries /\ WarmFits(ix)
<1>1. PICK K \in SUBSET Key :
        \E l \in Listing(K), size \in [K -> 0..MaxEntry] :
          ix = Scanned(l, size) /\ ~OverCap(Scanned(l, size))
  BY DEF IsFresh
<1>2. PICK l \in Listing(K), size \in [K -> 0..MaxEntry] :
        ix = Scanned(l, size) /\ ~OverCap(Scanned(l, size))
  BY <1>1
<1>3. /\ Sound(ix) /\ ix.inflight = 0 /\ DOMAIN ix.entries = K
      /\ \A k \in K : ix.entries[k].size = size[k] /\ ix.entries[k].cold = FALSE
  <2>1. Measures(size, K)
    BY DEF Measures
  <2>2. IsScan(Scanned(l, size), l, K, size)
    BY <2>1, ScannedIsSound
  <2>3. QED BY <1>2, <2>2 DEF IsScan
<1>4. WarmKeys(ix) = DOMAIN ix.entries
  BY <1>3 DEF WarmKeys
<1>5. QED BY <1>2, <1>3, <1>4, UnderCapFits
=============================================================================
