----------------------------- MODULE PathProofs -----------------------------
(***************************************************************************)
(* What becomes of any path and any name: the last "manifests" or "blobs"  *)
(* splits the path; an image of the mirrored upstream has one cache entry  *)
(* and one lock for its two names; no two images meet in a file, requests  *)
(* that share one wait for each other, and the scan of a restart gives it  *)
(* back to its entry.  The requests only read what the start has made, so  *)
(* its invariant is used as it is; LocksApart adds what those under way    *)
(* have asked for and that those inside have locks of their own.           *)
(***************************************************************************)
EXTENDS RoutingProofs, WellFoundedInduction

(* A finite set of indexes has a last one.                                 *)
LEMMA LessThan ==
  \E R : IsWellFoundedOn(R, Nat) /\ \A x, y \in Nat : y < x => <<y, x>> \in R
<1> DEFINE R == OpToRel(<, Nat)
<1>1. IsWellFoundedOn(R, Nat)
  BY NatLessThanWellFounded
<1>2. \A x, y \in Nat : y < x => <<y, x>> \in R
  BY DEF OpToRel
<1> HIDE DEF R
<1>3. QED
  BY <1>1, <1>2

LEMMA Least == ASSUME NEW T, T \subseteq Nat, T # {} PROVE \E x \in T : \A y \in T : x <= y
<1>1. PICK R : IsWellFoundedOn(R, Nat) /\ \A x, y \in Nat : y < x => <<y, x>> \in R
  BY LessThan
<1>2. \E x \in T : \A y \in T : ~(<<y, x>> \in R)
  BY <1>1, WFMin
<1>3. PICK x \in T : \A y \in T : ~(<<y, x>> \in R)
  BY <1>2
<1>4. \A y \in T : x <= y
  <2> TAKE y \in T
  <2>1. x \in Nat /\ y \in Nat
    OBVIOUS
  <2>2. ~(y < x)
    BY <1>1, <1>3, <2>1
  <2>3. QED
    BY ONLY <2>1, <2>2
<1>5. QED
  BY <1>4

LEMMA Greatest ==
  ASSUME NEW n \in Nat, NEW T, T \subseteq 1..n, T # {}
  PROVE  \E x \in T : \A y \in T : y <= x
<1> DEFINE U == {n - i : i \in T}
<1>1. U \subseteq Nat /\ U # {}
  <2>1. \A i \in T : n - i \in Nat
    OBVIOUS
  <2>2. QED
    BY <2>1
<1>2. \E u \in U : \A v \in U : u <= v
  <2> HIDE DEF U
  <2>1. QED
    BY <1>1, Least
<1>3. PICK x \in T : \A y \in T : n - x <= n - y
  BY <1>2
<1>4. QED
  BY <1>3

LEMMA LastIndexIsLast ==
  ASSUME NEW path \in Seq(STRING), NEW segment
  PROVE  LET at == {i \in 2..(Len(path) - 1) : path[i] = segment} IN
         /\ at = {} => LastIndex(path, segment) = 0
         /\ at # {} => /\ LastIndex(path, segment) \in at
                       /\ \A j \in at : j <= LastIndex(path, segment)
<1> DEFINE at == {i \in 2..(Len(path) - 1) : path[i] = segment}
           last == CHOOSE i \in at : \A j \in at : j <= i
<1>1. LastIndex(path, segment) = IF at = {} THEN 0 ELSE last
  BY DEF LastIndex
<1>2. Len(path) \in Nat /\ at \subseteq 1..Len(path)
  OBVIOUS
<1> HIDE DEF at
<1>3. ASSUME at # {} PROVE last \in at /\ \A j \in at : j <= last
  <2>1. \E i \in at : \A j \in at : j <= i
    BY <1>2, <1>3, Greatest
  <2>2. QED
    BY <2>1
<1> HIDE DEF last
<1>4. (at = {} => LastIndex(path, segment) = 0)
      /\ (at # {} => /\ LastIndex(path, segment) \in at
                     /\ \A j \in at : j <= LastIndex(path, segment))
  BY <1>1, <1>3
<1>5. QED
  BY <1>4 DEF at

LEMMA LastIndexType ==
  ASSUME NEW path \in Seq(STRING), NEW segment, LastIndex(path, segment) # 0
  PROVE  LastIndex(path, segment) \in 2..(Len(path) - 1)
  BY LastIndexIsLast

(* The last segment but one is where it is split, if it is a kind.         *)
LEMMA LastIndexAtEnd ==
  ASSUME NEW path \in Seq(STRING), Len(path) > 2, NEW segment, path[Len(path) - 1] = segment
  PROVE  LastIndex(path, segment) = Len(path) - 1
<1> DEFINE at == {i \in 2..(Len(path) - 1) : path[i] = segment}
<1>1. Len(path) - 1 \in at /\ \A j \in at : j \in Nat /\ j <= Len(path) - 1
  OBVIOUS
<1>2. LastIndex(path, segment) \in at /\ \A j \in at : j <= LastIndex(path, segment)
  BY <1>1, LastIndexIsLast
<1> HIDE DEF at
<1>3. QED
  BY <1>1, <1>2

LEMMA SegmentsType ==
  ASSUME NEW s \in Seq(STRING), NEW i \in Nat \ {0}, NEW k \in Nat, k <= Len(s)
  PROVE  SubSeq(s, i, k) \in Seq(STRING)
<1>1. \A x \in i..k : s[x] \in STRING
  OBVIOUS
<1>2. QED
  BY <1>1, SubSeqProperties

LEMMA OneSegment ==
  ASSUME NEW s \in Seq(STRING), NEW n \in 1..Len(s)
  PROVE  SubSeq(s, n, n) = <<s[n]>>
<1> DEFINE t == SubSeq(s, n, n)
<1>1. n \in Int /\ (\A i \in n..n : s[i] \in STRING) /\ s[n] \in STRING
  OBVIOUS
<1>2. /\ t \in Seq(STRING) /\ Len(t) = (IF n <= n THEN n - n + 1 ELSE 0)
      /\ \A i \in 1..(n - n + 1) : t[i] = s[n + i - 1]
  BY <1>1, SubSeqProperties
<1> HIDE DEF t
<1>3. Len(t) = 1 /\ t[1] = s[n]
  BY <1>1, <1>2
<1>4. t = <<s[n]>>
  BY <1>1, <1>2, <1>3
<1>5. QED
  BY <1>4 DEF t

LEMMA PrefixedSegments ==
  ASSUME NEW s \in Seq(STRING), s # <<>>, NEW x
  PROVE  LET t == <<x>> \o s IN Len(t) > 1 /\ Head(t) = x /\ Tail(t) = s
<1> DEFINE S == STRING \cup {x}
           t == <<x>> \o s
<1>1. s \in Seq(S) /\ <<x>> \in Seq(S) /\ Len(s) \in Nat \ {0}
  <2>1. STRING \subseteq S /\ x \in S
    OBVIOUS
  <2> HIDE DEF S
  <2>2. s \in Seq(S)
    BY <2>1, SeqMonotonic
  <2>3. QED
    BY <2>1, <2>2
<1> HIDE DEF S
<1>2. /\ t \in Seq(S) /\ Len(t) = 1 + Len(s)
      /\ \A i \in 1..(1 + Len(s)) : t[i] = IF i <= 1 THEN x ELSE s[i - 1]
  <2>1. Len(<<x>>) = 1 /\ <<x>>[1] = x
    OBVIOUS
  <2>2. /\ t \in Seq(S) /\ Len(t) = Len(<<x>>) + Len(s)
        /\ \A i \in 1..(Len(<<x>>) + Len(s)) :
             t[i] = IF i <= Len(<<x>>) THEN <<x>>[i] ELSE s[i - Len(<<x>>)]
    BY <1>1, ConcatProperties
  <2> HIDE DEF t
  <2>3. QED
    BY <1>1, <2>1, <2>2
<1> HIDE DEF t
<1>3. Len(t) > 1 /\ Head(t) = x /\ t # <<>>
  BY <1>1, <1>2
<1>4. /\ Tail(t) \in Seq(S) /\ Len(Tail(t)) = Len(s)
      /\ \A i \in 1..Len(Tail(t)) : Tail(t)[i] = s[i]
  <2>1. /\ Tail(t) \in Seq(S) /\ Len(Tail(t)) = Len(t) - 1
        /\ \A i \in 1..Len(Tail(t)) : Tail(t)[i] = t[i + 1]
    BY <1>2, <1>3, HeadTailProperties
  <2>2. QED
    BY <1>1, <1>2, <2>1
<1>5. Tail(t) = s
  BY <1>1, <1>4, SeqEqual
<1>6. QED
  BY <1>3, <1>5 DEF t

-----------------------------------------------------------------------------
(* What is known of a request before its name is resolved, and after.      *)
Asked(j) ==
  LET at == LastIndex(j.path, j.kind) IN
  /\ j.kind = Kind(j.path) /\ j.name # <<>>
  /\ j.name = SubSeq(j.path, 1, at - 1)
  /\ j.ref = SubSeq(j.path, at + 1, Len(j.path))

AsResolved(j) ==
  LET route == ResolveImage(j.name) IN
  /\ route # NoRoute /\ j.name # <<>>
  /\ j.host = upstreams[route[1]]["host"]
  /\ j.repo = route[2]

JobInv ==
  /\ job \in [Client -> Job]
  /\ \A c \in Client :
       /\ job[c].pc # "idle" => phase = "up"
       /\ job[c].pc = "resolve" => Asked(job[c])
       /\ job[c].pc \in {"wait", "inside"} => AsResolved(job[c])

(* One request goes on while the settings stay.                            *)
LEMMA JobChanges ==
  ASSUME JobInv, NEW c \in Client, NEW j \in Job, job' = [job EXCEPT ![c] = j],
         UNCHANGED settings, phase = "up",
         j.pc = "resolve" => Asked(j),
         j.pc \in {"wait", "inside"} => AsResolved(j)
  PROVE  JobInv'
<1>1. job' \in [Client -> Job]
  BY DEF JobInv
<1>2. ASSUME NEW d \in Client
      PROVE  /\ job'[d].pc # "idle" => phase' = "up"
             /\ job'[d].pc = "resolve" => Asked(job'[d])
             /\ job'[d].pc \in {"wait", "inside"} => AsResolved(job'[d])
  <2>1. phase' = "up"
    BY DEF settings
  <2>2. CASE d = c
    BY <2>1, <2>2 DEF JobInv
  <2>3. CASE d # c
    <3>1. job'[d] = job[d]
      BY <2>3 DEF JobInv
    <3>2. QED
      BY <2>1, <3>1 DEF JobInv
  <2>4. QED
    BY <2>2, <2>3
<1>3. \A d \in Client : AsResolved(job'[d]) => AsResolved(job[d])'
  <2> SUFFICES ASSUME NEW d \in Client, AsResolved(job'[d]) PROVE AsResolved(job[d])'
    OBVIOUS
  <2>1. UNCHANGED <<upstreams, mirror>>
    BY DEF settings
  <2>2. QED
    BY <2>1 DEF AsResolved, ResolveImage
<1>4. \A d \in Client : Asked(job'[d]) => Asked(job[d])'
  BY DEF Asked
<1>5. QED
  BY <1>1, <1>2, <1>3, <1>4 DEF JobInv

LEMMA UpstreamTypes ==
  ASSUME SettingsTypes
  PROVE  \A a \in DOMAIN upstreams : upstreams[a]["host"] \in Value \cup {""}
<1> TAKE a \in DOMAIN upstreams
<1>1. upstreams[a] \in [Field -> Value \cup {""}] /\ "host" \in Field
  BY DEF SettingsTypes, Upstream, Field
<1>2. QED
  BY ONLY <1>1

LEMMA RouteTypes ==
  ASSUME Inv, phase = "up", NEW name \in Seq(STRING), ResolveImage(name) # NoRoute
  PROVE  /\ upstreams[ResolveImage(name)[1]]["host"] \in Value \cup {""}
         /\ ResolveImage(name)[2] \in Seq(STRING)
<1>1. mirror # "" => mirror \in DOMAIN upstreams
  BY DEF Inv, Found
<1>2. PICK alias \in DOMAIN upstreams, repo \in Seq(STRING) : ResolveImage(name) = <<alias, repo>>
  <2>1. CASE Prefixed(name) /\ Head(name) \in DOMAIN upstreams
    <3>1. ResolveImage(name) = <<Head(name), Tail(name)>> /\ Len(name) > 1
      BY <2>1 DEF ResolveImage, Prefixed
    <3>2. Tail(name) \in Seq(STRING)
      BY ONLY <3>1, name \in Seq(STRING)
    <3>3. QED
      BY <2>1, <3>1, <3>2
  <2>2. CASE ~(Prefixed(name) /\ Head(name) \in DOMAIN upstreams)
    <3>1. ResolveImage(name) = <<mirror, name>> /\ mirror # ""
      BY <2>2 DEF ResolveImage
    <3>2. QED
      BY <1>1, <3>1
  <2>3. QED
    BY <2>1, <2>2
<1>3. upstreams[alias]["host"] \in Value \cup {""}
  BY UpstreamTypes DEF Inv
<1>4. ResolveImage(name)[1] = alias /\ ResolveImage(name)[2] = repo
  <2> DEFINE route == ResolveImage(name)
  <2>1. route = <<alias, repo>>
    BY <1>2
  <2> HIDE DEF route
  <2>2. route[1] = alias /\ route[2] = repo
    BY <2>1
  <2>3. QED
    BY ONLY <2>2 DEF route
<1>5. QED
  BY ONLY <1>2, <1>3, <1>4

LEMMA IdleType == Idle \in Job
  BY DEF Idle, Job

LEMMA StartKeepsJobs == ASSUME JobInv, Start, UNCHANGED job PROVE JobInv'
<1>1. phase # "up"
  BY DEF Start, Process, Look, Validate, RunRouter, ByHost
<1>2. \A c \in Client : job[c].pc = "idle"
  BY <1>1 DEF JobInv
<1>3. QED
  BY <1>2 DEF JobInv, Job

LEMMA DispatchKeepsJobs == ASSUME JobInv, NEW c \in Client, Dispatch(c) PROVE JobInv'
<1>1. phase = "up" /\ UNCHANGED settings
  BY DEF Dispatch
<1>2. PICK r \in Request :
        LET kind == Kind(r.path)
            at == LastIndex(r.path, kind)
            name == SubSeq(r.path, 1, at - 1)
            ref == SubSeq(r.path, at + 1, Len(r.path))
        IN IF kind = "none" \/ name = <<"">> \/ ref = <<"">>
             THEN job' = [job EXCEPT ![c] = [Idle EXCEPT !.pc = "done", !.path = r.path]]
             ELSE job' = [job EXCEPT ![c] =
                    [Idle EXCEPT !.pc = "resolve", !.method = r.method, !.path = r.path,
                                 !.kind = kind, !.name = name, !.ref = ref]]
  BY DEF Dispatch
<1> DEFINE kind == Kind(r.path)
           at == LastIndex(r.path, kind)
           name == SubSeq(r.path, 1, at - 1)
           ref == SubSeq(r.path, at + 1, Len(r.path))
           done == [Idle EXCEPT !.pc = "done", !.path = r.path]
           asked == [Idle EXCEPT !.pc = "resolve", !.method = r.method, !.path = r.path,
                                 !.kind = kind, !.name = name, !.ref = ref]
<1>3. r.method \in {"GET", "HEAD"} /\ r.path \in Seq(STRING)
  BY RoutingAssumption
<1>4. kind \in {"none", "manifests", "blobs"}
  BY DEF Kind
<1>5. CASE job' = [job EXCEPT ![c] = done]
  <2>1. done \in Job /\ done.pc = "done"
    BY <1>3, IdleType DEF Job, Idle
  <2>2. QED
    BY <1>1, <1>5, <2>1, JobChanges
<1>6. CASE kind # "none" /\ job' = [job EXCEPT ![c] = asked]
  <2>1. at \in 2..(Len(r.path) - 1)
    <3>1. at # 0
      BY <1>6 DEF Kind
    <3>2. QED
      BY <1>3, <3>1, LastIndexType
  <2>2. name \in Seq(STRING) /\ ref \in Seq(STRING) /\ name # <<>>
    <3>1. name \in Seq(STRING) /\ ref \in Seq(STRING)
      BY <1>3, <2>1, SegmentsType
    <3>2. \A i \in 1..(at - 1) : r.path[i] \in STRING
      BY <1>3, <2>1
    <3>3. Len(name) = at - 1
      <4> HIDE DEF at
      <4>1. QED
        BY <2>1, <3>2, SubSeqProperties
    <3>4. QED
      BY <2>1, <3>1, <3>3
  <2>3. /\ asked.pc = "resolve" /\ asked.path = r.path /\ asked.kind = kind
        /\ asked.name = name /\ asked.ref = ref
    BY DEF Idle
  <2>4. asked \in Job
    <3> HIDE DEF kind, name, ref
    <3>1. QED
      BY <1>3, <1>4, <2>2, IdleType DEF Job, Idle
  <2>5. Asked(asked)
    <3>1. asked.name # <<>>
      BY <2>2, <2>3
    <3> HIDE DEF asked
    <3>2. QED
      BY <2>3, <3>1 DEF Asked
  <2> HIDE DEF asked
  <2>6. QED
    BY <1>1, <1>6, <2>3, <2>4, <2>5, JobChanges
<1>7. QED
  BY <1>2, <1>5, <1>6

LEMMA ResolveKeepsJobs == ASSUME Inv, JobInv, NEW c \in Client, Resolve(c) PROVE JobInv'
<1> DEFINE route == ResolveImage(job[c].name)
           failed == [job[c] EXCEPT !.pc = "done"]
           found == [job[c] EXCEPT !.pc = "wait", !.host = upstreams[route[1]]["host"],
                                   !.repo = route[2]]
<1>1. /\ job[c] \in Job /\ job[c].name \in Seq(STRING) /\ job[c].pc = "resolve"
      /\ job[c].name # <<>>
  BY DEF Resolve, JobInv, Job, Asked
<1>2. phase = "up" /\ UNCHANGED settings
  BY <1>1 DEF JobInv, Resolve
<1>3. CASE job' = [job EXCEPT ![c] = failed]
  <2>1. failed \in Job /\ failed.pc = "done"
    BY <1>1 DEF Job
  <2>2. QED
    BY <1>2, <1>3, <2>1, JobChanges
<1>4. CASE route # NoRoute /\ job' = [job EXCEPT ![c] = found]
  <2>1. upstreams[route[1]]["host"] \in Value \cup {""} /\ route[2] \in Seq(STRING)
    BY <1>1, <1>2, <1>4, RouteTypes
  <2>2. /\ found.pc = "wait" /\ found.name = job[c].name
        /\ found.host = upstreams[route[1]]["host"] /\ found.repo = route[2]
    BY <1>1 DEF Job
  <2>3. found \in Job
    <3> HIDE DEF route
    <3>1. QED
      BY <1>1, <2>1 DEF Job
  <2> HIDE DEF found
  <2>4. AsResolved(found)
    BY <1>1, <1>4, <2>2 DEF AsResolved
  <2> HIDE DEF route
  <2>5. QED
    BY <1>2, <1>4, <2>2, <2>3, <2>4, JobChanges
<1>5. QED
  BY <1>1, <1>3, <1>4 DEF Resolve, JobInv

(* What changes nothing but how far a request is.                          *)
LEMMA PcKeepsJobs ==
  ASSUME JobInv, NEW c \in Client, NEW pc \in {"inside", "done"},
         job[c].pc \in {"wait", "inside"}, job' = [job EXCEPT ![c].pc = pc], UNCHANGED settings
  PROVE  JobInv'
<1> DEFINE j == [job[c] EXCEPT !.pc = pc]
<1>1. job[c] \in Job /\ AsResolved(job[c]) /\ phase = "up"
  BY DEF JobInv
<1>2. /\ j \in Job /\ j.pc = pc /\ j.name = job[c].name
      /\ j.host = job[c].host /\ j.repo = job[c].repo
  BY <1>1 DEF Job
<1>3. job' = [job EXCEPT ![c] = j]
  BY DEF JobInv
<1> HIDE DEF j
<1>4. AsResolved(j)
  BY <1>1, <1>2 DEF AsResolved
<1>5. QED
  BY <1>1, <1>2, <1>3, <1>4, JobChanges

LEMMA AnswerKeepsJobs == ASSUME JobInv, NEW c \in Client, Answer(c) PROVE JobInv'
<1>1. job[c].pc # "idle" /\ Idle \in Job /\ Idle.pc = "idle"
  BY IdleType DEF Answer, Idle
<1>2. phase = "up"
  BY <1>1 DEF JobInv
<1>3. QED
  BY <1>1, <1>2, JobChanges DEF Answer

LEMMA NextKeepsJobs == Inv /\ JobInv /\ [Next]_vars => JobInv'
<1> SUFFICES ASSUME Inv, JobInv, [Next]_vars PROVE JobInv'
  OBVIOUS
<1>1. CASE Start /\ UNCHANGED job
  BY <1>1, StartKeepsJobs
<1>2. ASSUME NEW c \in Client, Dispatch(c) PROVE JobInv'
  BY <1>2, DispatchKeepsJobs
<1>3. ASSUME NEW c \in Client, Resolve(c) PROVE JobInv'
  BY <1>3, ResolveKeepsJobs
<1>4. ASSUME NEW c \in Client, Lock(c) \/ HeadExisting(c) \/ Unlock(c) PROVE JobInv'
  BY <1>4, PcKeepsJobs DEF Lock, HeadExisting, Unlock
<1>5. ASSUME NEW c \in Client, Answer(c) PROVE JobInv'
  BY <1>5, AnswerKeepsJobs
<1>6. CASE UNCHANGED vars
  <2>1. UNCHANGED <<phase, upstreams, mirror, job>>
    BY <1>6 DEF vars, settings
  <2>2. \A c \in Client : AsResolved(job[c]) => AsResolved(job[c])'
    BY <2>1 DEF AsResolved, ResolveImage
  <2>3. \A c \in Client : Asked(job[c]) => Asked(job[c])'
    BY <2>1 DEF Asked
  <2>4. QED
    BY <2>1, <2>2, <2>3 DEF JobInv
<1>7. QED
  BY <1>1, <1>2, <1>3, <1>4, <1>5, <1>6 DEF Next

LEMMA SpecKeepsJobs == Spec => [](Inv /\ JobInv)
<1>1. Init => JobInv
  <2> SUFFICES ASSUME Init PROVE JobInv
    OBVIOUS
  <2>1. \A c \in Client : job[c] = Idle
    BY DEF Init
  <2>2. job \in [Client -> Job] /\ Idle.pc = "idle"
    BY IdleType DEF Init, Idle
  <2>3. QED
    BY ONLY <2>1, <2>2 DEF JobInv
<1>2. Init => Inv
  BY InitInv DEF Init
<1>3. QED
  BY <1>1, <1>2, NextKeepsInv, NextKeepsJobs, PTL DEF Spec

-----------------------------------------------------------------------------
(* Settings and requests stay in their types: a request that is being      *)
(* served has a name, a reference and a repository to build paths of.      *)
THEOREM RoutingTypes == Spec => []TypeOK
<1>1. Inv /\ JobInv => TypeOK
  BY DEF Inv, JobInv, TypeOK
<1>2. QED
  BY <1>1, SpecKeepsJobs, PTL

(* Whatever a repository is called, a manifest request comes to the        *)
(* manifest handler with all that precedes as its name, and so does a blob *)
(* request unless a component of the name is "manifests".                  *)
THEOREM PathsRouted == Spec => []RoutedAsAsked
<1>1. JobInv => RoutedAsAsked
  <2> SUFFICES ASSUME JobInv, NEW c \in Client,
                      job[c].pc = "resolve", Len(job[c].path) > 2,
                      job[c].path[Len(job[c].path) - 1] \in {"manifests", "blobs"},
                      ~(/\ job[c].path[Len(job[c].path) - 1] = "blobs"
                        /\ \E i \in 2..(Len(job[c].path) - 2) : job[c].path[i] = "manifests")
               PROVE  /\ job[c].kind = job[c].path[Len(job[c].path) - 1]
                      /\ job[c].name = SubSeq(job[c].path, 1, Len(job[c].path) - 2)
                      /\ job[c].ref = <<job[c].path[Len(job[c].path)]>>
    BY DEF RoutedAsAsked
  <2> DEFINE path == job[c].path
             n == Len(path)
             kind == path[n - 1]
  <2>1. path \in Seq(STRING) /\ n \in Nat /\ n > 2 /\ Asked(job[c])
    <3>1. job[c] \in Job /\ Asked(job[c])
      BY DEF JobInv
    <3>2. path \in Seq(STRING)
      BY <3>1 DEF Job
    <3>3. QED
      BY <3>1, <3>2
  <2>2. LastIndex(path, kind) = n - 1
    BY <2>1, LastIndexAtEnd
  <2>3. kind = "blobs" => LastIndex(path, "manifests") = 0
    <3> SUFFICES ASSUME kind = "blobs" PROVE LastIndex(path, "manifests") = 0
      OBVIOUS
    <3>1. \A i \in 2..(n - 1) : path[i] # "manifests"
      <4> TAKE i \in 2..(n - 1)
      <4>1. i = n - 1 \/ i \in 2..(n - 2)
        BY <2>1
      <4>2. QED
        BY <4>1
    <3>2. QED
      BY <2>1, <3>1, LastIndexIsLast
  <2>4. Kind(path) = kind
    BY <2>1, <2>2, <2>3 DEF Kind
  <2>5. /\ job[c].kind = Kind(path)
        /\ job[c].name = SubSeq(path, 1, LastIndex(path, job[c].kind) - 1)
        /\ job[c].ref = SubSeq(path, LastIndex(path, job[c].kind) + 1, n)
    BY <2>1 DEF Asked
  <2> HIDE DEF kind
  <2>6. job[c].kind = kind /\ job[c].name = SubSeq(path, 1, n - 2) /\ job[c].ref = SubSeq(path, n, n)
    BY <2>1, <2>2, <2>4, <2>5
  <2>7. SubSeq(path, n, n) = <<path[n]>>
    BY <2>1, OneSegment
  <2>8. QED
    BY <2>6, <2>7 DEF kind
<1>2. QED
  BY <1>1, SpecKeepsJobs, PTL

(* The files of a request are made of its kind, image and reference.       *)
LEMMA SameEntryFiles ==
  ASSUME NEW j, NEW k,
         j.host = k.host, j.repo = k.repo, j.kind = k.kind, j.ref = k.ref
  PROVE  OwnFiles(j) = OwnFiles(k)
<1>1. EntryPath(j) = EntryPath(k)
  BY DEF EntryPath
<1>2. QED
  BY <1>1 DEF OwnFiles, EntryKey

LEMMA FilesWithin ==
  ASSUME NEW j \in Job, NEW k \in Job,
         j.host = k.host, j.repo = k.repo, j.kind = k.kind, j.ref = k.ref
  PROVE  Files(j) \subseteq Files(k)
<1>1. ASSUME NEW e \in Entries(j) PROVE \E f \in Entries(k) : OwnFiles(e) = OwnFiles(f)
  <2>1. CASE e = j
    BY <2>1, SameEntryFiles DEF Entries
  <2>2. CASE j.kind = "manifests" /\ ~IsDigest(j.ref)
             /\ \E d \in DOMAIN Algo : e = [j EXCEPT !.ref = <<d>>]
    <3>1. PICK d \in DOMAIN Algo : e = [j EXCEPT !.ref = <<d>>]
      BY <2>2
    <3> DEFINE f == [k EXCEPT !.ref = <<d>>]
    <3>2. f \in Entries(k)
      BY <2>2 DEF Entries
    <3>3. e.host = f.host /\ e.repo = f.repo /\ e.kind = f.kind /\ e.ref = f.ref
      BY <3>1 DEF Job
    <3> HIDE DEF f
    <3>4. OwnFiles(e) = OwnFiles(f)
      BY <3>3, SameEntryFiles
    <3>5. QED
      BY <3>2, <3>4
  <2>3. QED
    BY <2>1, <2>2 DEF Entries
<1>2. QED
  BY <1>1 DEF Files

LEMMA SameFiles ==
  ASSUME NEW j \in Job, NEW k \in Job,
         j.host = k.host, j.repo = k.repo, j.kind = k.kind, j.ref = k.ref
  PROVE  Files(j) = Files(k)
<1>1. Files(j) \subseteq Files(k) /\ Files(k) \subseteq Files(j)
  BY FilesWithin
<1>2. QED
  BY <1>1

(* For any upstreams and any repository, the name with the mirrored alias  *)
(* in front and the name without come to one lock and one set of files.    *)
THEOREM OneCacheForBothForms == Spec => []BothFormsShareOneCache
<1>1. Inv /\ JobInv => BothFormsShareOneCache
  <2> SUFFICES ASSUME Inv, JobInv, NEW c \in Client, NEW d \in Client,
                      Routed(c), Routed(d), mirror # "",
                      job[c].name = <<mirror>> \o job[d].name,
                      ~(Len(job[d].name) > 1 /\ Head(job[d].name) \in DOMAIN upstreams),
                      job[c].kind = job[d].kind, job[c].ref = job[d].ref
               PROVE  Files(job[c]) = Files(job[d]) /\ LockKey(job[c]) = LockKey(job[d])
    BY DEF BothFormsShareOneCache
  <2> DEFINE name == job[d].name
  <2>1. AsResolved(job[c]) /\ AsResolved(job[d]) /\ phase = "up"
    BY DEF JobInv, Routed
  <2>2. name \in Seq(STRING)
    BY DEF JobInv, Job
  <2>3. mirror \in DOMAIN upstreams
    BY <2>1 DEF Inv, Found
  <2>4. ResolveImage(name) = <<mirror, name>> /\ name # <<>> /\ name # <<"">>
    <3>1. ResolveImage(name) # NoRoute /\ name # <<>>
      BY <2>1 DEF AsResolved
    <3>2. ~(Prefixed(name) /\ Head(name) \in DOMAIN upstreams)
      BY DEF Prefixed
    <3> HIDE DEF name
    <3>3. QED
      BY <3>1, <3>2 DEF ResolveImage
  <2>5. /\ Len(job[c].name) > 1 /\ Head(job[c].name) = mirror
        /\ Tail(job[c].name) = name
    BY <2>2, <2>4, PrefixedSegments
  <2>6. ResolveImage(job[c].name) = <<mirror, name>>
    BY <2>3, <2>4, <2>5 DEF ResolveImage, Prefixed
  <2>7. job[c].host = job[d].host /\ job[c].repo = job[d].repo
    BY <2>1, <2>4, <2>6 DEF AsResolved
  <2>8. job[c] \in Job /\ job[d] \in Job
    BY DEF JobInv
  <2>9. Files(job[c]) = Files(job[d])
    BY <2>7, <2>8, SameFiles
  <2>10. QED
    BY <2>7, <2>9 DEF LockKey
<1>2. QED
  BY <1>1, SpecKeepsJobs, PTL

-----------------------------------------------------------------------------
(* Where the layout puts an entry. *)

(* The segments of a key: those of requests and hosts, and the layout's.   *)
Segment == STRING \cup Value \cup {"", "manifests", "blobs", "tags", "digests", "sha256"}

LEMMA StringSegments == \A s \in Seq(STRING) : s \in Seq(Segment)
<1>1. STRING \subseteq Segment
  BY DEF Segment
<1>2. QED BY <1>1, SeqMonotonic

(* The first of a sequence's segments that are digests. *)
LEMMA FirstColon ==
  ASSUME NEW ref \in Seq(STRING), IsDigest(ref)
  PROVE  LET i == CHOOSE i \in Colons(ref) : \A j \in Colons(ref) : i <= j IN
         /\ i \in 1..Len(ref) /\ ref[i] \in DOMAIN Algo
         /\ \A j \in 1..Len(ref) : j < i => ref[j] \notin DOMAIN Algo
<1> DEFINE i == CHOOSE i \in Colons(ref) : \A j \in Colons(ref) : i <= j
<1>1. Colons(ref) \subseteq Nat /\ Colons(ref) # {} /\ DOMAIN ref = 1..Len(ref)
  BY DEF IsDigest, Colons
<1>2. \E x \in Colons(ref) : \A j \in Colons(ref) : x <= j
  BY <1>1, Least
<1>3. i \in Colons(ref) /\ \A j \in Colons(ref) : i <= j
  BY <1>2
<1> HIDE DEF i
<1>4. \A j \in 1..Len(ref) : j < i => j \notin Colons(ref)
  BY <1>1, <1>3
<1>5. /\ i \in 1..Len(ref) /\ ref[i] \in DOMAIN Algo
      /\ \A j \in 1..Len(ref) : j < i => ref[j] \notin DOMAIN Algo
  BY <1>1, <1>3, <1>4 DEF Colons
<1>6. QED BY <1>5 DEF i

(* splitDigest makes one segment more: the one at the colon becomes two,   *)
SplitAt(ref, i) ==
  /\ i \in 1..Len(ref) /\ ref[i] \in DOMAIN Algo
  /\ SplitDigest(ref) \in Seq(STRING)
  /\ Len(SplitDigest(ref)) = Len(ref) + 1
  /\ \A x \in 1..(Len(ref) + 1) :
       SplitDigest(ref)[x] = IF x < i THEN ref[x]
                             ELSE IF x = i THEN Algo[ref[i]]
                             ELSE IF x = i + 1 THEN Hash[ref[i]] ELSE ref[x - 1]

LEMMA DigestSplit ==
  ASSUME NEW ref \in Seq(STRING), IsDigest(ref)
  PROVE  \E i : SplitAt(ref, i)
<1> DEFINE i == CHOOSE i \in Colons(ref) : \A j \in Colons(ref) : i <= j
           a == SubSeq(ref, 1, i - 1)
           m == <<Algo[ref[i]], Hash[ref[i]]>>
           b == SubSeq(ref, i + 1, Len(ref))
<1>1. i \in 1..Len(ref) /\ ref[i] \in DOMAIN Algo /\ Len(ref) \in Nat
  BY FirstColon
<1>2. SplitDigest(ref) = a \o m \o b
  BY DEF SplitDigest
<1> HIDE DEF i
<1>3. /\ a \in Seq(STRING) /\ Len(a) = i - 1
      /\ \A x \in 1..(i - 1) : a[x] = ref[x]
  <2>1. \A x \in 1..(i - 1) : ref[x] \in STRING
    BY <1>1
  <2>2. QED BY <1>1, <2>1, SubSeqProperties
<1>4. /\ b \in Seq(STRING) /\ Len(b) = Len(ref) - i
      /\ \A x \in 1..(Len(ref) - i) : b[x] = ref[i + x]
  <2>1. \A x \in (i + 1)..Len(ref) : ref[x] \in STRING
    BY <1>1
  <2>2. /\ b \in Seq(STRING)
        /\ Len(b) = IF i + 1 <= Len(ref) THEN Len(ref) - (i + 1) + 1 ELSE 0
        /\ \A x \in 1..(Len(ref) - (i + 1) + 1) : b[x] = ref[(i + 1) + x - 1]
    BY <1>1, <2>1, SubSeqProperties
  <2> HIDE DEF b
  <2>3. Len(ref) - (i + 1) + 1 = Len(ref) - i
    BY <1>1
  <2>4. \A x \in 1..(Len(ref) - i) : (i + 1) + x - 1 = i + x
    BY <1>1
  <2>5. Len(b) = Len(ref) - i
    <3>1. i \in Int /\ Len(ref) \in Int /\ i <= Len(ref)
      BY <1>1
    <3>2. CASE i + 1 <= Len(ref)
      BY <3>1, <3>2, <2>2, <2>3
    <3>3. CASE ~(i + 1 <= Len(ref))
      <4>1. Len(b) = 0 /\ i = Len(ref)
        BY <3>1, <3>3, <2>2
      <4>2. QED BY <3>1, <4>1
    <3>4. QED BY <3>2, <3>3
  <2>6. QED BY <2>2, <2>3, <2>4, <2>5
<1>5. m \in Seq(STRING) /\ Len(m) = 2 /\ m[1] = Algo[ref[i]] /\ m[2] = Hash[ref[i]]
  BY <1>1, RoutingAssumption
<1> HIDE DEF a, b, m
<1>6. /\ a \o m \in Seq(STRING) /\ Len(a \o m) = i + 1
      /\ \A x \in 1..(i + 1) : (a \o m)[x] = IF x <= i - 1 THEN a[x] ELSE m[x - (i - 1)]
  <2>1. Len(a) + Len(m) = i + 1 /\ Len(a) = i - 1
    BY <1>1, <1>3, <1>5
  <2>2. /\ a \o m \in Seq(STRING) /\ Len(a \o m) = Len(a) + Len(m)
        /\ \A x \in 1..(Len(a) + Len(m)) :
             (a \o m)[x] = IF x <= Len(a) THEN a[x] ELSE m[x - Len(a)]
    BY <1>3, <1>5, ConcatProperties
  <2>3. QED BY <2>1, <2>2
<1>7. /\ (a \o m) \o b \in Seq(STRING) /\ Len((a \o m) \o b) = Len(ref) + 1
      /\ \A x \in 1..(Len(ref) + 1) :
           ((a \o m) \o b)[x] = IF x <= i + 1 THEN (a \o m)[x] ELSE b[x - (i + 1)]
  <2>1. Len(a \o m) + Len(b) = Len(ref) + 1
    BY <1>1, <1>4, <1>6
  <2>2. /\ (a \o m) \o b \in Seq(STRING)
        /\ Len((a \o m) \o b) = Len(a \o m) + Len(b)
        /\ \A x \in 1..(Len(a \o m) + Len(b)) :
             ((a \o m) \o b)[x] = IF x <= Len(a \o m) THEN (a \o m)[x] ELSE b[x - Len(a \o m)]
    BY <1>4, <1>6, ConcatProperties
  <2>3. QED BY <1>6, <2>1, <2>2
<1> DEFINE g == a \o m
           t == g \o b
<1>8. ASSUME NEW x \in 1..(Len(ref) + 1)
      PROVE  t[x] = IF x < i THEN ref[x]
                    ELSE IF x = i THEN Algo[ref[i]]
                    ELSE IF x = i + 1 THEN Hash[ref[i]] ELSE ref[x - 1]
  <2>1. t[x] = IF x <= i + 1 THEN g[x] ELSE b[x - (i + 1)]
    BY <1>7
  <2>2. x <= i + 1 => g[x] = IF x <= i - 1 THEN a[x] ELSE m[x - (i - 1)]
    BY <1>1, <1>6
  <2> HIDE DEF t, g
  <2>3. CASE x < i
    <3>1. x <= i + 1 /\ x <= i - 1 /\ x \in 1..(i - 1)
      BY <1>1, <2>3
    <3>2. QED BY <1>3, <2>1, <2>2, <2>3, <3>1
  <2>4. CASE x = i
    <3>1. x <= i + 1 /\ ~(x <= i - 1) /\ x - (i - 1) = 1 /\ ~(x < i)
      BY <1>1, <2>4
    <3>2. t[x] = m[1]
      BY <2>1, <2>2, <3>1
    <3>3. QED BY <1>5, <2>4, <3>1, <3>2
  <2>5. CASE x = i + 1
    <3>1. x <= i + 1 /\ ~(x <= i - 1) /\ x - (i - 1) = 2 /\ ~(x < i) /\ x # i
      BY <1>1, <2>5
    <3>2. t[x] = m[2]
      BY <2>1, <2>2, <3>1
    <3>3. QED BY <1>5, <2>5, <3>1, <3>2
  <2>6. CASE x > i + 1
    <3>1. /\ x - (i + 1) \in 1..(Len(ref) - i) /\ i + (x - (i + 1)) = x - 1
          /\ ~(x <= i + 1) /\ ~(x < i) /\ x # i /\ x # i + 1
      BY <1>1, <2>6
    <3>2. t[x] = ref[x - 1]
      BY <1>4, <2>1, <3>1
    <3>3. QED BY <3>1, <3>2
  <2>7. x < i \/ x = i \/ x = i + 1 \/ x > i + 1
    BY <1>1
  <2>8. QED BY <2>3, <2>4, <2>5, <2>6, <2>7, Zenon
<1>9. SplitAt(ref, i)
  BY <1>1, <1>2, <1>7, <1>8 DEF SplitAt
<1>10. QED BY <1>9

(* A sequence of one. *)
LEMMA Single ==
  ASSUME NEW S, NEW x \in S
  PROVE  <<x>> \in Seq(S) /\ Len(<<x>>) = 1 /\ <<x>>[1] = x
  OBVIOUS

(* or the default algorithm comes in front. *)
LEMMA DefaultSplit ==
  ASSUME NEW ref \in Seq(STRING), ~IsDigest(ref)
  PROVE  /\ SplitDigest(ref) \in Seq(Segment)
         /\ Len(SplitDigest(ref)) = Len(ref) + 1
         /\ SplitDigest(ref)[1] = "sha256"
         /\ \A x \in 2..(Len(ref) + 1) : SplitDigest(ref)[x] = ref[x - 1]
<1> DEFINE p == <<"sha256">>
           t == p \o ref
<1>1. /\ p \in Seq(Segment) /\ Len(p) = 1 /\ p[1] = "sha256"
      /\ ref \in Seq(Segment) /\ Len(ref) \in Nat
  <2>1. "sha256" \in Segment
    BY DEF Segment
  <2>2. p \in Seq(Segment) /\ Len(p) = 1 /\ p[1] = "sha256"
    BY <2>1, Single
  <2>3. QED BY <2>2, StringSegments, LenProperties
<1>2. SplitDigest(ref) = t
  BY DEF SplitDigest
<1> HIDE DEF p
<1>3. /\ t \in Seq(Segment) /\ Len(t) = 1 + Len(ref)
      /\ \A x \in 1..(1 + Len(ref)) : t[x] = IF x <= 1 THEN p[x] ELSE ref[x - 1]
  <2>1. /\ t \in Seq(Segment) /\ Len(t) = Len(p) + Len(ref)
        /\ \A x \in 1..(Len(p) + Len(ref)) :
             t[x] = IF x <= Len(p) THEN p[x] ELSE ref[x - Len(p)]
    BY <1>1, ConcatProperties
  <2>2. QED BY <1>1, <2>1
<1> HIDE DEF t
<1>4. QED BY <1>1, <1>2, <1>3

(* Either way, the parts of what was split are segments that were there,   *)
(* or what a digest is made of: none is the kind, but at the end.          *)
LEMMA SplitPlain ==
  ASSUME PlainDigests, NEW ref \in Seq(STRING), NEW kind \in {"manifests", "blobs"},
         \A x \in 1..(Len(ref) - 1) : ref[x] # kind
  PROVE  /\ SplitDigest(ref) \in Seq(Segment)
         /\ Len(SplitDigest(ref)) = Len(ref) + 1
         /\ \A x \in 1..Len(ref) : SplitDigest(ref)[x] # kind
<1>1. Len(ref) \in Nat
  BY LenProperties
<1>2. CASE IsDigest(ref)
  <2>1. PICK i : SplitAt(ref, i)
    BY <1>2, DigestSplit
  <2>2. /\ i \in 1..Len(ref) /\ Algo[ref[i]] # kind /\ Hash[ref[i]] # kind
        /\ SplitDigest(ref) \in Seq(Segment) /\ Len(SplitDigest(ref)) = Len(ref) + 1
    BY <2>1, StringSegments DEF SplitAt, PlainDigests
  <2>3. ASSUME NEW x \in 1..Len(ref) PROVE SplitDigest(ref)[x] # kind
    <3>1. SplitDigest(ref)[x] = IF x < i THEN ref[x]
                                ELSE IF x = i THEN Algo[ref[i]]
                                ELSE IF x = i + 1 THEN Hash[ref[i]] ELSE ref[x - 1]
      BY <1>1, <2>1 DEF SplitAt
    <3>2. CASE x < i
      <4>1. x \in 1..(Len(ref) - 1)
        BY <1>1, <2>2, <3>2
      <4>2. QED BY <3>1, <3>2, <4>1
    <3>3. CASE x = i
      BY <2>2, <3>1, <3>3
    <3>4. CASE x = i + 1
      BY <2>2, <3>1, <3>4
    <3>5. CASE x > i + 1
      <4>1. x - 1 \in 1..(Len(ref) - 1) /\ ~(x < i) /\ x # i /\ x # i + 1
        BY <1>1, <2>2, <3>5
      <4>2. QED BY <3>1, <4>1
    <3>6. x < i \/ x = i \/ x = i + 1 \/ x > i + 1
      BY <1>1, <2>2
    <3>7. QED BY <3>2, <3>3, <3>4, <3>5, <3>6
  <2>4. QED BY <2>2, <2>3
<1>3. CASE ~IsDigest(ref)
  <2>1. /\ SplitDigest(ref) \in Seq(Segment) /\ Len(SplitDigest(ref)) = Len(ref) + 1
        /\ SplitDigest(ref)[1] = "sha256"
        /\ \A x \in 2..(Len(ref) + 1) : SplitDigest(ref)[x] = ref[x - 1]
    BY <1>3, DefaultSplit
  <2>2. ASSUME NEW x \in 1..Len(ref) PROVE SplitDigest(ref)[x] # kind
    <3>1. CASE x = 1
      BY <2>1, <3>1
    <3>2. CASE x # 1
      <4>1. x \in 2..(Len(ref) + 1) /\ x - 1 \in 1..(Len(ref) - 1)
        BY <1>1, <3>2
      <4>2. QED BY <2>1, <4>1
    <3>3. QED BY <3>1, <3>2
  <2>3. QED BY <2>1, <2>2
<1>4. QED BY <1>2, <1>3

(* No two digests come to one directory. *)
LEMMA SplitApart ==
  ASSUME NEW r \in Seq(STRING), NEW s \in Seq(STRING), IsDigest(r), IsDigest(s),
         SplitDigest(r) = SplitDigest(s),
         \A d \in DOMAIN Algo : \A x \in 1..Len(r) : r[x] # Algo[d],
         \A d \in DOMAIN Algo : \A x \in 1..Len(s) : s[x] # Algo[d]
  PROVE  r = s
<1> DEFINE q == SplitDigest(r)
<1>1. PICK i : SplitAt(r, i)
  BY DigestSplit
<1>2. PICK j : SplitAt(s, j)
  BY DigestSplit
<1>3. /\ Len(r) \in Nat /\ Len(s) = Len(r) /\ i \in 1..Len(r) /\ j \in 1..Len(r)
      /\ r[i] \in DOMAIN Algo /\ s[j] \in DOMAIN Algo
      /\ \A x \in 1..(Len(r) + 1) :
           /\ q[x] = IF x < i THEN r[x] ELSE IF x = i THEN Algo[r[i]]
                     ELSE IF x = i + 1 THEN Hash[r[i]] ELSE r[x - 1]
           /\ q[x] = IF x < j THEN s[x] ELSE IF x = j THEN Algo[s[j]]
                     ELSE IF x = j + 1 THEN Hash[s[j]] ELSE s[x - 1]
  <2>1. Len(r) \in Nat /\ Len(s) \in Nat
    BY LenProperties
  <2>2. Len(r) + 1 = Len(s) + 1
    BY <1>1, <1>2 DEF SplitAt
  <2>3. Len(s) = Len(r)
    BY <2>1, <2>2
  <2>4. QED BY <1>1, <1>2, <2>1, <2>3 DEF SplitAt
<1> HIDE DEF q
<1>4. i = j
  <2>1. CASE i < j
    <3>1. q[i] = Algo[r[i]] /\ q[i] = s[i] /\ i \in 1..Len(s)
      BY <1>3, <2>1
    <3>2. s[i] # Algo[r[i]]
      <4>1. \A x \in 1..Len(s) : s[x] # Algo[r[i]]
        BY <1>3
      <4>2. QED BY <3>1, <4>1
    <3>3. QED BY <3>1, <3>2
  <2>2. CASE j < i
    <3>1. q[j] = Algo[s[j]] /\ q[j] = r[j]
      BY <1>3, <2>2
    <3>2. r[j] # Algo[s[j]]
      <4>1. \A x \in 1..Len(r) : r[x] # Algo[s[j]]
        BY <1>3
      <4>2. QED BY <1>3, <4>1
    <3>3. QED BY <3>1, <3>2
  <2>3. QED BY <1>3, <2>1, <2>2
<1>5. r[i] = s[i]
  <2>1. q[i] = Algo[r[i]] /\ q[i] = Algo[s[i]]
    BY <1>3, <1>4
  <2>2. q[i + 1] = Hash[r[i]] /\ q[i + 1] = Hash[s[i]]
    BY <1>3, <1>4
  <2>3. QED BY <1>3, <1>4, <2>1, <2>2, RoutingAssumption
<1>6. ASSUME NEW x \in 1..Len(r) PROVE r[x] = s[x]
  <2>1. CASE x < i
    BY <1>3, <1>4, <2>1
  <2>2. CASE x > i
    <3>1. x + 1 \in 1..(Len(r) + 1) /\ ~(x + 1 < i) /\ x + 1 # i /\ x + 1 # i + 1
      BY <1>3, <2>2
    <3>2. q[x + 1] = r[(x + 1) - 1] /\ q[x + 1] = s[(x + 1) - 1]
      BY <1>3, <1>4, <3>1
    <3>3. (x + 1) - 1 = x
      OBVIOUS
    <3>4. QED BY <3>2, <3>3
  <2>3. x < i \/ x = i \/ x > i
    BY <1>3
  <2>4. QED BY <1>5, <2>1, <2>2, <2>3
<1>7. QED BY <1>3, <1>6, SeqEqual

(* A place in the layout: two prefixes followed by it agree if the places  *)
(* begin with a kind that comes no more in them, but at the end.           *)
Placed(t, kind) ==
  /\ t \in Seq(Segment) /\ Len(t) > 1 /\ t[1] = kind
  /\ \A x \in 2..(Len(t) - 1) : t[x] # kind

LEMMA NotShorter ==
  ASSUME NEW kind, NEW p \in Seq(Segment), NEW q \in Seq(Segment), NEW t, NEW u,
         Placed(t, kind), Placed(u, kind), p \o t = q \o u
  PROVE  ~(Len(p) < Len(q))
<1> SUFFICES ASSUME Len(p) < Len(q) PROVE FALSE
  OBVIOUS
<1> DEFINE k == p \o t
           at == Len(q) + 1
<1>1. /\ Len(p) \in Nat /\ Len(q) \in Nat /\ Len(t) \in Nat /\ Len(u) \in Nat
      /\ Len(t) > 1 /\ Len(u) > 1
  BY LenProperties DEF Placed
<1>2. /\ Len(k) = Len(p) + Len(t)
      /\ \A x \in 1..(Len(p) + Len(t)) : k[x] = IF x <= Len(p) THEN p[x] ELSE t[x - Len(p)]
  BY ConcatProperties DEF Placed
<1>3. /\ Len(k) = Len(q) + Len(u)
      /\ \A x \in 1..(Len(q) + Len(u)) : k[x] = IF x <= Len(q) THEN q[x] ELSE u[x - Len(q)]
  BY ConcatProperties DEF Placed
<1> HIDE DEF k
<1>4. at \in 1..Len(k) /\ ~(at <= Len(q)) /\ at - Len(q) = 1 /\ ~(at <= Len(p))
  BY <1>1, <1>3
<1>5. k[at] = kind
  <2>1. k[at] = u[1]
    BY <1>3, <1>4
  <2>2. QED BY <2>1 DEF Placed
<1>6. k[at] = t[at - Len(p)]
  BY <1>2, <1>4
<1>7. at - Len(p) \in 2..(Len(t) - 1)
  BY <1>1, <1>2, <1>3
<1>8. QED BY <1>5, <1>6, <1>7 DEF Placed

LEMMA PlacesApart ==
  ASSUME NEW kind, NEW p \in Seq(Segment), NEW q \in Seq(Segment), NEW t, NEW u,
         Placed(t, kind), Placed(u, kind), p \o t = q \o u
  PROVE  p = q /\ t = u
<1>1. Len(p) \in Nat /\ Len(q) \in Nat
  BY LenProperties
<1>2. ~(Len(p) < Len(q)) /\ ~(Len(q) < Len(p))
  BY NotShorter
<1>3. Len(p) = Len(q)
  BY <1>1, <1>2
<1>4. t \in Seq(Segment) /\ u \in Seq(Segment) /\ Len(t) \in Nat /\ Len(u) \in Nat
  BY LenProperties DEF Placed
<1>5. \A x \in 1..Len(p) : p[x] = q[x]
  <2> TAKE x \in 1..Len(p)
  <2>1. (p \o t)[x] = p[x]
    BY <1>1, <1>4, ConcatProperties
  <2>2. (q \o u)[x] = q[x]
    BY <1>1, <1>3, <1>4, ConcatProperties
  <2>3. QED BY <2>1, <2>2
<1>6. p = q
  BY <1>3, <1>5, SeqEqual
<1>7. t = u
  BY <1>4, <1>6, ConcatSimplifications
<1>8. QED BY <1>6, <1>7

(* The layout puts one directory or two in front of a reference. *)
LEMMA OneAhead ==
  ASSUME NEW kind \in Segment, NEW s \in Seq(Segment), Len(s) > 0,
         \A x \in 1..(Len(s) - 1) : s[x] # kind
  PROVE  Placed(<<kind>> \o s, kind)
<1> DEFINE t == <<kind>> \o s
<1>1. <<kind>> \in Seq(Segment) /\ Len(<<kind>>) = 1 /\ <<kind>>[1] = kind
  BY Single
<1>2. /\ t \in Seq(Segment) /\ Len(t) = Len(<<kind>>) + Len(s)
      /\ \A x \in 1..(Len(<<kind>>) + Len(s)) :
           t[x] = IF x <= Len(<<kind>>) THEN <<kind>>[x] ELSE s[x - Len(<<kind>>)]
  BY <1>1, ConcatProperties
<1> HIDE DEF t
<1>3. /\ Len(s) \in Nat /\ t \in Seq(Segment) /\ Len(t) = 1 + Len(s) /\ t[1] = kind
      /\ \A x \in 2..(1 + Len(s)) : t[x] = s[x - 1]
  <2>1. Len(s) \in Nat
    BY LenProperties
  <2>2. QED BY <1>1, <1>2, <2>1
<1>4. ASSUME NEW x \in 2..(Len(t) - 1) PROVE t[x] # kind
  <2>1. x - 1 \in 1..(Len(s) - 1) /\ t[x] = s[x - 1]
    BY <1>3
  <2>2. QED BY <2>1
<1>5. QED BY <1>3, <1>4 DEF Placed, t

LEMMA TwoAhead ==
  ASSUME NEW kind \in Segment, NEW second \in Segment, second # kind,
         NEW s \in Seq(Segment), Len(s) > 0, \A x \in 1..(Len(s) - 1) : s[x] # kind
  PROVE  /\ Placed(<<kind, second>> \o s, kind)
         /\ (<<kind, second>> \o s)[2] = second
<1> DEFINE m == <<kind, second>>
           t == m \o s
<1>1. m \in Seq(Segment) /\ Len(m) = 2 /\ m[1] = kind /\ m[2] = second
  OBVIOUS
<1> HIDE DEF m
<1>2. /\ t \in Seq(Segment) /\ Len(t) = Len(m) + Len(s)
      /\ \A x \in 1..(Len(m) + Len(s)) : t[x] = IF x <= Len(m) THEN m[x] ELSE s[x - Len(m)]
  BY <1>1, ConcatProperties
<1> HIDE DEF t
<1>3. /\ Len(s) \in Nat /\ Len(t) = 2 + Len(s) /\ t[1] = kind /\ t[2] = second
      /\ \A x \in 3..(2 + Len(s)) : t[x] = s[x - 2]
  <2>1. Len(s) \in Nat
    BY LenProperties
  <2>2. QED BY <1>1, <1>2, <2>1
<1>4. ASSUME NEW x \in 2..(Len(t) - 1) PROVE t[x] # kind
  <2>1. CASE x = 2
    BY <1>3, <2>1
  <2>2. CASE x # 2
    <3>1. x - 2 \in 1..(Len(s) - 1) /\ t[x] = s[x - 2]
      BY <1>3, <2>2
    <3>2. QED BY <3>1
  <2>3. QED BY <2>1, <2>2
<1>5. Placed(t, kind) /\ t[2] = second
  BY <1>2, <1>3, <1>4 DEF Placed
<1>6. QED BY <1>5 DEF t, m

-----------------------------------------------------------------------------
(* A routed request, as far as keys are made of it. *)
Referring(j) ==
  /\ j.kind \in {"manifests", "blobs"}
  /\ j.host \in Value \cup {""} /\ j.repo \in Seq(STRING)
  /\ j.ref \in Seq(STRING) /\ j.ref # <<>>
  /\ \A x \in 1..(Len(j.ref) - 1) : j.ref[x] # j.kind
  /\ PlainDigests => \A d \in DOMAIN Algo : \A x \in 1..Len(j.ref) : j.ref[x] # Algo[d]

(* What follows the repository in a key. *)
Place(j) ==
  CASE j.kind = "blobs" -> <<"blobs">> \o SplitDigest(j.ref)
    [] j.kind = "manifests" /\ IsDigest(j.ref) -> <<"manifests", "digests">> \o SplitDigest(j.ref)
    [] j.kind = "manifests" /\ ~IsDigest(j.ref) -> <<"manifests", "tags">> \o j.ref

LEMMA PlaceOfKind ==
  ASSUME NEW j, Referring(j)
  PROVE  /\ j.kind = "blobs" => Place(j) = <<"blobs">> \o SplitDigest(j.ref)
         /\ j.kind = "manifests" /\ IsDigest(j.ref)
              => Place(j) = <<"manifests", "digests">> \o SplitDigest(j.ref)
         /\ j.kind = "manifests" /\ ~IsDigest(j.ref)
              => Place(j) = <<"manifests", "tags">> \o j.ref
  BY DEF Place

(* The place is one of its kind. *)
LEMMA PlaceShape ==
  ASSUME PlainDigests, NEW j, Referring(j)
  PROVE  /\ Placed(Place(j), j.kind)
         /\ SplitDigest(j.ref) \in Seq(Segment)
         /\ j.kind = "manifests" /\ IsDigest(j.ref) => Place(j)[2] = "digests"
         /\ j.kind = "manifests" /\ ~IsDigest(j.ref) => Place(j)[2] = "tags"
<1>1. /\ SplitDigest(j.ref) \in Seq(Segment) /\ Len(SplitDigest(j.ref)) = Len(j.ref) + 1
      /\ \A x \in 1..Len(j.ref) : SplitDigest(j.ref)[x] # j.kind
  BY SplitPlain DEF Referring
<1>2. Len(j.ref) \in Nat /\ Len(j.ref) > 0 /\ j.ref \in Seq(Segment)
  <2>1. j.ref \in Seq(STRING) /\ j.ref # <<>>
    BY DEF Referring
  <2>2. QED BY <2>1, StringSegments, LenProperties, EmptySeq
<1>3. \A x \in 1..(Len(SplitDigest(j.ref)) - 1) : SplitDigest(j.ref)[x] # j.kind
  BY <1>1, <1>2
<1>4. {"manifests", "blobs", "tags", "digests"} \subseteq Segment
  BY DEF Segment
<1>5. Len(SplitDigest(j.ref)) > 0
  BY <1>1, <1>2
<1>6. CASE j.kind = "blobs"
  <2>1. Placed(<<"blobs">> \o SplitDigest(j.ref), "blobs")
    BY <1>1, <1>3, <1>4, <1>5, <1>6, OneAhead
  <2>2. QED BY <1>1, <1>6, <2>1, PlaceOfKind
<1>7. CASE j.kind = "manifests" /\ IsDigest(j.ref)
  <2>1. /\ Placed(<<"manifests", "digests">> \o SplitDigest(j.ref), "manifests")
        /\ (<<"manifests", "digests">> \o SplitDigest(j.ref))[2] = "digests"
    BY <1>1, <1>3, <1>4, <1>5, <1>7, TwoAhead
  <2>2. QED BY <1>1, <1>7, <2>1, PlaceOfKind
<1>8. CASE j.kind = "manifests" /\ ~IsDigest(j.ref)
  <2>1. /\ Placed(<<"manifests", "tags">> \o j.ref, "manifests")
        /\ (<<"manifests", "tags">> \o j.ref)[2] = "tags"
    <3>1. \A x \in 1..(Len(j.ref) - 1) : j.ref[x] # "manifests"
      BY <1>8 DEF Referring
    <3>2. QED BY <1>2, <1>4, <3>1, TwoAhead
  <2>2. QED BY <1>1, <1>8, <2>1, PlaceOfKind
<1>9. QED BY <1>6, <1>7, <1>8 DEF Referring

LEMMA KeyIsPlaced ==
  ASSUME NEW j, Referring(j)
  PROVE  /\ <<j.host>> \o j.repo \in Seq(Segment)
         /\ <<j.host>> \in Seq(Segment) /\ j.repo \in Seq(Segment)
         /\ EntryPath(j) = (<<j.host>> \o j.repo) \o Place(j)
<1>1. j.host \in Segment /\ j.repo \in Seq(Segment)
  BY StringSegments DEF Referring, Segment
<1>2. <<j.host>> \in Seq(Segment)
  BY <1>1, Single
<1>3. <<j.host>> \o j.repo \in Seq(Segment)
  BY <1>1, <1>2, ConcatProperties
<1>4. EntryPath(j) = (<<j.host>> \o j.repo) \o Place(j)
  BY DEF EntryPath, Place
<1>5. QED BY <1>1, <1>2, <1>3, <1>4

(* Prefixes that agree are one host and one repository. *)
LEMMA OneRepository ==
  ASSUME NEW h \in Segment, NEW g \in Segment, NEW r \in Seq(Segment), NEW s \in Seq(Segment),
         <<h>> \o r = <<g>> \o s
  PROVE  h = g /\ r = s
<1>1. <<h>> \in Seq(Segment) /\ <<g>> \in Seq(Segment)
      /\ Len(<<h>>) = 1 /\ Len(<<g>>) = 1 /\ <<h>>[1] = h /\ <<g>>[1] = g
  BY Single
<1>2. Len(r) \in Nat /\ Len(s) \in Nat
  BY LenProperties
<1>3. (<<h>> \o r)[1] = h
  <2>1. 1 \in 1..(Len(<<h>>) + Len(r)) /\ 1 <= Len(<<h>>)
    BY <1>1, <1>2
  <2>2. (<<h>> \o r)[1] = <<h>>[1]
    BY <1>1, <2>1, ConcatProperties
  <2>3. QED BY <1>1, <2>2
<1>4. (<<g>> \o s)[1] = g
  <2>1. 1 \in 1..(Len(<<g>>) + Len(s)) /\ 1 <= Len(<<g>>)
    BY <1>1, <1>2
  <2>2. (<<g>> \o s)[1] = <<g>>[1]
    BY <1>1, <2>1, ConcatProperties
  <2>3. QED BY <1>1, <2>2
<1>5. h = g
  BY <1>3, <1>4
<1>6. r = s
  BY <1>1, <1>5, ConcatSimplifications
<1>7. QED BY <1>5, <1>6

(* One path is of one repository and, spelled alike, of one reference. *)
LEMMA KeysApart ==
  ASSUME PlainDigests, NEW j, NEW k, Referring(j), Referring(k),
         j.kind = k.kind, EntryPath(j) = EntryPath(k)
  PROVE  /\ j.host = k.host /\ j.repo = k.repo
         /\ (IsDigest(j.ref) <=> IsDigest(k.ref)) => j.ref = k.ref
         /\ j.kind = "manifests" => (IsDigest(j.ref) <=> IsDigest(k.ref))
<1>1. (<<j.host>> \o j.repo) = (<<k.host>> \o k.repo) /\ Place(j) = Place(k)
  <2> DEFINE p == <<j.host>> \o j.repo
             q == <<k.host>> \o k.repo
             t == Place(j)
             u == Place(k)
             kind == j.kind
  <2>1. p \in Seq(Segment) /\ q \in Seq(Segment) /\ p \o t = q \o u
    BY KeyIsPlaced
  <2>2. Placed(t, kind) /\ Placed(u, kind)
    BY PlaceShape
  <2> HIDE DEF p, q, t, u, kind
  <2>3. p = q /\ t = u
    BY <2>1, <2>2, PlacesApart
  <2>4. QED BY <2>3 DEF p, q, t, u
<1>2. j.host = k.host /\ j.repo = k.repo
  <2> DEFINE h == j.host
             g == k.host
             r == j.repo
             s == k.repo
  <2>1. h \in Segment /\ g \in Segment
    BY DEF Referring, Segment
  <2>2. r \in Seq(Segment) /\ s \in Seq(Segment) /\ <<h>> \o r = <<g>> \o s
    BY <1>1, KeyIsPlaced
  <2> HIDE DEF h, g, r, s
  <2>3. h = g /\ r = s
    BY <2>1, <2>2, OneRepository
  <2>4. QED BY <2>3 DEF h, g, r, s
<1>3. j.kind = "manifests" => (IsDigest(j.ref) <=> IsDigest(k.ref))
  <2>1. /\ j.kind = "manifests" /\ IsDigest(j.ref) => Place(j)[2] = "digests"
        /\ j.kind = "manifests" /\ ~IsDigest(j.ref) => Place(j)[2] = "tags"
        /\ k.kind = "manifests" /\ IsDigest(k.ref) => Place(k)[2] = "digests"
        /\ k.kind = "manifests" /\ ~IsDigest(k.ref) => Place(k)[2] = "tags"
    BY PlaceShape
  <2>2. "digests" # "tags"
    OBVIOUS
  <2>3. QED BY <1>1, <2>1, <2>2
<1>4. SUFFICES ASSUME IsDigest(j.ref) <=> IsDigest(k.ref) PROVE j.ref = k.ref
  BY <1>2, <1>3
<1>5. /\ j.ref \in Seq(STRING) /\ k.ref \in Seq(STRING)
      /\ j.ref \in Seq(Segment) /\ k.ref \in Seq(Segment)
      /\ SplitDigest(j.ref) \in Seq(Segment) /\ SplitDigest(k.ref) \in Seq(Segment)
      /\ \A d \in DOMAIN Algo : \A x \in 1..Len(j.ref) : j.ref[x] # Algo[d]
      /\ \A d \in DOMAIN Algo : \A x \in 1..Len(k.ref) : k.ref[x] # Algo[d]
  BY PlaceShape, StringSegments DEF Referring
<1>6. SplitDigest(j.ref) = SplitDigest(k.ref) => j.ref = k.ref
  <2>1. CASE IsDigest(j.ref)
    BY <1>4, <1>5, <2>1, SplitApart
  <2>2. CASE ~IsDigest(j.ref)
    <3>1. SplitDigest(j.ref) = <<"sha256">> \o j.ref /\ SplitDigest(k.ref) = <<"sha256">> \o k.ref
      BY <1>4, <2>2 DEF SplitDigest
    <3>2. <<"sha256">> \in Seq(Segment)
      BY Single DEF Segment
    <3>3. QED BY <1>5, <3>1, <3>2, ConcatSimplifications
  <2>3. QED BY <2>1, <2>2
<1>7. {<<"blobs">>, <<"manifests", "digests">>, <<"manifests", "tags">>} \subseteq Seq(Segment)
  BY DEF Segment
<1>8. CASE j.kind = "blobs"
  <2>1. <<"blobs">> \o SplitDigest(j.ref) = <<"blobs">> \o SplitDigest(k.ref)
    BY <1>1, <1>8, PlaceOfKind
  <2>2. QED BY <1>5, <1>6, <1>7, <2>1, ConcatSimplifications
<1>9. CASE j.kind = "manifests" /\ IsDigest(j.ref)
  <2>1. <<"manifests", "digests">> \o SplitDigest(j.ref) =
          <<"manifests", "digests">> \o SplitDigest(k.ref)
    BY <1>1, <1>4, <1>9, PlaceOfKind
  <2>2. QED BY <1>5, <1>6, <1>7, <2>1, ConcatSimplifications
<1>10. CASE j.kind = "manifests" /\ ~IsDigest(j.ref)
  <2>1. <<"manifests", "tags">> \o j.ref = <<"manifests", "tags">> \o k.ref
    BY <1>1, <1>4, <1>10, PlaceOfKind
  <2>2. QED BY <1>5, <1>7, <2>1, ConcatSimplifications
<1>11. QED BY <1>8, <1>9, <1>10 DEF Referring

-----------------------------------------------------------------------------
(* Where a request's kind and reference come from. *)
Reference(path) == SubSeq(path, LastIndex(path, Kind(path)) + 1, Len(path))

FromRequest(j) ==
  \E r \in Request : /\ Kind(r.path) # "none"
                     /\ j.kind = Kind(r.path) /\ j.ref = Reference(r.path)

LEMMA ReferenceShape ==
  ASSUME NEW path \in Seq(STRING), Kind(path) # "none"
  PROVE  LET ref == Reference(path) IN
         /\ Kind(path) \in {"manifests", "blobs"}
         /\ ref \in Seq(STRING) /\ ref # <<>> /\ DOMAIN ref = 1..Len(ref)
         /\ \A x \in 1..(Len(ref) - 1) : ref[x] # Kind(path)
         /\ ref[Len(ref)] = path[Len(path)]
         /\ \A x \in 1..Len(ref) : \E i \in DOMAIN path :
              path[i] = ref[x] /\ \A j \in (i + 1)..(Len(path) - 1) : path[j] # Kind(path)
<1> DEFINE kind == Kind(path)
           at == LastIndex(path, kind)
           ref == SubSeq(path, at + 1, Len(path))
           T == {i \in 2..(Len(path) - 1) : path[i] = kind}
<1>1. kind \in {"manifests", "blobs"} /\ at # 0
  BY DEF Kind
<1> HIDE DEF kind
<1>2. at \in 2..(Len(path) - 1) /\ Len(path) \in Nat
  BY <1>1, LastIndexType, LenProperties
<1>3. \A j \in T : j <= at
  BY <1>1, LastIndexIsLast
<1> HIDE DEF at
<1>4. \A x \in (at + 1)..Len(path) : path[x] \in STRING
  BY <1>2
<1>5. /\ ref \in Seq(STRING)
      /\ Len(ref) = IF at + 1 <= Len(path) THEN Len(path) - (at + 1) + 1 ELSE 0
      /\ \A x \in 1..(Len(path) - (at + 1) + 1) : ref[x] = path[(at + 1) + x - 1]
  BY <1>2, <1>4, SubSeqProperties
<1> HIDE DEF ref
<1>6. Len(ref) = Len(path) - at /\ Len(ref) > 0
  <2>1. at + 1 <= Len(path) /\ Len(path) - (at + 1) + 1 = Len(path) - at
    BY <1>2
  <2>2. Len(ref) = Len(path) - at
    BY <1>5, <2>1
  <2>3. QED BY <1>2, <2>2
<1>7. ASSUME NEW x \in 1..Len(ref) PROVE ref[x] = path[at + x]
  <2>1. x \in 1..(Len(path) - (at + 1) + 1) /\ (at + 1) + x - 1 = at + x
    BY <1>2, <1>6
  <2>2. QED BY <1>5, <2>1
<1>8. ASSUME NEW x \in 1..(Len(ref) - 1) PROVE ref[x] # kind
  <2>1. at + x \in 2..(Len(path) - 1) /\ ~(at + x <= at) /\ x \in 1..Len(ref)
    BY <1>2, <1>6
  <2>2. ref[x] = path[at + x]
    BY <1>7, <2>1
  <2>3. at + x \notin T
    BY <1>3, <2>1
  <2>4. QED BY <2>1, <2>2, <2>3
<1>9. ref[Len(ref)] = path[Len(path)]
  <2>1. Len(ref) \in 1..Len(ref) /\ at + Len(ref) = Len(path)
    BY <1>2, <1>6
  <2>2. QED BY <1>7, <2>1
<1>10. ref # <<>> /\ DOMAIN ref = 1..Len(ref)
  BY <1>5, <1>6, EmptySeq, LenProperties
<1>11. Reference(path) = ref
  BY DEF Reference, ref, at, kind
<1>12. /\ ref \in Seq(STRING) /\ ref # <<>> /\ DOMAIN ref = 1..Len(ref)
       /\ \A x \in 1..(Len(ref) - 1) : ref[x] # kind
       /\ ref[Len(ref)] = path[Len(path)]
  BY <1>5, <1>8, <1>9, <1>10
<1>13. ASSUME NEW x \in 1..Len(ref)
       PROVE  \E i \in DOMAIN path :
                path[i] = ref[x] /\ \A j \in (i + 1)..(Len(path) - 1) : path[j] # kind
  <2>1. at + x \in 1..Len(path) /\ at + x > at
    BY <1>2, <1>6
  <2>2. at + x \in DOMAIN path /\ path[at + x] = ref[x]
    BY <1>7, <2>1, LenProperties
  <2>3. ASSUME NEW j \in (at + x + 1)..(Len(path) - 1) PROVE path[j] # kind
    <3>1. j \in 2..(Len(path) - 1) /\ ~(j <= at)
      BY <1>2, <2>1
    <3>2. j \notin T
      BY <1>3, <3>1
    <3>3. QED BY <3>1, <3>2
  <2>4. QED BY <2>2, <2>3
<1>14. QED BY <1>1, <1>11, <1>12, <1>13 DEF kind

LEMMA RequestRefers ==
  ASSUME NEW j \in Job, FromRequest(j)
  PROVE  /\ Referring(j)
         /\ NoDotBody => j.ref[Len(j.ref)] \notin DOMAIN DotBody
<1>1. PICK r \in Request : /\ Kind(r.path) # "none"
                           /\ j.kind = Kind(r.path) /\ j.ref = Reference(r.path)
  BY DEF FromRequest
<1>2. r.path \in Seq(STRING)
  BY RoutingAssumption
<1>3. j.host \in Value \cup {""} /\ j.repo \in Seq(STRING)
  BY DEF Job
<1>4. /\ j.kind \in {"manifests", "blobs"} /\ j.ref \in Seq(STRING) /\ j.ref # <<>>
      /\ DOMAIN j.ref = 1..Len(j.ref)
      /\ \A x \in 1..(Len(j.ref) - 1) : j.ref[x] # j.kind
      /\ j.ref[Len(j.ref)] = r.path[Len(r.path)]
  BY <1>1, <1>2, ReferenceShape
<1>5. PlainDigests => \A d \in DOMAIN Algo : \A x \in 1..Len(j.ref) : j.ref[x] # Algo[d]
  <2> SUFFICES ASSUME PlainDigests, NEW d \in DOMAIN Algo, NEW x \in 1..Len(j.ref),
                      j.ref[x] = Algo[d]
               PROVE  FALSE
    OBVIOUS
  <2>1. PICK i \in DOMAIN r.path :
          /\ r.path[i] = j.ref[x]
          /\ \A y \in (i + 1)..(Len(r.path) - 1) : r.path[y] # Kind(r.path)
    <3> DEFINE ref == Reference(r.path)
    <3>1. \A z \in 1..Len(ref) : \E i \in DOMAIN r.path :
            /\ r.path[i] = ref[z]
            /\ \A y \in (i + 1)..(Len(r.path) - 1) : r.path[y] # Kind(r.path)
      BY <1>1, <1>2, ReferenceShape, Zenon
    <3>2. ref = j.ref
      BY <1>1
    <3> HIDE DEF ref
    <3>3. QED BY <3>1, <3>2
  <2>2. \E y \in (i + 1)..(Len(r.path) - 1) : r.path[y] = Kind(r.path)
    BY <1>1, <2>1 DEF PlainDigests
  <2>3. QED BY <2>1, <2>2
<1>6. NoDotBody => j.ref[Len(j.ref)] \notin DOMAIN DotBody
  BY <1>4 DEF NoDotBody
<1>7. QED BY <1>3, <1>4, <1>5, <1>6 DEF Referring

(* Requests under way keep what they were asked for, and those inside have *)
(* locks of their own.                                                     *)
UnderWay == {"resolve", "wait", "inside"}

LocksApart ==
  /\ \A c \in Client : job[c].pc \in UnderWay => FromRequest(job[c])
  /\ \A c, d \in Client :
       c # d /\ job[c].pc = "inside" /\ job[d].pc = "inside" => LockKey(job[c]) # LockKey(job[d])

LEMMA JobKeepsLocks ==
  ASSUME LocksApart, job \in [Client -> Job], NEW c \in Client, NEW j,
         job' = [job EXCEPT ![c] = j],
         j.pc \in UnderWay => FromRequest(j),
         j.pc = "inside" =>
           \A d \in Client : job[d].pc = "inside" => LockKey(job[d]) # LockKey(j)
  PROVE  LocksApart'
<1>1. job'[c] = j /\ \A d \in Client \ {c} : job'[d] = job[d]
  OBVIOUS
<1>2. \A d \in Client : job'[d].pc \in UnderWay => FromRequest(job'[d])
  BY <1>1 DEF LocksApart
<1>3. ASSUME NEW d \in Client, NEW e \in Client, d # e,
             job'[d].pc = "inside", job'[e].pc = "inside"
      PROVE  LockKey(job'[d]) # LockKey(job'[e])
  <2>1. CASE d # c /\ e # c
    BY <1>1, <1>3, <2>1 DEF LocksApart
  <2>2. CASE d = c
    BY <1>1, <1>3, <2>2
  <2>3. CASE e = c
    BY <1>1, <1>3, <2>3
  <2>4. QED BY <2>1, <2>2, <2>3
<1>4. LocksApart' <=>
        /\ \A d \in Client : job'[d].pc \in UnderWay => FromRequest(job'[d])
        /\ \A d, e \in Client : d # e /\ job'[d].pc = "inside" /\ job'[e].pc = "inside"
             => LockKey(job'[d]) # LockKey(job'[e])
  BY DEF LocksApart
<1>5. QED BY <1>2, <1>3, <1>4

LEMMA DispatchKeepsLocks ==
  ASSUME LocksApart, JobInv, NEW c \in Client, Dispatch(c)
  PROVE  LocksApart'
<1>1. PICK r \in Request :
        LET kind == Kind(r.path)
            at == LastIndex(r.path, kind)
            name == SubSeq(r.path, 1, at - 1)
            ref == SubSeq(r.path, at + 1, Len(r.path))
        IN IF kind = "none" \/ name = <<"">> \/ ref = <<"">>
             THEN job' = [job EXCEPT ![c] = [Idle EXCEPT !.pc = "done", !.path = r.path]]
             ELSE job' = [job EXCEPT ![c] =
                    [Idle EXCEPT !.pc = "resolve", !.method = r.method, !.path = r.path,
                                 !.kind = kind, !.name = name, !.ref = ref]]
  BY DEF Dispatch
<1> DEFINE kind == Kind(r.path)
           at == LastIndex(r.path, kind)
           name == SubSeq(r.path, 1, at - 1)
           ref == SubSeq(r.path, at + 1, Len(r.path))
           done == [Idle EXCEPT !.pc = "done", !.path = r.path]
           asked == [Idle EXCEPT !.pc = "resolve", !.method = r.method, !.path = r.path,
                                 !.kind = kind, !.name = name, !.ref = ref]
<1>2. CASE job' = [job EXCEPT ![c] = done]
  <2>1. done.pc = "done"
    BY DEF Idle
  <2> HIDE DEF done
  <2>2. QED BY <1>2, <2>1, JobKeepsLocks DEF JobInv, UnderWay
<1>3. CASE kind # "none" /\ job' = [job EXCEPT ![c] = asked]
  <2>1. asked.pc = "resolve" /\ asked.kind = kind /\ asked.ref = ref
    BY DEF Idle
  <2>2. FromRequest(asked)
    <3>1. ref = Reference(r.path)
      BY DEF Reference
    <3> HIDE DEF asked
    <3>2. QED BY <1>3, <2>1, <3>1 DEF FromRequest
  <2> HIDE DEF asked
  <2>3. QED BY <1>3, <2>1, <2>2, JobKeepsLocks DEF JobInv
<1>4. QED BY <1>1, <1>2, <1>3

LEMMA ResolveKeepsLocks ==
  ASSUME LocksApart, JobInv, NEW c \in Client, Resolve(c)
  PROVE  LocksApart'
<1> DEFINE route == ResolveImage(job[c].name)
           failed == [job[c] EXCEPT !.pc = "done"]
           found == [job[c] EXCEPT !.pc = "wait", !.host = upstreams[route[1]]["host"],
                                   !.repo = route[2]]
<1>1. job[c] \in Job /\ FromRequest(job[c]) /\ job \in [Client -> Job]
  BY DEF Resolve, JobInv, LocksApart, UnderWay
<1>2. job' = [job EXCEPT ![c] = failed] \/ job' = [job EXCEPT ![c] = found]
  BY <1>1 DEF Resolve
<1>3. /\ failed.pc = "done" /\ found.pc = "wait"
      /\ found.kind = job[c].kind /\ found.ref = job[c].ref
  BY <1>1 DEF Job
<1> HIDE DEF failed, found
<1>4. FromRequest(found)
  BY <1>1, <1>3 DEF FromRequest
<1>5. QED BY <1>1, <1>2, <1>3, <1>4, JobKeepsLocks DEF UnderWay

LEMMA LockKeepsLocks ==
  ASSUME LocksApart, JobInv, NEW c \in Client, Lock(c)
  PROVE  LocksApart'
<1> DEFINE j == [job[c] EXCEPT !.pc = "inside"]
<1>1. job[c] \in Job /\ FromRequest(job[c]) /\ job \in [Client -> Job]
  BY DEF Lock, JobInv, LocksApart, UnderWay
<1>2. /\ j.pc = "inside" /\ j.kind = job[c].kind /\ j.ref = job[c].ref
      /\ j.host = job[c].host /\ j.repo = job[c].repo
  BY <1>1 DEF Job
<1>3. job' = [job EXCEPT ![c] = j]
  BY <1>1 DEF Lock
<1> HIDE DEF j
<1>4. FromRequest(j) /\ LockKey(j) = LockKey(job[c])
  BY <1>1, <1>2 DEF FromRequest, LockKey
<1>5. \A d \in Client : job[d].pc = "inside" => LockKey(job[d]) # LockKey(j)
  BY <1>4 DEF Lock
<1>6. QED BY <1>1, <1>3, <1>4, <1>5, JobKeepsLocks

(* A request that is over holds no lock. *)
LEMMA EndKeepsLocks ==
  ASSUME LocksApart, JobInv, NEW c \in Client, HeadExisting(c) \/ Unlock(c) \/ Answer(c)
  PROVE  LocksApart'
<1>1. job[c] \in Job /\ job \in [Client -> Job]
  BY DEF JobInv
<1> DEFINE j == [job[c] EXCEPT !.pc = "done"]
<1>2. j.pc = "done" /\ Idle.pc = "idle"
  BY <1>1 DEF Job, Idle
<1>3. job' = [job EXCEPT ![c] = j] \/ job' = [job EXCEPT ![c] = Idle]
  BY <1>1 DEF HeadExisting, Unlock, Answer
<1> HIDE DEF j
<1>4. QED BY <1>1, <1>2, <1>3, JobKeepsLocks DEF UnderWay

LEMMA NextKeepsLocks == JobInv /\ LocksApart /\ [Next]_vars => LocksApart'
<1> SUFFICES ASSUME JobInv, LocksApart, [Next]_vars PROVE LocksApart'
  OBVIOUS
<1>1. CASE UNCHANGED job
  BY <1>1 DEF LocksApart
<1>2. ASSUME NEW c \in Client, Dispatch(c) \/ Resolve(c) \/ Lock(c) PROVE LocksApart'
  BY <1>2, DispatchKeepsLocks, ResolveKeepsLocks, LockKeepsLocks
<1>3. ASSUME NEW c \in Client, HeadExisting(c) \/ Unlock(c) \/ Answer(c) PROVE LocksApart'
  BY <1>3, EndKeepsLocks
<1>4. QED BY <1>1, <1>2, <1>3 DEF Next, vars

LEMMA SpecKeepsLocks == Spec => [](JobInv /\ LocksApart)
<1>1. Init => LocksApart
  <2> SUFFICES ASSUME Init PROVE LocksApart
    OBVIOUS
  <2>1. \A c \in Client : job[c].pc = "idle"
    BY DEF Init, Idle
  <2>2. QED BY <2>1 DEF LocksApart, UnderWay
<1>2. QED BY <1>1, SpecKeepsJobs, NextKeepsLocks, PTL DEF Spec

(* What a request may store beside what it asks for is a digest of the     *)
(* same repository.                                                        *)
LEMMA EntryRefers ==
  ASSUME NEW j \in Job, Referring(j), NoDotBody => j.ref[Len(j.ref)] \notin DOMAIN DotBody,
         NEW k \in Entries(j)
  PROVE  /\ Referring(k) /\ k.kind = j.kind /\ k.host = j.host /\ k.repo = j.repo
         /\ NoDotBody => k.ref[Len(k.ref)] \notin DOMAIN DotBody
         /\ k # j => j.kind = "manifests" /\ ~IsDigest(j.ref) /\ IsDigest(k.ref)
<1>1. CASE k = j
  BY <1>1
<1>2. CASE /\ j.kind = "manifests" /\ ~IsDigest(j.ref)
           /\ \E d \in DOMAIN Algo : k = [j EXCEPT !.ref = <<d>>]
  <2>1. PICK d \in DOMAIN Algo : k = [j EXCEPT !.ref = <<d>>]
    BY <1>2
  <2>2. k.kind = j.kind /\ k.host = j.host /\ k.repo = j.repo /\ k.ref = <<d>>
    BY <2>1 DEF Job
  <2>3. d \in STRING /\ \A e \in DOMAIN Algo : Algo[e] # d
    BY RoutingAssumption
  <2>4. /\ k.ref \in Seq(STRING) /\ k.ref # <<>> /\ Len(k.ref) = 1
        /\ k.ref[1] = d /\ DOMAIN k.ref = 1..1
    BY <2>2, <2>3
  <2>5. Referring(k)
    <3>1. \A x \in 1..(Len(k.ref) - 1) : k.ref[x] # k.kind
      BY <2>4
    <3>2. \A e \in DOMAIN Algo : \A x \in 1..Len(k.ref) : k.ref[x] # Algo[e]
      BY <2>3, <2>4
    <3>3. QED BY <2>2, <2>4, <3>1, <3>2 DEF Referring
  <2>6. NoDotBody => k.ref[Len(k.ref)] \notin DOMAIN DotBody
    BY <2>4, RoutingAssumption DEF NoDotBody
  <2>7. IsDigest(k.ref)
    BY <2>4 DEF IsDigest, Colons
  <2>8. QED BY <1>2, <2>2, <2>5, <2>6, <2>7
<1>3. QED BY <1>1, <1>2 DEF Entries

LEMMA RoutedRefers ==
  ASSUME JobInv, LocksApart, NEW c \in Client, Routed(c), NEW k \in Entries(job[c])
  PROVE  /\ Referring(k) /\ k.kind = job[c].kind /\ k.host = job[c].host
         /\ k.repo = job[c].repo
         /\ NoDotBody => k.ref[Len(k.ref)] \notin DOMAIN DotBody
         /\ k # job[c] =>
              job[c].kind = "manifests" /\ ~IsDigest(job[c].ref) /\ IsDigest(k.ref)
<1>1. job[c] \in Job /\ FromRequest(job[c])
  BY DEF Routed, JobInv, LocksApart, UnderWay
<1>2. QED BY <1>1, RequestRefers, EntryRefers

(* A path has segments. *)
LEMMA SplitSegments ==
  ASSUME NEW ref \in Seq(STRING)
  PROVE  SplitDigest(ref) \in Seq(Segment)
<1>1. CASE IsDigest(ref)
  <2>1. PICK i : SplitAt(ref, i)
    BY <1>1, DigestSplit
  <2>2. QED BY <2>1, StringSegments DEF SplitAt
<1>2. CASE ~IsDigest(ref)
  BY <1>2, DefaultSplit
<1>3. QED BY <1>1, <1>2

LEMMA EntrySegments ==
  ASSUME NEW j, Referring(j)
  PROVE  EntryPath(j) \in Seq(Segment) /\ Len(EntryPath(j)) \in Nat
<1>1. /\ j.ref \in Seq(Segment) /\ SplitDigest(j.ref) \in Seq(Segment)
  BY SplitSegments, StringSegments DEF Referring
<1>2. {<<"blobs">>, <<"manifests", "digests">>, <<"manifests", "tags">>} \subseteq Seq(Segment)
  BY DEF Segment
<1>3. \E m \in Seq(Segment), t \in Seq(Segment) : Place(j) = m \o t
  <2>1. CASE j.kind = "blobs"
    BY <1>1, <1>2, <2>1, PlaceOfKind
  <2>2. CASE j.kind = "manifests" /\ IsDigest(j.ref)
    BY <1>1, <1>2, <2>2, PlaceOfKind
  <2>3. CASE j.kind = "manifests" /\ ~IsDigest(j.ref)
    BY <1>1, <1>2, <2>3, PlaceOfKind
  <2>4. QED BY <2>1, <2>2, <2>3 DEF Referring
<1>4. Place(j) \in Seq(Segment)
  BY <1>3, ConcatProperties
<1>5. EntryPath(j) \in Seq(Segment)
  <2> DEFINE p == <<j.host>> \o j.repo
             t == Place(j)
  <2>1. p \in Seq(Segment) /\ t \in Seq(Segment) /\ EntryPath(j) = p \o t
    BY <1>4, KeyIsPlaced
  <2> HIDE DEF p, t
  <2>2. QED BY <2>1, ConcatProperties
<1>6. QED BY <1>5, LenProperties

(* Join leaves a plain path alone.  The files of a manifest end in a part, *)
(* that of a blob does not.                                                *)
LEMMA PlainFiles ==
  ASSUME NEW j, Referring(j), Plain(j)
  PROVE  LET path == EntryPath(j) IN
         /\ EntryKey(j) = path
         /\ j.kind = "manifests" => OwnFiles(j) = {<<path, "meta">>, <<path, "body">>}
         /\ j.kind = "blobs" => OwnFiles(j) = {<<path, "">>}
<1> DEFINE path == EntryPath(j)
           n == Len(path)
<1>1. n \in Nat
  BY EntrySegments
<1>2. Clean(path, n) /\ Clean(path, n - 1)
  <2>1. Clean(path, n)
    BY DEF Plain
  <2>2. \A i \in 1..(n - 1) : i \in 1..n
    BY <1>1
  <2> HIDE DEF path, n
  <2>3. QED BY <2>1, <2>2 DEF Clean
<1>3. Join(path, n) = path /\ Join(path, n - 1) = path
  <2> HIDE DEF path, n
  <2>1. QED BY <1>2 DEF Join
<1>4. EntryKey(j) = path
  BY <1>3 DEF EntryKey
<1>5. ASSUME j.kind = "manifests"
      PROVE  OwnFiles(j) = {<<path, "meta">>, <<path, "body">>}
  <2>1. OwnFiles(j) = {<<Join(path, n - 1), part>> : part \in {"meta", "body"}}
    BY <1>5 DEF OwnFiles
  <2> HIDE DEF path, n
  <2>2. QED BY <1>3, <2>1
<1>6. ASSUME j.kind = "blobs" PROVE OwnFiles(j) = {<<path, "">>}
  <2>1. OwnFiles(j) = {File(path)}
    BY <1>4, <1>6 DEF OwnFiles
  <2>2. path[n] \notin DOMAIN DotMeta /\ path[n] \notin DOMAIN DotBody
    BY <1>6 DEF Plain
  <2>3. File(path) = <<path, "">>
    <3> HIDE DEF path
    <3>1. QED BY <2>2 DEF File
  <2>4. QED BY <2>1, <2>3
<1>7. QED BY <1>4, <1>5, <1>6

LEMMA FileShape ==
  ASSUME NEW j, Referring(j), Plain(j), NEW f \in OwnFiles(j)
  PROVE  /\ j.kind = "manifests" => f[1] = EntryPath(j) /\ f[2] # ""
         /\ j.kind = "blobs" => f[1] = EntryPath(j) /\ f[2] = ""
<1> DEFINE path == EntryPath(j)
<1>1. CASE j.kind = "manifests"
  <2>1. f = <<path, "meta">> \/ f = <<path, "body">>
    BY <1>1, PlainFiles
  <2> HIDE DEF path
  <2>2. f[1] = path /\ (f[2] = "meta" \/ f[2] = "body")
    BY <2>1
  <2>3. QED BY <1>1, <2>2 DEF path
<1>2. CASE j.kind = "blobs"
  <2>1. f = <<path, "">>
    BY <1>2, PlainFiles
  <2> HIDE DEF path
  <2>2. QED BY <1>2, <2>1 DEF path
<1>3. QED BY <1>1, <1>2 DEF Referring

(* What shares a file is of one kind and has one path. *)
LEMMA SharedFile ==
  ASSUME NEW j, NEW k, Referring(j), Referring(k), Plain(j), Plain(k),
         OwnFiles(j) \cap OwnFiles(k) # {}
  PROVE  j.kind = k.kind /\ EntryPath(j) = EntryPath(k)
<1>1. PICK f : f \in OwnFiles(j) /\ f \in OwnFiles(k)
  OBVIOUS
<1>2. /\ j.kind \in {"manifests", "blobs"} /\ k.kind \in {"manifests", "blobs"}
  BY DEF Referring
<1>3. /\ j.kind = "manifests" => f[1] = EntryPath(j) /\ f[2] # ""
      /\ j.kind = "blobs" => f[1] = EntryPath(j) /\ f[2] = ""
  BY <1>1, FileShape
<1>4. /\ k.kind = "manifests" => f[1] = EntryPath(k) /\ f[2] # ""
      /\ k.kind = "blobs" => f[1] = EntryPath(k) /\ f[2] = ""
  BY <1>1, FileShape
<1>5. QED BY <1>2, <1>3, <1>4

(* However repositories are called, and whatever their upstreams, two      *)
(* requests that use one file, be it only to store the digest of a tag,    *)
(* use it for one thing of one repository.                                 *)
THEOREM OneImageEach == ASSUME PlainDigests PROVE Spec => []OneImagePerFile
<1>1. JobInv /\ LocksApart => OneImagePerFile
  <2> SUFFICES ASSUME JobInv, LocksApart, NEW c \in Client, NEW d \in Client,
                      Routed(c), Routed(d),
                      NEW j \in Entries(job[c]), NEW k \in Entries(job[d]),
                      Plain(j), Plain(k), OwnFiles(j) \cap OwnFiles(k) # {}
               PROVE  /\ j.host = k.host /\ j.repo = k.repo /\ j.kind = k.kind
                      /\ IsDigest(j.ref) /\ IsDigest(k.ref) => j.ref = k.ref
    BY DEF OneImagePerFile
  <2>1. Referring(j) /\ Referring(k)
    BY RoutedRefers
  <2>2. j.kind = k.kind /\ EntryPath(j) = EntryPath(k)
    BY <2>1, SharedFile
  <2>3. QED BY <2>1, <2>2, KeysApart
<1>2. QED BY <1>1, SpecKeepsLocks, PTL

(* For any number of clients, two that work on one file at the same time   *)
(* have asked for a blob once with its algorithm and once without, or the  *)
(* one for a digest that the other stores for its tag.                     *)
THEOREM FilesLocked == ASSUME PlainDigests PROVE Spec => []FilesGuarded
<1>1. JobInv /\ LocksApart => FilesGuarded
  <2> SUFFICES ASSUME JobInv, LocksApart, NEW c \in Client, NEW d \in Client, c # d,
                      job[c].pc = "inside", job[d].pc = "inside",
                      \/ IsDigest(job[c].ref) <=> IsDigest(job[d].ref)
                      \/ job[c].kind = "manifests" /\ ~IsDigest(job[c].ref),
                      NEW k \in Entries(job[d]), Plain(job[c]), Plain(k),
                      OwnFiles(job[c]) \cap OwnFiles(k) # {}
               PROVE  FALSE
    BY DEF FilesGuarded
  <2> DEFINE j == job[c]
  <2>1. j \in Entries(job[c])
    BY DEF Entries
  <2>2. Routed(c) /\ Routed(d)
    BY DEF Routed
  <2>3. /\ Referring(j) /\ Referring(k)
        /\ k = job[d] \/ (job[d].kind = "manifests" /\ ~IsDigest(job[d].ref) /\ IsDigest(k.ref))
        /\ k.kind = job[d].kind
    BY <2>1, <2>2, RoutedRefers
  <2>4. j.kind = k.kind /\ EntryPath(j) = EntryPath(k)
    BY <2>3, SharedFile
  <2>5. /\ j.host = k.host /\ j.repo = k.repo
        /\ (IsDigest(j.ref) <=> IsDigest(k.ref)) => j.ref = k.ref
        /\ j.kind = "manifests" => (IsDigest(j.ref) <=> IsDigest(k.ref))
    BY <2>3, <2>4, KeysApart
  <2>6. CASE k = job[d]
    <3>1. j.ref = k.ref
      BY <2>5, <2>6
    <3>2. LockKey(j) = LockKey(job[d])
      BY <2>4, <2>5, <2>6, <3>1 DEF LockKey
    <3>3. QED BY <3>2 DEF LocksApart
  <2>7. CASE job[d].kind = "manifests" /\ ~IsDigest(job[d].ref) /\ IsDigest(k.ref)
    <3>1. IsDigest(j.ref)
      BY <2>3, <2>4, <2>5, <2>7
    <3>2. QED BY <2>7, <3>1
  <2>8. QED BY <2>3, <2>6, <2>7
<1>2. QED BY <1>1, SpecKeepsLocks, PTL

-----------------------------------------------------------------------------
(* What the scan makes of the keys. *)
LEMMA SplitEnds ==
  ASSUME NoDotBody, NEW ref \in Seq(STRING), ref # <<>>, ref[Len(ref)] \notin DOMAIN DotBody
  PROVE  /\ SplitDigest(ref) \in Seq(Segment) /\ Len(SplitDigest(ref)) > 0
         /\ SplitDigest(ref)[Len(SplitDigest(ref))] \notin DOMAIN DotBody
<1>1. Len(ref) \in Nat /\ Len(ref) > 0
  BY LenProperties, EmptySeq
<1>2. CASE IsDigest(ref)
  <2>1. PICK i : SplitAt(ref, i)
    BY <1>2, DigestSplit
  <2>2. /\ SplitDigest(ref) \in Seq(Segment) /\ Len(SplitDigest(ref)) = Len(ref) + 1
        /\ i \in 1..Len(ref) /\ Hash[ref[i]] \notin DOMAIN DotBody
    BY <2>1, StringSegments, RoutingAssumption DEF SplitAt, NoDotBody
  <2>3. Len(ref) + 1 \in 1..(Len(ref) + 1) /\ ~(Len(ref) + 1 < i) /\ Len(ref) + 1 # i
        /\ (Len(ref) + 1) - 1 = Len(ref)
    BY <1>1, <2>2
  <2>4. SplitDigest(ref)[Len(ref) + 1] =
          IF Len(ref) + 1 = i + 1 THEN Hash[ref[i]] ELSE ref[Len(ref)]
    BY <2>1, <2>3 DEF SplitAt
  <2>5. QED BY <1>1, <2>2, <2>4
<1>3. CASE ~IsDigest(ref)
  <2>1. Len(ref) + 1 \in 2..(Len(ref) + 1) /\ (Len(ref) + 1) - 1 = Len(ref) /\ Len(ref) + 1 > 0
    BY <1>1
  <2>2. QED BY <1>3, <2>1, DefaultSplit
<1>4. QED BY <1>2, <1>3

LEMMA EndOfBoth ==
  ASSUME NEW p \in Seq(Segment), NEW t \in Seq(Segment), Len(t) > 0
  PROVE  /\ p \o t \in Seq(Segment) /\ Len(p \o t) = Len(p) + Len(t)
         /\ (p \o t)[Len(p \o t)] = t[Len(t)] /\ (p \o t)[Len(p) + 1] = t[1]
<1> DEFINE k == p \o t
<1>1. Len(p) \in Nat /\ Len(t) \in Nat
  BY LenProperties
<1>2. /\ k \in Seq(Segment) /\ Len(k) = Len(p) + Len(t)
      /\ \A x \in 1..(Len(p) + Len(t)) : k[x] = IF x <= Len(p) THEN p[x] ELSE t[x - Len(p)]
  BY ConcatProperties
<1> HIDE DEF k
<1>3. /\ Len(k) \in 1..(Len(p) + Len(t)) /\ ~(Len(k) <= Len(p)) /\ Len(k) - Len(p) = Len(t)
      /\ Len(p) + 1 \in 1..(Len(p) + Len(t)) /\ ~(Len(p) + 1 <= Len(p))
      /\ Len(p) + 1 - Len(p) = 1
  BY <1>1, <1>2
<1>4. k[Len(k)] = t[Len(t)] /\ k[Len(p) + 1] = t[1]
  BY <1>2, <1>3
<1>5. QED BY <1>2, <1>4 DEF k

(* The kind is in front of the place, and no place ends in ".body". *)
LEMMA PlaceScanned ==
  ASSUME NoDotBody, NEW j, Referring(j), j.ref[Len(j.ref)] \notin DOMAIN DotBody
  PROVE  /\ Place(j) \in Seq(Segment) /\ Len(Place(j)) > 1 /\ Place(j)[1] = j.kind
         /\ Place(j)[Len(Place(j))] \notin DOMAIN DotBody
<1>1. /\ j.ref \in Seq(STRING) /\ j.ref # <<>>
      /\ j.ref \in Seq(Segment) /\ Len(j.ref) \in Nat /\ Len(j.ref) > 0
  <2>1. j.ref \in Seq(STRING) /\ j.ref # <<>>
    BY DEF Referring
  <2>2. QED BY <2>1, StringSegments, LenProperties, EmptySeq
<1>2. /\ SplitDigest(j.ref) \in Seq(Segment) /\ Len(SplitDigest(j.ref)) > 0
      /\ SplitDigest(j.ref)[Len(SplitDigest(j.ref))] \notin DOMAIN DotBody
  BY <1>1, SplitEnds
<1>3. ASSUME NEW m \in Seq(Segment), NEW s \in Seq(Segment), Len(m) > 0, Len(s) > 0,
             m[1] = j.kind, s[Len(s)] \notin DOMAIN DotBody, Place(j) = m \o s
      PROVE  /\ Place(j) \in Seq(Segment) /\ Len(Place(j)) > 1 /\ Place(j)[1] = j.kind
             /\ Place(j)[Len(Place(j))] \notin DOMAIN DotBody
  <2>1. Len(m) \in Nat /\ Len(s) \in Nat
    BY LenProperties
  <2>2. /\ m \o s \in Seq(Segment) /\ Len(m \o s) = Len(m) + Len(s)
        /\ (m \o s)[Len(m \o s)] = s[Len(s)]
    BY <1>3, EndOfBoth
  <2>3. (m \o s)[1] = m[1]
    <3>1. 1 \in 1..(Len(m) + Len(s)) /\ 1 <= Len(m)
      BY <1>3, <2>1
    <3>2. QED BY <3>1, ConcatProperties
  <2>4. QED BY <1>3, <2>1, <2>2, <2>3
<1>4. {"manifests", "blobs", "tags", "digests"} \subseteq Segment
  BY DEF Segment
<1>5. CASE j.kind = "blobs"
  <2> DEFINE m == <<"blobs">>
  <2>1. m \in Seq(Segment) /\ Len(m) > 0 /\ m[1] = j.kind
    BY <1>4, <1>5, Single
  <2>2. Place(j) = m \o SplitDigest(j.ref)
    BY <1>5, PlaceOfKind
  <2> HIDE DEF m
  <2>3. QED BY <1>2, <1>3, <2>1, <2>2
<1>6. CASE j.kind = "manifests" /\ IsDigest(j.ref)
  <2> DEFINE m == <<"manifests", "digests">>
  <2>1. m \in Seq(Segment) /\ Len(m) > 0 /\ m[1] = j.kind
    BY <1>4, <1>6
  <2>2. Place(j) = m \o SplitDigest(j.ref)
    BY <1>6, PlaceOfKind
  <2> HIDE DEF m
  <2>3. QED BY <1>2, <1>3, <2>1, <2>2
<1>7. CASE j.kind = "manifests" /\ ~IsDigest(j.ref)
  <2> DEFINE m == <<"manifests", "tags">>
  <2>1. m \in Seq(Segment) /\ Len(m) > 0 /\ m[1] = j.kind
    BY <1>4, <1>7
  <2>2. Place(j) = m \o j.ref
    BY <1>7, PlaceOfKind
  <2> HIDE DEF m
  <2>3. QED BY <1>1, <1>3, <2>1, <2>2
<1>8. QED BY <1>5, <1>6, <1>7 DEF Referring

LEMMA KeyScanned ==
  ASSUME NoDotBody, NEW j, Referring(j), j.ref[Len(j.ref)] \notin DOMAIN DotBody
  PROVE  LET key == EntryPath(j) IN
         /\ key[Len(key)] \notin DOMAIN DotBody
         /\ \E i \in 1..(Len(key) - 1) : key[i] = j.kind
<1> DEFINE p == <<j.host>> \o j.repo
           t == Place(j)
<1>1. p \in Seq(Segment) /\ EntryPath(j) = p \o t
  BY KeyIsPlaced
<1>2. /\ t \in Seq(Segment) /\ Len(t) > 1 /\ t[1] = j.kind
      /\ t[Len(t)] \notin DOMAIN DotBody
  BY PlaceScanned
<1> HIDE DEF p, t
<1>3. Len(p) \in Nat /\ Len(t) \in Nat
  BY <1>1, <1>2, LenProperties
<1>4. /\ Len(p \o t) = Len(p) + Len(t)
      /\ (p \o t)[Len(p \o t)] = t[Len(t)] /\ (p \o t)[Len(p) + 1] = t[1]
  BY <1>1, <1>2, <1>3, EndOfBoth
<1>5. Len(p) + 1 \in 1..(Len(p \o t) - 1)
  BY <1>2, <1>3, <1>4
<1>6. QED BY <1>1, <1>2, <1>4, <1>5

(* Whatever is called "blobs" or "manifests" in a name, the scan of a      *)
(* restart puts every file it does not pass over under the key and the     *)
(* kind of the entry it was written for, as long as no reference ends in   *)
(* ".body".                                                                *)
THEOREM ScannedFilesFound == ASSUME NoDotBody PROVE Spec => []ScanFindsFiles
<1>1. JobInv /\ LocksApart => ScanFindsFiles
  <2> SUFFICES ASSUME JobInv, LocksApart, NEW c \in Client, Routed(c),
                      NEW j \in Entries(job[c]), NEW f \in OwnFiles(j),
                      Plain(j), ~IsHidden(f)
               PROVE  ScanKind(f) = j.kind /\ ScanKey(f) = EntryKey(j)
    BY DEF ScanFindsFiles
  <2> DEFINE key == EntryPath(j)
  <2>1. /\ Referring(j) /\ j.ref[Len(j.ref)] \notin DOMAIN DotBody
        /\ j.kind \in {"manifests", "blobs"}
    <3>1. Referring(j) /\ j.ref[Len(j.ref)] \notin DOMAIN DotBody
      BY RoutedRefers
    <3>2. QED BY <3>1 DEF Referring
  <2>2. /\ key[Len(key)] \notin DOMAIN DotBody
        /\ \E i \in 1..(Len(key) - 1) : key[i] = j.kind
    BY <2>1, KeyScanned
  <2>3. EntryKey(j) = key
    BY <2>1, PlainFiles
  <2>4. /\ j.kind = "manifests" => f[1] = key /\ f[2] # ""
        /\ j.kind = "blobs" => f[1] = key /\ f[2] = ""
    BY <2>1, FileShape
  <2> HIDE DEF key
  <2>5. ScanKey(f) = key
    BY <2>1, <2>2, <2>4 DEF ScanKey
  <2>6. ScanKind(f) = j.kind
    <3>1. CASE j.kind = "manifests"
      BY <2>4, <3>1 DEF ScanKind
    <3>2. CASE j.kind = "blobs"
      <4>1. UnderBlobs(f)
        BY <2>2, <2>4, <3>2 DEF UnderBlobs
      <4>2. QED BY <2>4, <3>2, <4>1 DEF ScanKind
    <3>3. QED BY <2>1, <3>1, <3>2
  <2>7. QED BY <2>3, <2>5, <2>6
<1>2. QED BY <1>1, SpecKeepsLocks, PTL
=============================================================================
