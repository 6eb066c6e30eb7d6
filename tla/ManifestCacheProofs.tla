------------------------ MODULE ManifestCacheProofs -------------------------
(***************************************************************************)
(* One request at a time fetches a reference, whatever fails.  If no write *)
(* fails, metadata and body belong together in every answer and under      *)
(* every digest, and so they do after failures, crashes and restarts until *)
(* a write is cut short between the two.  What a tag is answered with is   *)
(* no older than its TTL and a latency.  All this for any number of        *)
(* digests, requests and evictors.                                         *)
(***************************************************************************)
EXTENDS MCManifestHistory, SequenceTheorems, TLAPS

Part == {"meta", "body"}
File == [key : Key, part : Part]
HeldType == [digest : Digest \cup {Nobody}, at : 0..MaxClock, body : Digest \cup {Nobody}]
Frame == [pc : PC, op : {"get", "head"}, ref : Key, stage : Stage,
          up : Digest \cup {Nobody}, asOf : 0..MaxClock, held : HeldType,
          left : Seq(File),
          answer : {"none", "fresh", "upstream", "stale", "digest", "failed"}]

(* Which reads a request for a tag, or for a digest, may be at. *)
Staged(w) ==
  /\ w.pc \in {"meta", "body"} =>
       IF w.ref = Tag
         THEN w.stage \in {"trusted", "current", "matching", "refresh", "stale", "fallback"}
         ELSE w.stage \in {"digest", "known", "fallback"}
  /\ w.pc = "ask" => w.stage = "fallback" \/ w.ref = Tag
  /\ w.pc = "stamp" \/ (w.pc \in {"meta", "body"} /\ w.stage \in {"matching", "refresh"})
       => w.up \in Digest
  /\ w.pc = "put" => w.left # <<>> /\ w.held.digest \in Digest /\ w.held.body \in Digest
  /\ w.pc = "body" => w.held.digest \in Digest

Locked == \A p \in Proc : At(p, "idle") \/ keyLock[proc[p].ref] = p

Inv == TypeOK /\ Locked /\ \A p \in Proc : Staged(proc[p])

(* What the locals of a goroutine look like. *)
LEMMA FrameOf == ASSUME TypeOK, NEW p \in Proc PROVE proc[p] \in Frame
  BY DEF TypeOK, Frame, HeldType, File, Part

(* A step of one goroutine that leaves the locks alone. *)
LEMMA LocalStep ==
  ASSUME Inv, NEW p \in Proc, NEW w \in Frame, Locals(p, w), Staged(w),
         w.ref = proc[p].ref, ~At(p, "idle"), w.pc # "idle",
         UNCHANGED <<head, clock, evicting, keyLock>>,
         DOMAIN meta' \subseteq Key, \A k \in DOMAIN meta' : meta'[k] \in Meta,
         DOMAIN body' \subseteq Key, \A k \in DOMAIN body' : body'[k] \in Digest
  PROVE  Inv'
<1>1. proc' = [proc EXCEPT ![p] = w] /\ proc \in [Proc -> Frame]
  BY DEF Locals, Inv, TypeOK, Frame, HeldType, File, Part
<1>2. proc' \in [Proc -> Frame]
  BY <1>1
<1>3. TypeOK'
  BY <1>2 DEF Inv, TypeOK, Frame, HeldType, File, Part
<1>4. Locked'
  BY <1>1 DEF Inv, Locked, At
<1>5. \A q \in Proc : Staged(proc'[q])
  BY <1>1 DEF Inv
<1>6. QED
  BY <1>3, <1>4, <1>5 DEF Inv

(* Bounds that types need. *)
LEMMA Zero == 0 \in 0..MaxClock
  BY ManifestAssumption

(* Of the operators on locals. *)
LEMMA LookFrame ==
  ASSUME NEW w \in Frame, NEW s \in Stage
  PROVE  /\ Look(w, s) \in Frame
         /\ Look(w, s).pc = "meta" /\ Look(w, s).stage = s
         /\ Look(w, s).ref = w.ref /\ Look(w, s).up = w.up
  BY DEF Look, Frame, PC

LEMMA AskFrame ==
  ASSUME NEW w \in Frame, w.ref = Tag \/ w.stage = "fallback"
  PROVE  Ask(w) \in Frame /\ Staged(Ask(w)) /\ Ask(w).ref = w.ref /\ Ask(w).pc = "ask"
  BY DEF Ask, Frame, PC, Staged

LEMMA FetchFrame ==
  ASSUME NEW w \in Frame
  PROVE  Fetch(w) \in Frame /\ Staged(Fetch(w)) /\ Fetch(w).ref = w.ref /\ Fetch(w).pc = "fetch"
  BY Zero DEF Fetch, Frame, PC, Stage, Staged

LEMMA ReplyFrame ==
  ASSUME NEW w \in Frame, NEW m \in HeldType,
         NEW a \in {"fresh", "upstream", "stale", "digest", "failed"}
  PROVE  /\ Reply(w, a, m) \in Frame /\ Staged(Reply(w, a, m))
         /\ Reply(w, a, m).ref = w.ref /\ Reply(w, a, m).pc = "done"
<1>1. [m EXCEPT !.at = 0] \in HeldType
  BY Zero DEF HeldType
<1>2. QED
  BY <1>1 DEF Reply, Frame, PC, Stage, Staged

LEMMA ReplyHeadFrame ==
  ASSUME NEW w \in Frame
  PROVE  /\ ReplyHead(w) \in Frame /\ Staged(ReplyHead(w))
         /\ ReplyHead(w).ref = w.ref /\ ReplyHead(w).pc = "done"
<1>1. [digest |-> w.up, at |-> 0, body |-> w.up] \in HeldType
  BY ManifestAssumption DEF Frame, HeldType
<1>2. QED
  BY <1>1, ReplyFrame DEF ReplyHead

(* The files a manifest is stored in. *)
LEMMA FilesSeq ==
  ASSUME NEW k \in Key
  PROVE  Files(k) \in Seq(File) /\ Files(k) # <<>> /\ Len(Files(k)) = 2
  BY DEF Files, File, Part

LEMMA PutFrame ==
  ASSUME NEW w \in Frame, NEW m \in HeldType, m.digest \in Digest, m.body \in Digest
  PROVE  /\ Put(w, m) \in Frame /\ Staged(Put(w, m))
         /\ Put(w, m).ref = w.ref /\ Put(w, m).pc = "put"
<1>1. Tag \in Key /\ m.digest \in Key /\ w.ref \in Key
  BY DEF Key, Frame
<1> DEFINE l == IF w.ref = Tag THEN Files(Tag) \o Files(m.digest) ELSE Files(w.ref)
<1>2. l \in Seq(File) /\ l # <<>>
  BY <1>1, FilesSeq
<1>3. Put(w, m) = [w EXCEPT !.pc = "put", !.stage = "none", !.up = Nobody, !.held = m, !.left = l]
  BY DEF Put
<1> HIDE DEF l
<1>4. QED
  BY <1>2, <1>3 DEF Frame, PC, Stage, Staged

LEMMA MissedFrame ==
  ASSUME NEW w \in Frame, Staged(w), w.pc \in {"meta", "body"}
  PROVE  /\ Missed(w) \in Frame /\ Staged(Missed(w))
         /\ Missed(w).ref = w.ref /\ Missed(w).pc # "idle"
<1>1. CASE w.stage \in {"trusted", "current"}
  BY <1>1, AskFrame DEF Missed, Staged
<1>2. CASE w.stage \in {"matching", "refresh"}
  BY <1>2, FetchFrame, ReplyHeadFrame DEF Missed
<1>3. CASE w.stage \in {"digest", "stale"}
  BY <1>3, FetchFrame DEF Missed
<1>4. CASE w.stage = "known"
  <2>1. Missed(w) = Look(w, "fallback") /\ "fallback" \in Stage
    BY <1>4 DEF Missed, Stage
  <2>2. QED
    BY <2>1, LookFrame, ManifestAssumption DEF Staged
<1>5. CASE w.stage = "fallback"
  BY <1>5, AskFrame DEF Missed
<1>6. QED
  BY <1>1, <1>2, <1>3, <1>4, <1>5 DEF Staged

LEMMA FoundFrame ==
  ASSUME TypeOK, NEW w \in Frame, Staged([w EXCEPT !.pc = "meta"]), w.pc = "body",
         NEW m \in HeldType, m.digest \in Digest, m.body \in Digest
  PROVE  /\ Found(w, m) \in Frame /\ Staged(Found(w, m))
         /\ Found(w, m).ref = w.ref /\ Found(w, m).pc # "idle"
<1>0. /\ w.ref = Tag => w.stage \in {"trusted", "current", "matching", "refresh", "stale", "fallback"}
      /\ w.ref # Tag => w.stage \in {"digest", "known", "fallback"}
      /\ w.stage \in {"matching", "refresh"} => w.up \in Digest
  BY DEF Staged, Frame
<1>1. CASE w.stage = "trusted" /\ Fresh(m)
  <2> DEFINE v == [w EXCEPT !.asOf = clock]
  <2>1. v \in Frame /\ v.ref = w.ref
    BY DEF Frame, TypeOK
  <2>2. Found(w, m) = IF w.op = "get" THEN Look(v, "current") ELSE Reply(v, "fresh", m)
    BY <1>1 DEF Found
  <2> HIDE DEF v
  <2>3. "current" \in Stage /\ w.ref = Tag
    BY <1>0, <1>1 DEF Stage
  <2>4. CASE w.op = "get"
    <3>1. Found(w, m) = Look(v, "current")
      BY <2>2, <2>4
    <3>2. QED
      BY <2>1, <2>3, <3>1, LookFrame DEF Staged
  <2>5. CASE w.op # "get"
    <3>1. Found(w, m) = Reply(v, "fresh", m)
      BY <2>2, <2>5
    <3>2. "fresh" \in {"fresh", "upstream", "stale", "digest", "failed"}
      OBVIOUS
    <3>3. /\ Reply(v, "fresh", m) \in Frame /\ Staged(Reply(v, "fresh", m))
          /\ Reply(v, "fresh", m).ref = v.ref /\ Reply(v, "fresh", m).pc = "done"
      BY <2>1, <3>2, ReplyFrame
    <3>4. QED
      BY <2>1, <3>1, <3>3
  <2>6. QED
    BY <2>4, <2>5
<1>2. CASE w.stage = "trusted" /\ ~Fresh(m)
  BY <1>0, <1>2, AskFrame DEF Found
<1>3. CASE w.stage \in {"current", "digest", "known", "stale", "fallback"}
  BY <1>3, ReplyFrame DEF Found
<1>4. CASE w.stage = "matching" /\ m.digest = w.up
  <2>1. Found(w, m) = Look(w, "refresh") /\ "refresh" \in Stage
    BY <1>4 DEF Found, Stage
  <2>2. QED
    BY <1>0, <1>4, <2>1, LookFrame DEF Staged
<1>5. CASE w.stage = "matching" /\ m.digest # w.up
  BY <1>5, FetchFrame, ReplyHeadFrame DEF Found
<1>6. CASE w.stage = "refresh"
  <2>1. [m EXCEPT !.at = clock] \in HeldType
    BY DEF HeldType, TypeOK
  <2>2. Found(w, m) = Put(w, [m EXCEPT !.at = clock])
    BY <1>6 DEF Found
  <2>3. QED
    BY <2>1, <2>2, PutFrame DEF HeldType
<1>7. QED
  BY <1>0, <1>1, <1>2, <1>3, <1>4, <1>5, <1>6

-----------------------------------------------------------------------------
(* Nothing is held before the first request. *)
LEMMA IdleFrame == Idle \in Frame /\ Staged(Idle) /\ Idle.pc = "idle"
<1>1. Unread \in HeldType
  BY Zero DEF Unread, HeldType
<1>2. Tag \in Key /\ <<>> \in Seq(File)
  BY DEF Key
<1>3. Idle \in Frame
  BY <1>1, <1>2, Zero DEF Idle, Frame, PC, Stage
<1>4. QED
  BY <1>3 DEF Idle, Staged

LEMMA InitInv == Init => Inv
<1> SUFFICES ASSUME Init PROVE Inv
  OBVIOUS
<1>1. proc \in [Proc -> Frame] /\ \A p \in Proc : proc[p] = Idle
  BY IdleFrame DEF Init
<1>2. Locked /\ \A p \in Proc : Staged(proc[p])
  BY <1>1, IdleFrame DEF Locked, At
<1>3. TypeOK
  <2>1. /\ head \in Digest /\ clock \in 0..MaxClock
        /\ DOMAIN meta = {} /\ DOMAIN body = {}
        /\ keyLock \in [Key -> Proc \cup {Nobody}]
    BY Zero DEF Init
  <2>2. evicting \in [Evictors -> [pc : {"idle", "meta", "body"}, key : Key]]
    BY DEF Init, Key
  <2>3. QED
    BY <1>1, <2>1, <2>2 DEF TypeOK, Frame, HeldType, File, Part
<1>4. QED
  BY <1>2, <1>3 DEF Inv

(* A request takes its lock, *)
LEMMA ArriveKeepsInv == ASSUME Inv, NEW p \in Proc, Arrive(p) PROVE Inv'
<1>1. PICK op \in {"get", "head"}, k \in Key :
        /\ keyLock[k] = Nobody
        /\ keyLock' = [keyLock EXCEPT ![k] = p]
        /\ Begin(p, op, k)
  BY DEF Arrive
<1> DEFINE v == [Idle EXCEPT !.op = op, !.ref = k]
           w == Look(v, First(v))
<1>2. v \in Frame /\ v.ref = k /\ v.op = op
  BY IdleFrame DEF Frame
<1>3. IF k = Tag THEN First(v) = "trusted" ELSE First(v) \in {"digest", "known"}
  BY <1>2 DEF First
<1>4. First(v) \in Stage
  BY <1>3 DEF Stage
<1>5. proc' = [proc EXCEPT ![p] = w]
  BY <1>1 DEF Begin, Locals
<1> HIDE DEF v
<1>6. w \in Frame /\ w.pc = "meta" /\ w.stage = First(v) /\ w.ref = k
  BY <1>2, <1>4, LookFrame
<1> HIDE DEF w
<1>7. Staged(w)
  BY <1>3, <1>6 DEF Staged
<1>8. proc \in [Proc -> Frame] /\ proc' \in [Proc -> Frame]
  BY <1>5, <1>6 DEF Inv, TypeOK, Frame, HeldType, File, Part
<1>9. TypeOK'
  <2>1. UNCHANGED <<head, clock, meta, body, evicting>>
    BY DEF Arrive, world, store
  <2>2. keyLock' \in [Key -> Proc \cup {Nobody}]
    BY <1>1 DEF Inv, TypeOK
  <2>3. QED
    BY <1>8, <2>1, <2>2 DEF Inv, TypeOK, Frame, HeldType, File, Part
<1>10. Locked'
  <2> SUFFICES ASSUME NEW q \in Proc PROVE (At(q, "idle") \/ keyLock[proc[q].ref] = q)'
    BY DEF Locked
  <2>1. keyLock \in [Key -> Proc \cup {Nobody}] /\ proc[q].ref \in Key
    BY <1>8 DEF Inv, TypeOK, Frame
  <2>2. CASE q = p
    BY <1>1, <1>5, <1>6, <1>8, <2>1, <2>2
  <2>3. CASE q # p
    <3>1. proc'[q] = proc[q]
      BY <1>5, <2>3, <1>8
    <3>2. At(q, "idle") \/ keyLock[proc[q].ref] = q
      BY DEF Inv, Locked
    <3>3. keyLock[proc[q].ref] = q => proc[q].ref # k
      BY <1>1, ManifestAssumption
    <3>4. QED
      BY <1>1, <2>1, <3>1, <3>2, <3>3 DEF At
  <2>4. QED
    BY <2>2, <2>3
<1>11. \A q \in Proc : Staged(proc'[q])
  BY <1>5, <1>7, <1>8 DEF Inv
<1>12. QED
  BY <1>9, <1>10, <1>11 DEF Inv

(* and gives it back when it is answered. *)
LEMMA DoneKeepsInv == ASSUME Inv, NEW p \in Proc, Done(p) PROVE Inv'
<1>1. /\ keyLock' = [keyLock EXCEPT ![proc[p].ref] = Nobody]
      /\ proc' = [proc EXCEPT ![p] = Idle] /\ ~At(p, "idle")
      /\ UNCHANGED <<head, clock, meta, body, evicting>>
  BY DEF Done, Locals, world, store, At
<1>2. proc \in [Proc -> Frame] /\ proc' \in [Proc -> Frame]
  BY <1>1, IdleFrame DEF Inv, TypeOK, Frame, HeldType, File, Part
<1>3. keyLock \in [Key -> Proc \cup {Nobody}] /\ keyLock' \in [Key -> Proc \cup {Nobody}]
  BY <1>1 DEF Inv, TypeOK
<1>4. TypeOK'
  BY <1>1, <1>2, <1>3 DEF Inv, TypeOK, Frame, HeldType, File, Part
<1>5. Locked'
  <2> SUFFICES ASSUME NEW q \in Proc PROVE (At(q, "idle") \/ keyLock[proc[q].ref] = q)'
    BY DEF Locked
  <2>1. CASE q = p
    BY <1>1, <1>2, <2>1, IdleFrame DEF At
  <2>2. CASE q # p
    <3>1. proc'[q] = proc[q] /\ proc[q].ref \in Key
      BY <1>1, <1>2, <2>2 DEF Frame
    <3>2. At(q, "idle") \/ keyLock[proc[q].ref] = q
      BY DEF Inv, Locked
    <3>3. keyLock[proc[p].ref] = p
      BY <1>1 DEF Inv, Locked
    <3>4. QED
      BY <1>1, <1>3, <2>2, <3>1, <3>2, <3>3 DEF At
  <2>3. QED
    BY <2>1, <2>2
<1>6. \A q \in Proc : Staged(proc'[q])
  BY <1>1, <1>2, IdleFrame DEF Inv
<1>7. QED
  BY <1>4, <1>5, <1>6 DEF Inv

(* The files hold what their types say. *)
LEMMA Files0 ==
  ASSUME Inv
  PROVE  /\ DOMAIN meta \subseteq Key /\ \A k \in DOMAIN meta : meta[k] \in Meta
         /\ DOMAIN body \subseteq Key /\ \A k \in DOMAIN body : body[k] \in Digest
         /\ clock \in 0..MaxClock /\ head \in Digest
  BY DEF Inv, TypeOK

LEMMA ReadMetaKeepsInv == ASSUME Inv, NEW p \in Proc, ReadMeta(p) PROVE Inv'
<1> DEFINE w == proc[p]
<1>1. w \in Frame /\ Staged(w) /\ w.pc = "meta"
  BY FrameOf DEF Inv, ReadMeta, At
<1>2. UNCHANGED <<head, clock, meta, body, evicting, keyLock>> /\ ~At(p, "idle")
  BY DEF ReadMeta, world, store, At
<1>3. CASE w.ref \in DOMAIN meta
  <2> DEFINE h == [digest |-> meta[w.ref].digest, at |-> meta[w.ref].at, body |-> Nobody]
             v == [w EXCEPT !.pc = "body", !.held = h]
  <2>1. h \in HeldType /\ h.digest \in Digest
    BY <1>3, Files0 DEF HeldType, Meta
  <2>2. Locals(p, v)
    BY <1>3 DEF ReadMeta
  <2> HIDE DEF h
  <2>3. v \in Frame /\ v.ref = w.ref /\ v.pc = "body"
    BY <1>1, <2>1 DEF Frame, PC
  <2>4. Staged(v)
    BY <1>1, <2>1 DEF Frame, Staged
  <2> HIDE DEF v
  <2>5. v.pc # "idle"
    BY <2>3
  <2>6. QED
    BY <1>2, <2>2, <2>3, <2>4, <2>5, LocalStep, Files0
<1>4. CASE w.ref \notin DOMAIN meta
  <2>1. Locals(p, Missed(w))
    BY <1>4 DEF ReadMeta
  <2>2. /\ Missed(w) \in Frame /\ Staged(Missed(w))
        /\ Missed(w).ref = w.ref /\ Missed(w).pc # "idle"
    BY <1>1, MissedFrame
  <2>3. QED
    BY <1>2, <2>1, <2>2, LocalStep, Files0
<1>5. QED
  BY <1>3, <1>4

LEMMA ReadBodyKeepsInv == ASSUME Inv, NEW p \in Proc, ReadBody(p) PROVE Inv'
<1> DEFINE w == proc[p]
           v == [w EXCEPT !.held = Unread]
           m == [w.held EXCEPT !.body = body[w.ref]]
<1>1. w \in Frame /\ Staged(w) /\ w.pc = "body"
  BY FrameOf DEF Inv, ReadBody, At
<1>2. UNCHANGED <<head, clock, meta, body, evicting, keyLock>> /\ ~At(p, "idle")
  BY DEF ReadBody, world, store, At
<1>3. Unread \in HeldType
  BY Zero DEF Unread, HeldType
<1>4. v \in Frame /\ v.ref = w.ref /\ v.pc = "body" /\ v.stage = w.stage /\ v.up = w.up
  BY <1>1, <1>3 DEF Frame
<1>5. Locals(p, IF w.ref \in DOMAIN body THEN Found(v, m) ELSE Missed(v))
  BY DEF ReadBody
<1>6. TypeOK
  BY DEF Inv
<1>7. CASE w.ref \in DOMAIN body
  <2>1. m \in HeldType /\ m.digest \in Digest /\ m.body \in Digest
    BY <1>1, <1>7, Files0 DEF Frame, HeldType, Staged
  <2>2. Staged([v EXCEPT !.pc = "meta"])
    BY <1>1, <1>4 DEF Staged, Frame
  <2> HIDE DEF v, m
  <2>3. /\ Found(v, m) \in Frame /\ Staged(Found(v, m))
        /\ Found(v, m).ref = w.ref /\ Found(v, m).pc # "idle"
    BY <1>4, <1>6, <2>1, <2>2, FoundFrame
  <2>4. QED
    BY <1>2, <1>5, <1>7, <2>3, LocalStep, Files0
<1>8. CASE w.ref \notin DOMAIN body
  <2> DEFINE u == [v EXCEPT !.pc = "meta"]
  <2>1. u \in Frame /\ Staged(u) /\ u.pc = "meta" /\ u.ref = w.ref
    BY <1>1, <1>4 DEF Staged, Frame, PC
  <2>2. Missed(v) = Missed(u)
    BY <1>1, <1>4 DEF Missed, Frame, Ask, Fetch, ReplyHead, Reply, Look
  <2> HIDE DEF u
  <2>3. /\ Missed(u) \in Frame /\ Staged(Missed(u))
        /\ Missed(u).ref = w.ref /\ Missed(u).pc # "idle"
    BY <2>1, MissedFrame
  <2>4. QED
    BY <1>2, <1>5, <1>8, <2>2, <2>3, LocalStep, Files0
<1>9. QED
  BY <1>7, <1>8

LEMMA HeadUpstreamKeepsInv == ASSUME Inv, NEW p \in Proc, HeadUpstream(p) PROVE Inv'
<1> DEFINE w == proc[p]
           v == [w EXCEPT !.up = Current(w.ref), !.asOf = Now(w)]
<1>1. w \in Frame /\ Staged(w) /\ w.pc = "ask" /\ (w.stage = "fallback" \/ w.ref = Tag)
  BY FrameOf DEF Inv, HeadUpstream, At, Staged
<1>2. UNCHANGED <<head, clock, meta, body, evicting, keyLock>> /\ ~At(p, "idle")
  BY DEF HeadUpstream, world, store, At
<1>3. Current(w.ref) \in Digest /\ Now(w) \in 0..MaxClock
  BY <1>1, Files0, Zero DEF Current, Now, Frame, Key
<1>4. v \in Frame /\ v.ref = w.ref /\ v.up \in Digest /\ v.stage = w.stage
  BY <1>1, <1>3 DEF Frame
<1>5. CASE Locals(p, IF w.stage = "fallback" THEN ReplyHead(v) ELSE Look(v, "matching"))
  <2> HIDE DEF v
  <2>1. CASE w.stage = "fallback"
    <3>1. /\ ReplyHead(v) \in Frame /\ Staged(ReplyHead(v))
          /\ ReplyHead(v).ref = w.ref /\ ReplyHead(v).pc # "idle"
      BY <1>4, ReplyHeadFrame
    <3>2. QED
      BY <1>2, <1>5, <2>1, <3>1, LocalStep, Files0
  <2>2. CASE w.stage # "fallback"
    <3>1. "matching" \in Stage
      BY DEF Stage
    <3>2. /\ Look(v, "matching") \in Frame /\ Look(v, "matching").pc = "meta"
          /\ Look(v, "matching").stage = "matching"
          /\ Look(v, "matching").ref = w.ref /\ Look(v, "matching").up \in Digest
      BY <1>4, <3>1, LookFrame
    <3>3. Staged(Look(v, "matching")) /\ Look(v, "matching").pc # "idle"
      BY <1>1, <2>2, <3>2 DEF Staged
    <3>4. QED
      BY <1>2, <1>5, <2>2, <3>2, <3>3, LocalStep, Files0
  <2>3. QED
    BY <2>1, <2>2
<1>6. CASE Locals(p, IF w.stage = "fallback" THEN Reply(w, "failed", Unread)
                     ELSE Look(w, IF w.op = "get" THEN "stale" ELSE "fallback"))
  <2> HIDE DEF v
  <2>1. CASE w.stage = "fallback"
    <3>1. Unread \in HeldType /\ "failed" \in {"fresh", "upstream", "stale", "digest", "failed"}
      BY Zero DEF Unread, HeldType
    <3>2. /\ Reply(w, "failed", Unread) \in Frame /\ Staged(Reply(w, "failed", Unread))
          /\ Reply(w, "failed", Unread).ref = w.ref /\ Reply(w, "failed", Unread).pc # "idle"
      BY <1>1, <3>1, ReplyFrame
    <3>3. QED
      BY <1>2, <1>6, <2>1, <3>2, LocalStep, Files0
  <2>2. CASE w.stage # "fallback"
    <3> DEFINE s == IF w.op = "get" THEN "stale" ELSE "fallback"
               u == Look(w, s)
    <3>1. s \in {"stale", "fallback"} /\ s \in Stage
      BY DEF Stage
    <3> HIDE DEF s
    <3>2. u \in Frame /\ u.pc = "meta" /\ u.stage = s /\ u.ref = w.ref
      BY <1>1, <3>1, LookFrame
    <3> HIDE DEF u
    <3>3. Staged(u) /\ u.pc # "idle"
      BY <1>1, <2>2, <3>1, <3>2 DEF Staged
    <3>4. Locals(p, u)
      BY <1>6, <2>2 DEF u, s
    <3>5. QED
      BY <1>2, <3>2, <3>3, <3>4, LocalStep, Files0
  <2>3. QED
    BY <2>1, <2>2
<1>7. QED
  BY <1>5, <1>6 DEF HeadUpstream

LEMMA GetUpstreamKeepsInv == ASSUME Inv, NEW p \in Proc, GetUpstream(p) PROVE Inv'
<1> DEFINE w == proc[p]
           v == [w EXCEPT !.pc = "stamp", !.up = Current(w.ref), !.asOf = Now(w)]
<1>1. w \in Frame /\ Staged(w) /\ w.pc = "fetch"
  BY FrameOf DEF Inv, GetUpstream, At
<1>2. UNCHANGED <<head, clock, meta, body, evicting, keyLock>> /\ ~At(p, "idle")
  BY DEF GetUpstream, world, store, At
<1>3. Current(w.ref) \in Digest /\ Now(w) \in 0..MaxClock
  BY <1>1, Files0, Zero DEF Current, Now, Frame, Key
<1>4. v \in Frame /\ v.ref = w.ref /\ v.pc = "stamp" /\ v.up \in Digest
  BY <1>1, <1>3 DEF Frame, PC
<1>5. Staged(v) /\ v.pc # "idle"
  BY <1>4 DEF Staged
<1>6. Unread \in HeldType /\ "failed" \in {"fresh", "upstream", "stale", "digest", "failed"}
  BY Zero DEF Unread, HeldType
<1>7. /\ Reply(w, "failed", Unread) \in Frame /\ Staged(Reply(w, "failed", Unread))
      /\ Reply(w, "failed", Unread).ref = w.ref /\ Reply(w, "failed", Unread).pc # "idle"
  BY <1>1, <1>6, ReplyFrame
<1>8. Locals(p, v) \/ Locals(p, Reply(w, "failed", Unread))
  BY DEF GetUpstream
<1> HIDE DEF v
<1>9. QED
  BY <1>1, <1>2, <1>4, <1>5, <1>7, <1>8, LocalStep, Files0

LEMMA StampKeepsInv == ASSUME Inv, NEW p \in Proc, Stamp(p) PROVE Inv'
<1> DEFINE w == proc[p]
           m == [digest |-> w.up, at |-> Now(w), body |-> w.up]
<1>1. w \in Frame /\ Staged(w) /\ w.pc = "stamp" /\ w.up \in Digest
  BY FrameOf DEF Inv, Stamp, At, Staged
<1>2. UNCHANGED <<head, clock, meta, body, evicting, keyLock>> /\ ~At(p, "idle")
  BY DEF Stamp, world, store, At
<1>3. Now(w) \in 0..MaxClock
  BY Files0, Zero DEF Now
<1>4. m \in HeldType /\ m.digest \in Digest /\ m.body \in Digest
  BY <1>1, <1>3 DEF HeldType
<1>5. Locals(p, Put(w, m))
  BY DEF Stamp
<1> HIDE DEF m
<1>6. Put(w, m) \in Frame /\ Staged(Put(w, m)) /\ Put(w, m).ref = w.ref /\ Put(w, m).pc # "idle"
  BY <1>1, <1>4, PutFrame
<1>7. QED
  BY <1>2, <1>5, <1>6, LocalStep, Files0

(* What a goroutine becomes when it has done its last write, or failed. *)
LEMMA WrittenFrame ==
  ASSUME NEW w \in Frame, Staged(w), w.pc = "put"
  PROVE  LET done == Reply(w, "upstream", w.held)
             end == [done EXCEPT !.left = <<>>]
             next == [(IF Tail(w.left) = <<>> THEN done ELSE w) EXCEPT !.left = Tail(w.left)]
         IN /\ end \in Frame /\ Staged(end) /\ end.ref = w.ref /\ end.pc # "idle"
            /\ next \in Frame /\ Staged(next) /\ next.ref = w.ref /\ next.pc # "idle"
            /\ Head(w.left) \in File /\ w.left \in Seq(File) /\ w.left # <<>>
<1> DEFINE done == Reply(w, "upstream", w.held)
           rest == Tail(w.left)
<1>1. w.left \in Seq(File) /\ w.left # <<>> /\ w.held \in HeldType
  BY DEF Frame, Staged
<1>2. Head(w.left) \in File /\ rest \in Seq(File) /\ <<>> \in Seq(File)
  BY <1>1
<1>3. done \in Frame /\ Staged(done) /\ done.ref = w.ref /\ done.pc = "done"
  <2>1. "upstream" \in {"fresh", "upstream", "stale", "digest", "failed"}
    OBVIOUS
  <2>2. QED
    BY <1>1, <2>1, ReplyFrame
<1> HIDE DEF done, rest
<1>4. ASSUME NEW l \in Seq(File)
      PROVE  LET u == [done EXCEPT !.left = l] IN
             u \in Frame /\ Staged(u) /\ u.ref = w.ref /\ u.pc # "idle"
  BY <1>3 DEF Frame, Staged
<1>5. ASSUME rest # <<>>
      PROVE  LET u == [w EXCEPT !.left = rest] IN
             u \in Frame /\ Staged(u) /\ u.ref = w.ref /\ u.pc # "idle"
  BY <1>2, <1>5 DEF Frame, Staged
<1>6. CASE rest = <<>>
  BY <1>1, <1>2, <1>4, <1>6 DEF done, rest
<1>7. CASE rest # <<>>
  BY <1>1, <1>2, <1>4, <1>5, <1>7 DEF done, rest
<1>8. QED
  BY <1>6, <1>7

LEMMA WriteKeepsInv == ASSUME Inv, NEW p \in Proc, Write(p) PROVE Inv'
<1> DEFINE w == proc[p]
           f == Head(w.left)
           done == Reply(w, "upstream", w.held)
           end == [done EXCEPT !.left = <<>>]
           next == [(IF Tail(w.left) = <<>> THEN done ELSE w) EXCEPT !.left = Tail(w.left)]
<1>1. w \in Frame /\ Staged(w) /\ w.pc = "put"
  BY FrameOf DEF Inv, Write, At
<1>2. UNCHANGED <<head, clock, evicting, keyLock>> /\ ~At(p, "idle")
  BY DEF Write, world, At
<1>3. /\ end \in Frame /\ Staged(end) /\ end.ref = w.ref /\ end.pc # "idle"
      /\ next \in Frame /\ Staged(next) /\ next.ref = w.ref /\ next.pc # "idle"
      /\ f \in File
  BY <1>1, WrittenFrame
<1>4. /\ w.held.digest \in Digest /\ w.held.body \in Digest /\ w.held.at \in 0..MaxClock
      /\ f.key \in Key
  BY <1>1, <1>3 DEF Frame, Staged, HeldType, File
<1>5. Locals(p, next) \/ Locals(p, end)
  BY DEF Write
<1>6. /\ meta' = meta \/ meta' = Stored(meta, f.key, [digest |-> w.held.digest,
                                          at |-> IF f.key = Tag THEN w.held.at ELSE 0])
      /\ body' = body \/ body' = Stored(body, f.key, w.held.body)
  BY DEF Write
<1> HIDE DEF next, end, f, done
<1>7. /\ DOMAIN meta' \subseteq Key /\ \A k \in DOMAIN meta' : meta'[k] \in Meta
      /\ DOMAIN body' \subseteq Key /\ \A k \in DOMAIN body' : body'[k] \in Digest
  BY <1>4, <1>6, Files0, Zero DEF Stored, Meta
<1>8. QED
  BY <1>2, <1>3, <1>5, <1>7, LocalStep

(* The others do not touch what requests hold. *)
LEMMA OthersKeepInv ==
  ASSUME Inv, Retag \/ Tick \/ \E e \in Evictors : Pop(e) \/ Unlink(e) PROVE Inv'
<1>1. UNCHANGED <<keyLock, proc>>
  BY DEF Retag, Tick, Pop, Unlink
<1>2. /\ DOMAIN meta' \subseteq DOMAIN meta /\ \A k \in DOMAIN meta' : meta'[k] = meta[k]
      /\ DOMAIN body' \subseteq DOMAIN body /\ \A k \in DOMAIN body' : body'[k] = body[k]
  BY DEF Retag, Tick, Pop, Unlink, store, Less
<1>3. head' \in Digest /\ clock' \in 0..MaxClock
  BY Files0, ManifestAssumption DEF Retag, Tick, Pop, Unlink, world
<1>4. evicting' \in [Evictors -> [pc : {"idle", "meta", "body"}, key : Key]]
  <2>1. evicting \in [Evictors -> [pc : {"idle", "meta", "body"}, key : Key]]
    BY DEF Inv, TypeOK
  <2>2. CASE Retag \/ Tick
    BY <2>1, <2>2 DEF Retag, Tick, store
  <2>3. ASSUME NEW e \in Evictors, Pop(e) PROVE evicting' \in [Evictors -> [pc : {"idle", "meta", "body"}, key : Key]]
    BY <2>1, <2>3, Files0 DEF Pop
  <2>4. ASSUME NEW e \in Evictors, Unlink(e) PROVE evicting' \in [Evictors -> [pc : {"idle", "meta", "body"}, key : Key]]
    <3>1. CASE evicting' = [evicting EXCEPT ![e].pc = "body"]
      BY <2>1, <3>1
    <3>2. CASE evicting' = [evicting EXCEPT ![e] = [pc |-> "idle", key |-> Tag]]
      BY <2>1, <3>2 DEF Key
    <3>3. QED
      BY <2>4, <3>1, <3>2 DEF Unlink
  <2>5. QED
    BY <2>2, <2>3, <2>4
<1>5. TypeOK'
  BY <1>1, <1>2, <1>3, <1>4 DEF Inv, TypeOK
<1>6. QED
  BY <1>1, <1>5 DEF Inv, Locked, At

LEMMA NextKeepsInv == Inv /\ [Next]_vars => Inv'
<1> SUFFICES ASSUME Inv, [Next]_vars PROVE Inv'
  OBVIOUS
<1>1. ASSUME NEW p \in Proc, Step(p) PROVE Inv'
  BY <1>1, ArriveKeepsInv, ReadMetaKeepsInv, ReadBodyKeepsInv, HeadUpstreamKeepsInv,
     GetUpstreamKeepsInv, StampKeepsInv, WriteKeepsInv, DoneKeepsInv DEF Step
<1>2. CASE UNCHANGED vars
  BY <1>2 DEF vars, Inv, TypeOK, Locked, At
<1>3. QED
  BY <1>1, <1>2, OthersKeepInv DEF Next

LEMMA SpecKeepsInv == Spec => []Inv
  BY InitInv, NextKeepsInv, PTL DEF Spec

(* The cache holds metadata under references and bodies of digests, and a  *)
(* request is always at a read that its reference allows.                  *)
THEOREM ManifestTypes == Spec => []TypeOK
<1>1. Inv => TypeOK
  BY DEF Inv
<1>2. QED
  BY <1>1, SpecKeepsInv, PTL

(* The lock of a reference excludes a second fetch of it, whatever fails.  *)
THEOREM OneFetchAtATime == Spec => []OneFetch
<1>1. Inv => OneFetch
  BY DEF Inv, Locked, OneFetch, Storing, At
<1>2. QED
  BY <1>1, SpecKeepsInv, PTL

-----------------------------------------------------------------------------
(* If every write succeeds.  The writes of a tag that are left: its two    *)
(* files, then those of the digest.                                        *)
DigestWrites(d) ==
  {<<[key |-> d, part |-> "meta"], [key |-> d, part |-> "body"]>>,
   <<[key |-> d, part |-> "body"]>>}

TagWrites(d) ==
  {<<[key |-> Tag, part |-> "meta"], [key |-> Tag, part |-> "body"],
     [key |-> d, part |-> "meta"], [key |-> d, part |-> "body"]>>,
   <<[key |-> Tag, part |-> "body"],
     [key |-> d, part |-> "meta"], [key |-> d, part |-> "body"]>>}

(* Between the two files of the tag. *)
Midway(w) == w.pc = "put" /\ Head(w.left) = [key |-> Tag, part |-> "body"]

(* What a request holds belongs together, and to what it asked for; what   *)
(* it has read of the tag's metadata is of the body that is there.         *)
Carries(w) ==
  /\ w.pc = "body" =>
       IF w.ref = Tag THEN Tag \in DOMAIN body => body[Tag] = w.held.digest
                      ELSE w.held.digest = w.ref
  /\ w.pc = "stamp" /\ w.ref # Tag => w.up = w.ref
  /\ w.pc = "put" =>
       /\ w.held.body = w.held.digest
       /\ w.ref # Tag => w.held.digest = w.ref
       /\ \/ w.left \in DigestWrites(w.held.digest)
          \/ w.ref = Tag /\ w.left \in TagWrites(w.held.digest)
  /\ Midway(w) /\ Tag \in DOMAIN meta => meta[Tag].digest = w.held.digest
  /\ w.pc = "done" => w.held.body = w.held.digest

DigestsWhole ==
  \A d \in Digest : /\ d \in DOMAIN meta => meta[d].digest = d
                    /\ d \in DOMAIN body => body[d] = d

TagWhole ==
  Tag \in DOMAIN meta /\ Tag \in DOMAIN body =>
    meta[Tag].digest = body[Tag] \/ \E p \in Proc : Midway(proc[p])

Whole == DigestsWhole /\ TagWhole /\ \A p \in Proc : Carries(proc[p])

(* A step that stores nothing, of a goroutine that is not midway. *)
LEMMA QuietStep ==
  ASSUME Inv, Whole, NEW p \in Proc, NEW w, Locals(p, w), Carries(w),
         ~Midway(proc[p]), UNCHANGED <<meta, body>>
  PROVE  Whole'
<1>1. proc \in [Proc -> Frame] /\ proc' = [proc EXCEPT ![p] = w]
  BY DEF Inv, TypeOK, Frame, HeldType, File, Part, Locals
<1>2. \A q \in Proc : q # p => proc'[q] = proc[q]
  BY <1>1
<1>3. proc'[p] = w
  BY <1>1
<1>4. DigestsWhole'
  BY DEF Whole, DigestsWhole
<1>6. TagWhole'
  BY <1>2 DEF Whole, TagWhole, Midway
<1>7. \A q \in Proc : Carries(proc[q])'
  <2> SUFFICES ASSUME NEW q \in Proc PROVE Carries(proc[q])'
    OBVIOUS
  <2>1. Carries(w)'
    BY DEF Carries, Midway
  <2>2. CASE q = p
    BY <1>3, <2>1, <2>2 DEF Carries, Midway
  <2>3. CASE q # p
    BY <1>2, <2>3 DEF Whole, Carries, Midway
  <2>4. QED
    BY <2>2, <2>3
<1>8. QED
  BY <1>4, <1>6, <1>7 DEF Whole

LEMMA ReadingStep ==
  ASSUME Inv, Whole, NEW p \in Proc, NEW w, Locals(p, w), Carries(w),
         ~At(p, "put"), UNCHANGED <<meta, body>>
  PROVE  Whole'
<1>1. ~Midway(proc[p])
  BY DEF Midway, At
<1>2. QED
  BY <1>1, QuietStep

(* The results of the operators on locals. *)
LEMMA CarriesNothing ==
  ASSUME NEW w, w.pc \in {"meta", "ask", "fetch"} PROVE Carries(w)
  BY DEF Carries, Midway

LEMMA ReplyCarries ==
  ASSUME NEW w \in Frame, NEW m \in HeldType, m.body = m.digest,
         NEW a \in {"fresh", "upstream", "stale", "digest", "failed"}
  PROVE  Carries(Reply(w, a, m))
<1>1. Reply(w, a, m).held = [m EXCEPT !.at = 0] /\ Reply(w, a, m).pc = "done"
  BY DEF Reply, Frame
<1>2. [m EXCEPT !.at = 0].body = [m EXCEPT !.at = 0].digest
  BY DEF HeldType
<1>3. QED
  BY <1>1, <1>2 DEF Carries, Midway

LEMMA ReplyHeadCarries == ASSUME NEW w \in Frame PROVE Carries(ReplyHead(w))
<1> DEFINE m == [digest |-> w.up, at |-> 0, body |-> w.up]
<1>1. m \in HeldType /\ m.body = m.digest
  BY Zero DEF Frame, HeldType
<1>2. "upstream" \in {"fresh", "upstream", "stale", "digest", "failed"}
  OBVIOUS
<1>3. ReplyHead(w) = Reply(w, "upstream", m)
  BY DEF ReplyHead
<1> HIDE DEF m
<1>4. QED
  BY <1>1, <1>2, <1>3, ReplyCarries

LEMMA HeadOfFour ==
  ASSUME NEW a, NEW b, NEW c, NEW d
  PROVE  Head(<<a, b, c, d>>) = a /\ Tail(<<a, b, c, d>>) = <<b, c, d>>
  OBVIOUS

LEMMA HeadOfThree ==
  ASSUME NEW a, NEW b, NEW c
  PROVE  /\ Head(<<a, b, c>>) = a /\ Tail(<<a, b, c>>) = <<b, c>>
         /\ Head(<<a, b>>) = a /\ Tail(<<a, b>>) = <<b>>
         /\ Head(<<a>>) = a /\ Tail(<<a>>) = <<>>
         /\ <<a>> # <<>> /\ <<a, b>> # <<>> /\ <<a, b, c>> # <<>>
  OBVIOUS

LEMMA TwoAndTwo ==
  ASSUME NEW a, NEW b, NEW c, NEW d
  PROVE  <<a, b>> \o <<c, d>> = <<a, b, c, d>>
<1> DEFINE s == <<a, b>> \o <<c, d>>
           t == <<a, b, c, d>>
           S == {a, b, c, d}
<1>1. s \in Seq(S) /\ t \in Seq(S) /\ Len(s) = 4 /\ Len(t) = 4
  OBVIOUS
<1>2. s[1] = a /\ s[2] = b /\ s[3] = c /\ s[4] = d
  OBVIOUS
<1>3. t[1] = a /\ t[2] = b /\ t[3] = c /\ t[4] = d
  OBVIOUS
<1>4. \A i \in 1..4 : s[i] = t[i]
  BY <1>2, <1>3
<1> HIDE DEF s, t, S
<1>5. s = t
  <2>1. \A i \in 1..Len(s) : s[i] = t[i]
    BY <1>1, <1>4
  <2>2. QED
    BY <1>1, <2>1, SeqEqual
<1>6. QED
  BY <1>5 DEF s, t

LEMMA PutCarries ==
  ASSUME NEW w \in Frame, NEW m \in HeldType, m.body = m.digest,
         m.digest \in Digest, w.ref # Tag => m.digest = w.ref
  PROVE  Carries(Put(w, m))
<1> DEFINE l == IF w.ref = Tag THEN Files(Tag) \o Files(m.digest) ELSE Files(w.ref)
           u == Put(w, m)
<1>1. u.held = m /\ u.left = l /\ u.pc = "put" /\ u.ref = w.ref
  BY DEF Put, Frame
<1>2. CASE w.ref = Tag
  <2>1. l = <<[key |-> Tag, part |-> "meta"], [key |-> Tag, part |-> "body"],
              [key |-> m.digest, part |-> "meta"], [key |-> m.digest, part |-> "body"]>>
    BY <1>2, TwoAndTwo DEF Files
  <2> HIDE DEF l, u
  <2>2. Head(l) = [key |-> Tag, part |-> "meta"]
    BY <2>1, HeadOfFour
  <2>3. l \in TagWrites(m.digest)
    BY <2>1 DEF TagWrites
  <2>4. QED
    BY <1>1, <1>2, <2>2, <2>3 DEF Carries, Midway, u
<1>3. CASE w.ref # Tag
  <2>1. l = <<[key |-> m.digest, part |-> "meta"], [key |-> m.digest, part |-> "body"]>>
    BY <1>3 DEF Files
  <2> HIDE DEF l, u
  <2>2. Head(l) = [key |-> m.digest, part |-> "meta"]
    BY <2>1
  <2>3. l \in DigestWrites(m.digest)
    BY <2>1 DEF DigestWrites
  <2>4. QED
    BY <1>1, <1>3, <2>2, <2>3 DEF Carries, Midway, u
<1>4. QED
  BY <1>2, <1>3

LEMMA MissedCarries ==
  ASSUME NEW w \in Frame, w.stage # "none" PROVE Carries(Missed(w))
<1>1. /\ Look(w, "fallback").pc = "meta" /\ Ask(w).pc = "ask" /\ Fetch(w).pc = "fetch"
  BY DEF Look, Ask, Fetch, Frame
<1>2. Missed(w) \in {Look(w, "fallback"), Ask(w), Fetch(w), ReplyHead(w)}
  BY DEF Missed, Frame, Stage
<1>3. QED
  BY <1>1, <1>2, CarriesNothing, ReplyHeadCarries

LEMMA FoundCarries ==
  ASSUME TypeOK, NEW w \in Frame, Staged([w EXCEPT !.pc = "meta"]),
         NEW m \in HeldType, m.body = m.digest, m.digest \in Digest
  PROVE  Carries(Found(w, m))
<1>1. /\ w.stage \in Stage \ {"none"} /\ (w.stage = "refresh" => w.ref = Tag)
  BY DEF Staged, Frame, Stage
<1> DEFINE v == [w EXCEPT !.asOf = clock]
           n == [m EXCEPT !.at = clock]
<1>2. v \in Frame /\ n \in HeldType /\ n.body = n.digest /\ n.digest \in Digest
  BY DEF Frame, HeldType, TypeOK
<1> DEFINE Reads == {Look(v, "current"), Ask(w), Look(w, "refresh"), Fetch(w)}
           Replies == {Reply(v, "fresh", m), Reply(w, "fresh", m), ReplyHead(w),
                       Reply(w, "digest", m), Reply(w, "stale", m)}
<1>3. Found(w, m) \in Reads \cup Replies \/ (w.stage = "refresh" /\ Found(w, m) = Put(w, n))
  <2>1. CASE w.stage = "trusted" /\ Fresh(m)
    BY <2>1 DEF Found
  <2>2. CASE w.stage = "trusted" /\ ~Fresh(m)
    BY <2>2 DEF Found
  <2>3. CASE w.stage \in {"current", "digest", "known", "stale", "fallback"}
    BY <2>3 DEF Found
  <2>4. CASE w.stage = "matching" /\ m.digest = w.up
    BY <2>4 DEF Found
  <2>5. CASE w.stage = "matching" /\ m.digest # w.up
    BY <2>5 DEF Found
  <2>6. CASE w.stage = "refresh"
    BY <2>6 DEF Found
  <2>7. QED
    BY <1>1, <2>1, <2>2, <2>3, <2>4, <2>5, <2>6 DEF Stage
<1> HIDE DEF v, n
<1>4. /\ Look(v, "current").pc = "meta" /\ Ask(w).pc = "ask"
      /\ Look(w, "refresh").pc = "meta" /\ Fetch(w).pc = "fetch"
  BY <1>2 DEF Look, Ask, Fetch, Frame
<1>5. w.ref = Tag => Carries(Put(w, n))
  BY <1>2, PutCarries
<1>6. QED
  BY <1>1, <1>2, <1>3, <1>4, <1>5, CarriesNothing, ReplyHeadCarries, ReplyCarries

-----------------------------------------------------------------------------
(* Two requests for the tag are not under way together. *)
LEMMA AloneWithTag ==
  ASSUME Inv, NEW p \in Proc, ~At(p, "idle"), NEW q \in Proc \ {p}, ~At(q, "idle")
  PROVE  proc[p].ref # proc[q].ref
  BY DEF Inv, Locked

(* Only a request for the tag writes the tag. *)
LEMMA MidwayIsTag ==
  ASSUME Inv, Whole, NEW q \in Proc, Midway(proc[q])
  PROVE  proc[q].ref = Tag /\ ~At(q, "idle")
<1> DEFINE w == proc[q]
<1>1. w.pc = "put" /\ w \in Frame /\ w.held.digest \in Digest
  BY FrameOf DEF Midway, Inv, Staged
<1>2. w.left \notin DigestWrites(w.held.digest)
  <2>1. Head(w.left) = [key |-> Tag, part |-> "body"]
    BY DEF Midway
  <2>2. w.held.digest # Tag
    BY <1>1, ManifestAssumption
  <2>3. \A l \in DigestWrites(w.held.digest) : Head(l).key = w.held.digest
    BY DEF DigestWrites
  <2>4. QED
    BY <2>1, <2>2, <2>3
<1>3. QED
  BY <1>1, <1>2 DEF Whole, Carries, At

LEMMA InitWhole == Init => Whole
  BY DEF Init, Whole, DigestsWhole, TagWhole, Carries, Midway, Idle

LEMMA ArriveKeepsWhole == ASSUME Inv, Whole, NEW p \in Proc, Arrive(p) PROVE Whole'
<1>1. PICK op \in {"get", "head"}, k \in Key : Begin(p, op, k)
  BY DEF Arrive
<1> DEFINE v == [Idle EXCEPT !.op = op, !.ref = k]
           w == Look(v, First(v))
<1>2. Locals(p, w)
  BY <1>1 DEF Begin
<1>3. w.pc = "meta"
  BY DEF Look, Idle
<1>4. UNCHANGED <<meta, body>> /\ ~At(p, "put")
  BY DEF Arrive, store, At
<1> HIDE DEF w
<1>5. QED
  BY <1>2, <1>3, <1>4, CarriesNothing, ReadingStep

LEMMA DoneKeepsWhole == ASSUME Inv, Whole, NEW p \in Proc, Done(p) PROVE Whole'
<1>1. Locals(p, Idle) /\ UNCHANGED <<meta, body>> /\ ~At(p, "put")
  BY DEF Done, store, At
<1>2. Carries(Idle)
  BY DEF Carries, Idle, Midway
<1>3. QED
  BY <1>1, <1>2, ReadingStep

LEMMA ReadMetaKeepsWhole == ASSUME Inv, Whole, NEW p \in Proc, ReadMeta(p) PROVE Whole'
<1> DEFINE w == proc[p]
           h == [digest |-> meta[w.ref].digest, at |-> meta[w.ref].at, body |-> Nobody]
           v == [w EXCEPT !.pc = "body", !.held = h]
<1>1. w \in Frame /\ Staged(w) /\ w.pc = "meta"
  BY FrameOf DEF Inv, ReadMeta, At
<1>2. UNCHANGED <<meta, body>> /\ ~At(p, "put") /\ ~At(p, "idle")
  BY DEF ReadMeta, store, At
<1>3. Locals(p, IF w.ref \in DOMAIN meta THEN v ELSE Missed(w))
  BY DEF ReadMeta
<1>4. Carries(Missed(w))
  <2>1. w.stage # "none"
    BY <1>1 DEF Staged
  <2>2. QED
    BY <1>1, <2>1, MissedCarries
<1>5. CASE w.ref \in DOMAIN meta
  <2>1. v.pc = "body" /\ v.ref = w.ref /\ v.held.digest = meta[w.ref].digest
    BY <1>1 DEF Frame
  <2> HIDE DEF v
  <2>2. CASE w.ref = Tag
    <3>1. \A q \in Proc : ~Midway(proc[q])
      <4> SUFFICES ASSUME NEW q \in Proc, Midway(proc[q]) PROVE FALSE
        OBVIOUS
      <4>1. proc[q].ref = Tag /\ ~At(q, "idle")
        BY MidwayIsTag
      <4>2. q # p
        BY <1>1 DEF Midway
      <4>3. QED
        BY <1>2, <2>2, <4>1, <4>2, AloneWithTag
    <3>2. Tag \in DOMAIN body => body[Tag] = meta[Tag].digest
      BY <1>5, <2>2, <3>1 DEF Whole, TagWhole
    <3>3. Carries(v)
      BY <2>1, <2>2, <3>2 DEF Carries, Midway
    <3>4. QED
      BY <1>2, <1>3, <1>5, <3>3, ReadingStep
  <2>3. CASE w.ref # Tag
    <3>1. w.ref \in Digest
      BY <1>1, <2>3 DEF Frame, Key
    <3>2. meta[w.ref].digest = w.ref
      BY <1>5, <3>1 DEF Whole, DigestsWhole
    <3>3. Carries(v)
      BY <2>1, <2>3, <3>2 DEF Carries, Midway
    <3>4. QED
      BY <1>2, <1>3, <1>5, <3>3, ReadingStep
  <2>4. QED
    BY <2>2, <2>3
<1>6. CASE w.ref \notin DOMAIN meta
  BY <1>2, <1>3, <1>4, <1>6, ReadingStep
<1>7. QED
  BY <1>5, <1>6

LEMMA ReadBodyKeepsWhole == ASSUME Inv, Whole, NEW p \in Proc, ReadBody(p) PROVE Whole'
<1> DEFINE w == proc[p]
           v == [w EXCEPT !.held = Unread]
           m == [w.held EXCEPT !.body = body[w.ref]]
<1>1. w \in Frame /\ Staged(w) /\ w.pc = "body" /\ Carries(w)
  BY FrameOf DEF Inv, Whole, ReadBody, At
<1>2. UNCHANGED <<meta, body>> /\ ~At(p, "put") /\ TypeOK
  BY DEF ReadBody, store, At, Inv
<1>3. Unread \in HeldType
  BY Zero DEF Unread, HeldType
<1>4. v \in Frame /\ v.ref = w.ref /\ v.pc = "body" /\ v.stage = w.stage /\ v.up = w.up
  BY <1>1, <1>3 DEF Frame
<1>5. Locals(p, IF w.ref \in DOMAIN body THEN Found(v, m) ELSE Missed(v))
  BY DEF ReadBody
<1>6. CASE w.ref \in DOMAIN body
  <2>1. m \in HeldType /\ m.digest = w.held.digest /\ m.digest \in Digest /\ m.body = body[w.ref]
    BY <1>1, <1>6, Files0 DEF Frame, HeldType, Staged
  <2>2. m.body = m.digest
    <3>1. CASE w.ref = Tag
      BY <1>1, <1>6, <2>1, <3>1 DEF Carries
    <3>2. CASE w.ref # Tag
      <4>1. w.ref \in Digest
        BY <1>1, <3>2 DEF Frame, Key
      <4>2. QED
        BY <1>1, <1>6, <2>1, <3>2, <4>1 DEF Carries, Whole, DigestsWhole
    <3>3. QED
      BY <3>1, <3>2
  <2>3. Staged([v EXCEPT !.pc = "meta"])
    BY <1>1, <1>4 DEF Staged, Frame
  <2> HIDE DEF v, m
  <2>4. Carries(Found(v, m))
    BY <1>2, <1>4, <2>1, <2>2, <2>3, FoundCarries
  <2>5. QED
    BY <1>2, <1>5, <1>6, <2>4, ReadingStep
<1>7. CASE w.ref \notin DOMAIN body
  <2>1. v.stage # "none"
    BY <1>1, <1>4 DEF Staged
  <2> HIDE DEF v, m
  <2>2. Carries(Missed(v))
    BY <1>4, <2>1, MissedCarries
  <2>3. QED
    BY <1>2, <1>5, <1>7, <2>2, ReadingStep
<1>8. QED
  BY <1>6, <1>7

LEMMA HeadUpstreamKeepsWhole == ASSUME Inv, Whole, NEW p \in Proc, HeadUpstream(p) PROVE Whole'
<1> DEFINE w == proc[p]
           v == [w EXCEPT !.up = Current(w.ref), !.asOf = Now(w)]
           s == IF w.op = "get" THEN "stale" ELSE "fallback"
<1>1. w \in Frame /\ UNCHANGED <<meta, body>> /\ ~At(p, "put")
  BY FrameOf DEF Inv, HeadUpstream, At, store
<1>2. Current(w.ref) \in Digest /\ Now(w) \in 0..MaxClock
  BY <1>1, Files0, Zero DEF Current, Now, Frame, Key
<1>3. v \in Frame
  BY <1>1, <1>2 DEF Frame
<1>4. \/ Locals(p, ReplyHead(v)) \/ Locals(p, Look(v, "matching"))
      \/ Locals(p, Reply(w, "failed", Unread)) \/ Locals(p, Look(w, s))
  BY DEF HeadUpstream
<1>5. Unread \in HeldType /\ Unread.body = Unread.digest
      /\ "failed" \in {"fresh", "upstream", "stale", "digest", "failed"}
  BY Zero DEF Unread, HeldType
<1> HIDE DEF v, s
<1>6. Look(v, "matching").pc = "meta" /\ Look(w, s).pc = "meta"
  BY <1>1, <1>3 DEF Look, Frame
<1>7. Carries(ReplyHead(v)) /\ Carries(Look(v, "matching")) /\ Carries(Look(w, s))
  BY <1>3, <1>6, ReplyHeadCarries, CarriesNothing
<1>8. Carries(Reply(w, "failed", Unread))
  BY <1>1, <1>5, ReplyCarries
<1>9. QED
  BY <1>1, <1>4, <1>7, <1>8, ReadingStep

LEMMA GetUpstreamKeepsWhole == ASSUME Inv, Whole, NEW p \in Proc, GetUpstream(p) PROVE Whole'
<1> DEFINE w == proc[p]
           v == [w EXCEPT !.pc = "stamp", !.up = Current(w.ref), !.asOf = Now(w)]
<1>1. w \in Frame /\ UNCHANGED <<meta, body>> /\ ~At(p, "put")
  BY FrameOf DEF Inv, GetUpstream, At, store
<1>2. v.pc = "stamp" /\ v.ref = w.ref /\ (w.ref # Tag => v.up = w.ref)
  BY <1>1 DEF Frame, Current
<1>3. Locals(p, v) \/ Locals(p, Reply(w, "failed", Unread))
  BY DEF GetUpstream
<1> HIDE DEF v
<1>4. Carries(v)
  BY <1>2 DEF Carries, Midway
<1>5. Unread \in HeldType /\ Unread.body = Unread.digest
      /\ "failed" \in {"fresh", "upstream", "stale", "digest", "failed"}
  BY Zero DEF Unread, HeldType
<1>6. Carries(Reply(w, "failed", Unread))
  BY <1>1, <1>5, ReplyCarries
<1>7. QED
  BY <1>1, <1>3, <1>4, <1>6, ReadingStep

LEMMA StampKeepsWhole == ASSUME Inv, Whole, NEW p \in Proc, Stamp(p) PROVE Whole'
<1> DEFINE w == proc[p]
           m == [digest |-> w.up, at |-> Now(w), body |-> w.up]
<1>1. w \in Frame /\ Staged(w) /\ Carries(w) /\ w.pc = "stamp"
  BY FrameOf DEF Inv, Whole, Stamp, At
<1>2. w.up \in Digest /\ (w.ref # Tag => w.up = w.ref)
  BY <1>1 DEF Staged, Carries
<1>3. Locals(p, Put(w, m)) /\ UNCHANGED <<meta, body>> /\ ~At(p, "put")
  BY DEF Stamp, store, At
<1>4. m \in HeldType /\ m.body = m.digest /\ m.digest \in Digest /\ (w.ref # Tag => m.digest = w.ref)
  BY <1>2, Files0, Zero DEF Now, HeldType
<1> HIDE DEF m
<1>5. Carries(Put(w, m))
  BY <1>1, <1>4, PutCarries
<1>6. QED
  BY <1>3, <1>5, ReadingStep

(* What is left after a write that was done. *)
LEMMA LeftAfterWrite ==
  ASSUME NEW w, Carries(w), w.pc = "put", w.held.digest \in Digest
  PROVE  LET d == w.held.digest
             f == Head(w.left)
             rest == Tail(w.left)
         IN \/ /\ w.ref = Tag /\ f = [key |-> Tag, part |-> "meta"]
               /\ rest \in TagWrites(d) /\ Head(rest) = [key |-> Tag, part |-> "body"]
               /\ rest # <<>>
            \/ /\ w.ref = Tag /\ f = [key |-> Tag, part |-> "body"]
               /\ rest \in DigestWrites(d) /\ Head(rest) = [key |-> d, part |-> "meta"]
               /\ rest # <<>>
            \/ /\ f = [key |-> d, part |-> "meta"]
               /\ rest \in DigestWrites(d) /\ Head(rest) = [key |-> d, part |-> "body"]
               /\ rest # <<>>
            \/ f = [key |-> d, part |-> "body"] /\ rest = <<>>
<1> DEFINE d == w.held.digest
           TM == [key |-> Tag, part |-> "meta"]
           TB == [key |-> Tag, part |-> "body"]
           DM == [key |-> d, part |-> "meta"]
           DB == [key |-> d, part |-> "body"]
<1>1. \/ w.left \in {<<DM, DB>>, <<DB>>}
      \/ w.ref = Tag /\ w.left \in {<<TM, TB, DM, DB>>, <<TB, DM, DB>>}
  BY DEF Carries, DigestWrites, TagWrites
<1>2. /\ <<DM, DB>> \in DigestWrites(d) /\ <<DB>> \in DigestWrites(d)
      /\ <<TB, DM, DB>> \in TagWrites(d)
  BY DEF DigestWrites, TagWrites
<1> HIDE DEF d, TM, TB, DM, DB
<1>3. CASE w.left = <<TM, TB, DM, DB>> /\ w.ref = Tag
  <2>1. Head(w.left) = TM /\ Tail(w.left) = <<TB, DM, DB>>
    BY <1>3, HeadOfFour
  <2>2. Head(<<TB, DM, DB>>) = TB /\ <<TB, DM, DB>> # <<>>
    BY HeadOfThree
  <2>3. QED
    BY <1>2, <1>3, <2>1, <2>2 DEF TM, TB, d
<1>4. CASE w.left = <<TB, DM, DB>> /\ w.ref = Tag
  <2>1. Head(w.left) = TB /\ Tail(w.left) = <<DM, DB>>
    BY <1>4, HeadOfThree
  <2>2. Head(<<DM, DB>>) = DM /\ <<DM, DB>> # <<>>
    BY HeadOfThree
  <2>3. QED
    BY <1>2, <1>4, <2>1, <2>2 DEF TB, DM, d
<1>5. CASE w.left = <<DM, DB>>
  <2>1. Head(w.left) = DM /\ Tail(w.left) = <<DB>>
    BY <1>5, HeadOfThree
  <2>2. Head(<<DB>>) = DB /\ <<DB>> # <<>>
    BY HeadOfThree
  <2>3. QED
    BY <1>2, <2>1, <2>2 DEF DM, DB, d
<1>6. CASE w.left = <<DB>>
  BY <1>6, HeadOfThree DEF DB, d
<1>7. QED
  BY <1>1, <1>3, <1>4, <1>5, <1>6

(* One file of those that PutManifest has left is stored: w and v are the  *)
(* locals before and after, and f is the file.                             *)
NextFile(w, d, f, rest) ==
  \/ /\ w.ref = Tag /\ f = [key |-> Tag, part |-> "meta"]
     /\ rest \in TagWrites(d) /\ Head(rest) = [key |-> Tag, part |-> "body"] /\ rest # <<>>
  \/ /\ w.ref = Tag /\ f = [key |-> Tag, part |-> "body"]
     /\ rest \in DigestWrites(d) /\ Head(rest) = [key |-> d, part |-> "meta"] /\ rest # <<>>
  \/ /\ f = [key |-> d, part |-> "meta"]
     /\ rest \in DigestWrites(d) /\ Head(rest) = [key |-> d, part |-> "body"] /\ rest # <<>>
  \/ f = [key |-> d, part |-> "body"] /\ rest = <<>>

Stores(p, w, v, d, f, rest, entry) ==
  /\ proc[p] = w /\ w \in Frame /\ w.pc = "put"
  /\ d \in Digest /\ w.held.digest = d /\ w.held.body = d /\ (w.ref # Tag => d = w.ref)
  /\ Head(w.left) = f /\ entry.digest = d
  /\ meta' = IF f.part = "meta" THEN Stored(meta, f.key, entry) ELSE meta
  /\ body' = IF f.part = "body" THEN Stored(body, f.key, d) ELSE body
  /\ Locals(p, v)
  /\ v.held.body = v.held.digest /\ (rest = <<>> => v.pc = "done")
  /\ rest # <<>> => v.pc = "put" /\ v.left = rest /\ v.held = w.held /\ v.ref = w.ref
  /\ NextFile(w, d, f, rest)

SameDigests(f, g) ==
  \A k \in Digest : (k \in DOMAIN g <=> k \in DOMAIN f) /\ (k \in DOMAIN f => g[k] = f[k])

LEMMA DigestsStay ==
  ASSUME DigestsWhole, SameDigests(meta, meta'), SameDigests(body, body')
  PROVE  DigestsWhole'
  BY DEF DigestsWhole, SameDigests

LEMMA StoresKeepsWhole ==
  ASSUME Inv, Whole, NEW p \in Proc, NEW w, NEW v, NEW d, NEW f, NEW rest, NEW entry,
         Stores(p, w, v, d, f, rest, entry)
  PROVE  Whole'
<1> USE DEF Stores, NextFile
<1>1. d # Tag /\ ~At(p, "idle") /\ Carries(w)
  BY ManifestAssumption DEF Whole, At
<1>2. proc'[p] = v /\ \A q \in Proc : q # p => proc'[q] = proc[q]
  <2>1. proc \in [Proc -> Frame]
    BY DEF Inv, TypeOK, Frame, HeldType, File, Part
  <2>2. QED
    BY <2>1 DEF Locals
<1>3. CASE f = [key |-> d, part |-> "body"] /\ rest = <<>>
  <2>1. meta' = meta /\ body' = Stored(body, d, d)
    BY <1>3
  <2>2. DigestsWhole'
    BY <2>1 DEF Whole, DigestsWhole, Stored
  <2>3. Tag \in DOMAIN body' <=> Tag \in DOMAIN body
    BY <1>1, <2>1 DEF Stored
  <2>4. Tag \in DOMAIN body => body'[Tag] = body[Tag]
    BY <1>1, <2>1 DEF Stored
  <2>5. ~Midway(w)
    BY <1>1, <1>3 DEF Midway
  <2>6. TagWhole'
    BY <1>2, <2>1, <2>3, <2>4, <2>5 DEF Whole, TagWhole, Midway
  <2>7. Carries(v)'
    BY <1>3 DEF Carries, Midway
  <2>8. ASSUME NEW q \in Proc PROVE Carries(proc[q])'
    BY <1>2, <2>1, <2>3, <2>4, <2>7 DEF Whole, Carries, Midway
  <2>9. QED
    BY <2>2, <2>6, <2>8 DEF Whole
<1>4. CASE f = [key |-> d, part |-> "meta"] /\ rest # <<>>
  <2>1. /\ meta' = Stored(meta, d, entry) /\ body' = body
        /\ rest \in DigestWrites(d) /\ Head(rest) = [key |-> d, part |-> "body"]
    BY <1>1, <1>4
  <2>2. DigestsWhole'
    BY <2>1 DEF Whole, DigestsWhole, Stored
  <2>3. Tag \in DOMAIN meta' <=> Tag \in DOMAIN meta
    BY <1>1, <2>1 DEF Stored
  <2>4. Tag \in DOMAIN meta => meta'[Tag] = meta[Tag]
    BY <1>1, <2>1 DEF Stored
  <2>5. ~Midway(w) /\ ~Midway(v)
    BY <1>1, <1>4, <2>1 DEF Midway
  <2>6. TagWhole'
    BY <1>2, <2>1, <2>3, <2>4, <2>5 DEF Whole, TagWhole, Midway
  <2>7. Carries(v)'
    BY <1>4, <2>1, <2>5 DEF Carries, Midway
  <2>8. ASSUME NEW q \in Proc PROVE Carries(proc[q])'
    BY <1>2, <2>1, <2>3, <2>4, <2>7 DEF Whole, Carries, Midway
  <2>9. QED
    BY <2>2, <2>6, <2>8 DEF Whole
<1>5. CASE w.ref = Tag /\ f.key = Tag /\ rest # <<>>
  <2>1. \A q \in Proc \ {p} : ~At(q, "idle") => proc[q].ref # Tag
    BY <1>1, <1>5, AloneWithTag
  <2>2. \A q \in Proc \ {p} : ~Midway(proc[q])
    BY <2>1, MidwayIsTag
  <2>3. CASE f.part = "meta"
    <3>1. /\ f = [key |-> Tag, part |-> "meta"]
          /\ meta' = Stored(meta, Tag, entry) /\ body' = body
          /\ rest \in TagWrites(d) /\ Head(rest) = [key |-> Tag, part |-> "body"]
      BY <1>1, <1>5, <2>3
    <3>2. Midway(v)
      BY <1>5, <3>1 DEF Midway
    <3>3. TagWhole'
      BY <1>2, <3>2 DEF TagWhole, Midway
    <3>4. meta'[Tag] = entry /\ SameDigests(meta, meta')
      <4>1. Tag \notin Digest
        BY ManifestAssumption
      <4>2. QED
        BY <3>1, <4>1 DEF Stored, SameDigests
    <3>5. DigestsWhole'
      <4>1. DigestsWhole /\ SameDigests(body, body')
        BY <3>1 DEF Whole, SameDigests
      <4>2. QED
        BY <3>4, <4>1, DigestsStay
    <3>6. Carries(v)'
      BY <1>5, <3>1, <3>4 DEF Carries, Midway
    <3>7. ASSUME NEW q \in Proc, q # p PROVE Carries(proc[q])'
      BY <1>2, <2>2, <3>1, <3>7 DEF Whole, Carries, Midway
    <3>8. ASSUME NEW q \in Proc PROVE Carries(proc[q])'
      BY <1>2, <3>6, <3>7 DEF Carries, Midway
    <3>9. QED
      BY <3>3, <3>5, <3>8 DEF Whole
  <2>4. CASE f.part = "body"
    <3>1. /\ f = [key |-> Tag, part |-> "body"]
          /\ meta' = meta /\ body' = Stored(body, Tag, d)
          /\ rest \in DigestWrites(d) /\ Head(rest) = [key |-> d, part |-> "meta"]
      BY <1>1, <1>5, <2>4
    <3>2. Tag \in DOMAIN meta => meta[Tag].digest = d
      BY <1>1, <3>1 DEF Carries, Midway
    <3>3. body'[Tag] = d /\ SameDigests(body, body')
      <4>1. Tag \notin Digest
        BY ManifestAssumption
      <4>2. QED
        BY <3>1, <4>1 DEF Stored, SameDigests
    <3>4. TagWhole'
      BY <3>1, <3>2, <3>3 DEF TagWhole
    <3>5. DigestsWhole'
      <4>1. DigestsWhole /\ SameDigests(meta, meta')
        BY <3>1 DEF Whole, SameDigests
      <4>2. QED
        BY <3>3, <4>1, DigestsStay
    <3>6. Carries(v)'
      BY <1>1, <1>5, <3>1 DEF Carries, Midway
    <3>7. ASSUME NEW q \in Proc, q # p PROVE Carries(proc[q])'
      <4>1. /\ proc'[q] = proc[q] /\ Carries(proc[q]) /\ ~Midway(proc[q])
            /\ proc[q].pc = "body" => proc[q].ref # Tag
        BY <1>2, <2>1, <2>2, <3>7 DEF Whole, At
      <4>2. QED
        BY <4>1 DEF Carries, Midway
    <3>8. ASSUME NEW q \in Proc PROVE Carries(proc[q])'
      BY <1>2, <3>6, <3>7 DEF Carries, Midway
    <3>9. QED
      BY <3>4, <3>5, <3>8 DEF Whole
  <2>5. QED
    BY <1>1, <1>5, <2>3, <2>4
<1>6. QED
  BY <1>3, <1>4, <1>5

(* A write that is done, and one that fails. *)
Succeeds(p) ==
  LET w == proc[p]
      k == Head(w.left).key
      part == Head(w.left).part
      rest == Tail(w.left)
      done == Reply(w, "upstream", w.held)
  IN
  /\ meta' = IF part = "meta"
               THEN Stored(meta, k, [digest |-> w.held.digest,
                                     at |-> IF k = Tag THEN w.held.at ELSE 0])
               ELSE meta
  /\ body' = IF part = "body" THEN Stored(body, k, w.held.body) ELSE body
  /\ Locals(p, [(IF rest = <<>> THEN done ELSE w) EXCEPT !.left = rest])

Fails(p) ==
  /\ Locals(p, [Reply(proc[p], "upstream", proc[p].held) EXCEPT !.left = <<>>])
  /\ UNCHANGED <<meta, body>>

LEMMA WriteCases ==
  ASSUME NEW p \in Proc, Write(p)
  PROVE  /\ At(p, "put") /\ UNCHANGED <<world, evicting, keyLock>>
         /\ Succeeds(p) \/ ("write" \in Faults /\ Fails(p))
  BY DEF Write, Succeeds, Fails

LEMMA SucceedsKeepsWhole ==
  ASSUME Inv, Whole, NEW p \in Proc, At(p, "put"), Succeeds(p)
  PROVE  Whole'
<1> DEFINE w == proc[p]
           d == w.held.digest
           f == Head(w.left)
           rest == Tail(w.left)
           done == Reply(w, "upstream", w.held)
           v == [(IF rest = <<>> THEN done ELSE w) EXCEPT !.left = rest]
           entry == [digest |-> d, at |-> IF f.key = Tag THEN w.held.at ELSE 0]
<1>1. /\ w \in Frame /\ Carries(w) /\ w.pc = "put" /\ d \in Digest
      /\ w.held.body = d /\ (w.ref # Tag => d = w.ref)
  BY FrameOf, ManifestAssumption DEF Inv, Whole, At, Staged, Carries
<1>2. /\ meta' = IF f.part = "meta" THEN Stored(meta, f.key, entry) ELSE meta
      /\ body' = IF f.part = "body" THEN Stored(body, f.key, d) ELSE body
      /\ Locals(p, v)
  BY <1>1 DEF Succeeds
<1>3. entry.digest = d /\ proc[p] = w /\ w.held.digest = d /\ Head(w.left) = f
  OBVIOUS
<1>4. NextFile(w, d, f, rest)
  BY <1>1, LeftAfterWrite DEF NextFile
<1>5. v.held.body = v.held.digest /\ (rest = <<>> => v.pc = "done")
  BY <1>1 DEF Reply, Frame, HeldType
<1>6. rest # <<>> => v.pc = "put" /\ v.left = rest /\ v.held = w.held /\ v.ref = w.ref
  BY <1>1 DEF Frame
<1> HIDE DEF entry, v, rest, f, d, w
<1>7. Stores(p, w, v, d, f, rest, entry)
  BY <1>1, <1>2, <1>3, <1>4, <1>5, <1>6 DEF Stores
<1>8. QED
  BY <1>7, StoresKeepsWhole

LEMMA WriteKeepsWhole ==
  ASSUME Inv, Whole, "write" \notin Faults, NEW p \in Proc, Write(p)
  PROVE  Whole'
  BY WriteCases, SucceedsKeepsWhole

(* Files that go take nothing with them but themselves. *)
LEMMA OthersKeepWhole ==
  ASSUME Inv, Whole, Retag \/ Tick \/ \E e \in Evictors : Pop(e) \/ Unlink(e) PROVE Whole'
<1>1. UNCHANGED proc
  BY DEF Retag, Tick, Pop, Unlink
<1>2. /\ DOMAIN meta' \subseteq DOMAIN meta /\ \A k \in DOMAIN meta' : meta'[k] = meta[k]
      /\ DOMAIN body' \subseteq DOMAIN body /\ \A k \in DOMAIN body' : body'[k] = body[k]
  BY DEF Retag, Tick, Pop, Unlink, store, Less
<1>3. DigestsWhole'
  BY <1>2 DEF Whole, DigestsWhole
<1>4. TagWhole'
  BY <1>1, <1>2 DEF Whole, TagWhole, Midway
<1>5. \A q \in Proc : Carries(proc[q])'
  BY <1>1, <1>2 DEF Whole, Carries, Midway
<1>6. QED
  BY <1>3, <1>4, <1>5 DEF Whole

WritesSucceed == "write" \notin Faults

LEMMA NextKeepsWhole == WritesSucceed /\ Inv /\ Whole /\ [Next]_vars => Whole'
<1> SUFFICES ASSUME WritesSucceed, Inv, Whole, [Next]_vars PROVE Whole'
  OBVIOUS
<1>1. ASSUME NEW p \in Proc, Step(p) PROVE Whole'
  BY <1>1, ArriveKeepsWhole, ReadMetaKeepsWhole, ReadBodyKeepsWhole, HeadUpstreamKeepsWhole,
     GetUpstreamKeepsWhole, StampKeepsWhole, WriteKeepsWhole, DoneKeepsWhole
     DEF Step, WritesSucceed
<1>2. CASE UNCHANGED vars
  BY <1>2 DEF vars, Whole, DigestsWhole, TagWhole, Carries, Midway
<1>3. QED
  BY <1>1, <1>2, OthersKeepWhole DEF Next

LEMMA SpecKeepsWhole == Spec => [](WritesSucceed => Whole)
<1>1. Init => (WritesSucceed => Whole)
  BY InitWhole
<1>2. Inv /\ (WritesSucceed => Whole) /\ [Next]_vars => (WritesSucceed => Whole)'
  BY NextKeepsWhole DEF WritesSucceed
<1>3. QED
  BY <1>1, <1>2, SpecKeepsInv, PTL DEF Spec

(* docs/configuration.md: "Digest manifests and blobs are immutable".  If  *)
(* writes succeed, no interleaving of requests, evictions and moves of the *)
(* tag puts another manifest's body under a digest.                        *)
THEOREM DigestsKeepTheirBodies == Spec => [](WritesSucceed => DigestsImmutable)
<1>1. Whole => DigestsImmutable
  BY DEF Whole, DigestsWhole, DigestsImmutable
<1>2. QED
  BY <1>1, SpecKeepsWhole, PTL

(* And every answer has the digest of its body. *)
THEOREM AnswersWhole == Spec => [](WritesSucceed => ServedWhole)
<1>1. Whole => ServedWhole
  BY DEF Whole, Carries, ServedWhole, At
<1>2. QED
  BY <1>1, SpecKeepsWhole, PTL

-----------------------------------------------------------------------------
(* With crashes too. *)
LEMMA CrashKeepsInv == Inv /\ CrashRestart => Inv'
<1> SUFFICES ASSUME Inv, CrashRestart PROVE Inv'
  OBVIOUS
<1>1. /\ proc' = [p \in Proc |-> Idle] /\ keyLock' = [k \in Key |-> Nobody]
      /\ evicting' = [e \in Evictors |-> [pc |-> "idle", key |-> Tag]]
      /\ UNCHANGED <<head, clock, meta, body>>
  BY DEF CrashRestart, world
<1>2. proc' \in [Proc -> Frame] /\ \A p \in Proc : proc'[p] = Idle
  BY <1>1, IdleFrame
<1>3. TypeOK'
  <2>1. evicting' \in [Evictors -> [pc : {"idle", "meta", "body"}, key : Key]]
    BY <1>1 DEF Key
  <2>2. keyLock' \in [Key -> Proc \cup {Nobody}]
    BY <1>1
  <2>3. QED
    BY <1>1, <1>2, <2>1, <2>2 DEF Inv, TypeOK, Frame, HeldType, File, Part
<1>4. Locked' /\ \A p \in Proc : Staged(proc'[p])
  BY <1>2, IdleFrame DEF Locked, At
<1>5. QED
  BY <1>3, <1>4 DEF Inv

LEMMA HistoryKeepsInv == Inv /\ [MCNext]_<<vars, until, torn>> => Inv'
<1>1. Inv /\ MCNext => Inv'
  BY NextKeepsInv, CrashKeepsInv DEF MCNext
<1>2. Inv /\ UNCHANGED <<vars, until, torn>> => Inv'
  BY NextKeepsInv
<1>3. QED
  BY <1>1, <1>2

LEMMA HistoryHasInv == MCSpec => []Inv
<1>1. MCInit => Inv
  BY InitInv DEF MCInit
<1>2. QED
  BY <1>1, HistoryKeepsInv, PTL DEF MCSpec

(* What a goroutine that fails to write has left. *)
LEMMA FailedCarries ==
  ASSUME NEW w \in Frame, w.held.body = w.held.digest
  PROVE  LET u == [Reply(w, "upstream", w.held) EXCEPT !.left = <<>>]
         IN u.pc = "done" /\ u.left = <<>> /\ Carries(u)
<1> DEFINE r == Reply(w, "upstream", w.held)
           u == [r EXCEPT !.left = <<>>]
<1>1. "upstream" \in {"fresh", "upstream", "stale", "digest", "failed"} /\ w.held \in HeldType
  BY DEF Frame
<1>2. r \in Frame /\ Carries(r) /\ r.pc = "done"
  BY <1>1, ReplyFrame, ReplyCarries
<1> HIDE DEF r
<1>3. u.pc = "done" /\ u.left = <<>> /\ u.held = r.held
  BY <1>2 DEF Frame
<1>4. QED
  BY <1>2, <1>3 DEF Carries, Midway, r

(* Between the files of the tag, those of the digest are still to come. *)
LEMMA MidwayHasMore ==
  ASSUME Inv, Whole, NEW p \in Proc, Midway(proc[p])
  PROVE  Head(proc[p].left).part = "body" /\ Tail(proc[p].left) # <<>>
<1> DEFINE w == proc[p]
<1>1. /\ w.pc = "put" /\ Head(w.left) = [key |-> Tag, part |-> "body"]
      /\ Carries(w) /\ w.held.digest \in Digest
  BY FrameOf DEF Midway, Inv, Staged, Whole
<1>2. w.held.digest # Tag
  BY <1>1, ManifestAssumption
<1> HIDE DEF w
<1>3. NextFile(w, w.held.digest, Head(w.left), Tail(w.left))
  BY <1>1, LeftAfterWrite DEF NextFile
<1>4. QED
  BY <1>1, <1>2, <1>3 DEF NextFile, w
-----------------------------------------------------------------------------
(* Until a write is cut short.                                             *)
LEMMA FailsKeepsWhole ==
  ASSUME Inv, Whole, NEW p \in Proc, At(p, "put"), Fails(p), ~CutShort(p)
  PROVE  Whole'
<1> DEFINE w == proc[p]
           u == [Reply(w, "upstream", w.held) EXCEPT !.left = <<>>]
<1>1. w \in Frame /\ w.pc = "put" /\ w.held.body = w.held.digest
  BY FrameOf DEF Inv, Whole, Carries, At
<1>2. u.pc = "done" /\ u.left = <<>> /\ Carries(u)
  BY <1>1, FailedCarries
<1> HIDE DEF u
<1>3. Locals(p, u) /\ UNCHANGED <<meta, body>>
  BY DEF Fails, u
<1>4. proc' = [proc EXCEPT ![p] = u] /\ proc \in [Proc -> Frame]
  BY <1>3 DEF Inv, TypeOK, Frame, HeldType, File, Part, Locals
<1>5. proc'[p] = u /\ proc'[p] # proc[p]
  BY <1>1, <1>2, <1>4
<1>6. ~Midway(proc[p])
  <2> SUFFICES ASSUME Midway(proc[p]) PROVE FALSE
    OBVIOUS
  <2>1. Head(w.left).part = "body" /\ Tail(w.left) # <<>>
    BY MidwayHasMore
  <2>2. QED
    BY <1>2, <1>5, <2>1 DEF CutShort
<1>7. QED
  BY <1>2, <1>3, <1>6, QuietStep

LEMMA CrashKeepsWhole ==
  ASSUME Inv, Whole, CrashRestart, \A p \in Proc : ~CutShort(p)
  PROVE  Whole'
<1>1. proc' = [p \in Proc |-> Idle] /\ UNCHANGED <<meta, body>>
  BY DEF CrashRestart
<1>2. \A p \in Proc : ~Midway(proc[p])
  <2> SUFFICES ASSUME NEW p \in Proc, Midway(proc[p]) PROVE FALSE
    OBVIOUS
  <2>1. Head(proc[p].left).part = "body" /\ Tail(proc[p].left) # <<>>
    BY MidwayHasMore
  <2>2. proc'[p] = Idle /\ Idle.pc = "idle" /\ Idle.left = <<>>
    BY <1>1 DEF Idle
  <2>3. QED
    BY <2>1, <2>2 DEF CutShort, Midway, At
<1>3. DigestsWhole' /\ TagWhole'
  BY <1>1, <1>2 DEF Whole, DigestsWhole, TagWhole
<1>4. Idle.pc = "idle"
  BY DEF Idle
<1>5. \A p \in Proc : Carries(proc[p])'
  BY <1>1, <1>4 DEF Carries, Midway
<1>6. QED
  BY <1>3, <1>5 DEF Whole

LEMMA UncutKeepsWhole ==
  ASSUME Inv, Whole, Next \/ CrashRestart, \A p \in Proc : ~CutShort(p)
  PROVE  Whole'
<1>1. ASSUME NEW p \in Proc, Write(p) PROVE Whole'
  BY <1>1, WriteCases, SucceedsKeepsWhole, FailsKeepsWhole
<1>2. ASSUME NEW p \in Proc, Step(p) PROVE Whole'
  BY <1>1, <1>2, ArriveKeepsWhole, ReadMetaKeepsWhole, ReadBodyKeepsWhole, HeadUpstreamKeepsWhole,
     GetUpstreamKeepsWhole, StampKeepsWhole, DoneKeepsWhole DEF Step
<1>3. QED
  BY <1>2, OthersKeepWhole, CrashKeepsWhole DEF Next

TornOrWhole == torn \/ Whole

LEMMA HistoryKeepsWhole ==
  Inv /\ TornOrWhole /\ [MCNext]_<<vars, until, torn>> => TornOrWhole'
<1> SUFFICES ASSUME Inv, torn \/ Whole, [MCNext]_<<vars, until, torn>> PROVE torn' \/ Whole'
  BY DEF TornOrWhole
<1>1. CASE UNCHANGED <<vars, until, torn>>
  BY <1>1 DEF vars, Whole, DigestsWhole, TagWhole, Carries, Midway
<1>2. CASE MCNext
  <2>1. torn' = (torn \/ \E p \in Proc : CutShort(p)) /\ (Next \/ CrashRestart)
    BY <1>2 DEF MCNext
  <2>2. QED
    BY <2>1, UncutKeepsWhole
<1>3. QED
  BY <1>1, <1>2

(* Whatever fails, and whenever the process dies: as long as no write was  *)
(* cut short between the metadata and the body, every answer has the       *)
(* digest of its body and every digest its own manifest.                   *)
THEOREM WholeUntilTorn == MCSpec => []WholeUnlessTorn
<1>1. MCInit => TornOrWhole
  BY InitWhole DEF MCInit, TornOrWhole
<1>2. TornOrWhole => WholeUnlessTorn
  BY DEF TornOrWhole, WholeUnlessTorn, Whole, Carries, ServedWhole, At, DigestsWhole, DigestsImmutable
<1>3. QED
  BY <1>1, <1>2, HistoryKeepsWhole, HistoryHasInv, PTL DEF MCSpec

-----------------------------------------------------------------------------
(* How old what a request holds of the tag is: `now' is the time, lc when  *)
(* the tag last pointed at each manifest, files the metadata on disk.      *)
LC == [d \in Digest |-> LastCurrent(d)]

Waiting(w) ==
  /\ w.ref = Tag
  /\ w.pc = "stamp" \/ (w.pc \in {"meta", "body"} /\ w.stage \in {"matching", "refresh"})

(* Upstream's answer, *)
Asked(w, now, lc) ==
  Waiting(w) => w.up \in Digest /\ w.asOf <= lc[w.up] /\ now - w.asOf <= MaxLatency

(* what is about to be stored, *)
Bringing(w, lc) ==
  w.pc = "put" => /\ w.asOf <= lc[w.held.digest]
                  /\ w.held.at - lc[w.held.digest] <= MaxLatency

(* what the cache answered, *)
Reading(w, lc, files) ==
  /\ w.pc = "body" =>
       /\ w.held.at - lc[w.held.digest] <= MaxLatency
       /\ Tag \in DOMAIN files => /\ files[Tag].digest = w.held.digest
                                  /\ files[Tag].at = w.held.at
       /\ w.stage = "current" => w.asOf - w.held.at < TTL
       /\ w.stage = "refresh" => w.held.digest = w.up
  /\ w.pc = "meta" /\ Tag \in DOMAIN files =>
       /\ w.stage = "current" => w.asOf - files[Tag].at < TTL
       /\ w.stage = "refresh" => files[Tag].digest = w.up

(* and the answer. *)
Answering(w, lc) ==
  w.pc = "done" /\ w.answer \in {"fresh", "upstream"} =>
    w.held.digest \in Digest /\ w.asOf - lc[w.held.digest] < TTL + MaxLatency

Timely(w, now, lc, files) ==
  IF w.ref = Tag
    THEN Asked(w, now, lc) /\ Bringing(w, lc) /\ Reading(w, lc, files) /\ Answering(w, lc)
    ELSE /\ w.pc = "stamp" => w.up = w.ref
         /\ w.pc = "put" => w.left \in DigestWrites(w.ref)

FileTimely(lc, files) ==
  Tag \in DOMAIN files => files[Tag].at - lc[files[Tag].digest] <= MaxLatency

Since == until \in [Digest -> Int] /\ \A d \in Digest : until[d] <= clock

Dated == /\ Since /\ FileTimely(LC, meta)
         /\ \A p \in Proc : Timely(proc[p], clock, LC, meta)

LEMMA LCTyped == ASSUME Inv, Since PROVE LC \in [Digest -> Int] /\ \A d \in Digest : LC[d] <= clock
  BY Files0 DEF LC, LastCurrent, Since

(* Time only passes, and manifests that were current stay known as such.   *)
LEMMA SinceMoves ==
  ASSUME Inv, Inv', Since, MCNext
  PROVE  Since' /\ \A d \in Digest : LC[d] <= LC'[d]
<1>1. /\ clock \in 0..MaxClock /\ clock' \in 0..MaxClock /\ MaxClock \in Nat
      /\ head \in Digest /\ head' \in Digest
  BY Files0, ManifestAssumption DEF Inv, TypeOK
<1>2. clock <= clock' /\ (head' # head => clock' = clock)
  <2>1. CASE Tick
    BY <1>1, <2>1 DEF Tick
  <2>2. CASE Retag
    BY <1>1, <2>2 DEF Retag
  <2>3. CASE UNCHANGED world
    BY <1>1, <2>3 DEF world
  <2>4. Tick \/ Retag \/ UNCHANGED world
    BY DEF MCNext, CrashRestart, Next, Step, Arrive, ReadMeta, ReadBody, HeadUpstream,
           GetUpstream, Stamp, Write, Done, Pop, Unlink
  <2>5. QED
    BY <2>1, <2>2, <2>3, <2>4
<1>3. until' = IF head' # head THEN [until EXCEPT ![head] = clock, ![head'] = Never] ELSE until
  BY DEF MCNext
<1>4. Never \in Int /\ Never <= 0
  BY ManifestAssumption DEF Never
<1>5. until \in [Digest -> Int] /\ \A d \in Digest : until[d] <= clock
  BY DEF Since
<1>6. until' \in [Digest -> Int]
  BY <1>1, <1>3, <1>4, <1>5
<1>7. \A d \in Digest : until'[d] <= clock'
  BY <1>1, <1>2, <1>3, <1>4, <1>5
<1>8. ASSUME NEW d \in Digest PROVE LastCurrent(d) <= LastCurrent(d)'
  BY <1>1, <1>2, <1>3, <1>4, <1>5, <1>7 DEF LastCurrent
<1>9. QED
  BY <1>6, <1>7, <1>8 DEF Since, LC

(* What was timely stays so, if upstream's answers are still young enough. *)
LEMMA TimelyLater ==
  ASSUME NEW w \in Frame, Staged(w),
         NEW n \in Int, NEW m \in Int, NEW f, NEW g,
         NEW a \in [Digest -> Int], NEW b \in [Digest -> Int], \A d \in Digest : a[d] <= b[d],
         Tag \in DOMAIN g => Tag \in DOMAIN f /\ g[Tag] = f[Tag],
         m = n \/ (Waiting(w) => m - w.asOf <= MaxLatency),
         Timely(w, n, a, f)
  PROVE  Timely(w, m, b, g)
<1>0. /\ w.asOf \in Int /\ w.held.at \in Int /\ MaxLatency \in Int /\ TTL \in Int
      /\ w.pc \in {"put", "body"} => w.held.digest \in Digest
  BY ManifestAssumption DEF Frame, HeldType, Staged
<1>1. CASE w.ref = Tag
  <2>0. Asked(w, n, a) /\ Bringing(w, a) /\ Reading(w, a, f) /\ Answering(w, a)
    BY <1>1 DEF Timely
  <2>1. Asked(w, m, b)
    <3> SUFFICES ASSUME Waiting(w) PROVE w.up \in Digest /\ w.asOf <= b[w.up] /\ m - w.asOf <= MaxLatency
      BY DEF Asked
    <3>1. w.up \in Digest /\ w.asOf <= a[w.up] /\ n - w.asOf <= MaxLatency
      BY <2>0 DEF Asked
    <3>2. a[w.up] <= b[w.up] /\ a[w.up] \in Int /\ b[w.up] \in Int
      BY <3>1
    <3>3. QED
      BY <1>0, <3>1, <3>2
  <2>2. Bringing(w, b)
    <3> SUFFICES ASSUME w.pc = "put"
                 PROVE  w.asOf <= b[w.held.digest] /\ w.held.at - b[w.held.digest] <= MaxLatency
      BY DEF Bringing
    <3>1. w.held.digest \in Digest
      BY <1>0
    <3>2. w.asOf <= a[w.held.digest] /\ w.held.at - a[w.held.digest] <= MaxLatency
      BY <2>0 DEF Bringing
    <3>3. /\ a[w.held.digest] <= b[w.held.digest]
          /\ a[w.held.digest] \in Int /\ b[w.held.digest] \in Int
      BY <3>1
    <3>4. QED
      BY <1>0, <3>2, <3>3
  <2>3. Reading(w, b, g)
    <3>1. w.pc = "body" => w.held.at - b[w.held.digest] <= MaxLatency
      <4> SUFFICES ASSUME w.pc = "body" PROVE w.held.at - b[w.held.digest] <= MaxLatency
        OBVIOUS
      <4>1. w.held.digest \in Digest /\ w.held.at - a[w.held.digest] <= MaxLatency
        BY <1>0, <2>0 DEF Reading
      <4>2. /\ a[w.held.digest] <= b[w.held.digest]
            /\ a[w.held.digest] \in Int /\ b[w.held.digest] \in Int
        BY <4>1
      <4>3. QED
        BY <1>0, <4>1, <4>2
    <3>2. QED
      BY <2>0, <3>1 DEF Reading
  <2>4. Answering(w, b)
    <3> SUFFICES ASSUME w.pc = "done", w.answer \in {"fresh", "upstream"}
                 PROVE  w.held.digest \in Digest /\ w.asOf - b[w.held.digest] < TTL + MaxLatency
      BY DEF Answering
    <3>1. w.held.digest \in Digest /\ w.asOf - a[w.held.digest] < TTL + MaxLatency
      BY <2>0 DEF Answering
    <3>2. /\ a[w.held.digest] <= b[w.held.digest]
          /\ a[w.held.digest] \in Int /\ b[w.held.digest] \in Int
      BY <3>1
    <3>3. QED
      BY <1>0, <3>1, <3>2
  <2>5. QED
    BY <1>1, <2>1, <2>2, <2>3, <2>4 DEF Timely
<1>2. CASE w.ref # Tag
  BY <1>2 DEF Timely
<1>3. QED
  BY <1>1, <1>2

-----------------------------------------------------------------------------
(* What a goroutine does next is timely. *)
Window == 0 < TTL + MaxLatency

LEMMA Unhurried ==
  ASSUME NEW w, NEW n, NEW a, NEW f,
         \/ w.pc \in {"idle", "ask", "fetch"}
         \/ w.pc = "meta" /\ w.stage \in {"none", "trusted", "stale", "digest", "known", "fallback"}
         \/ w.pc = "done" /\ w.answer \notin {"fresh", "upstream"}
  PROVE  Timely(w, n, a, f)
  BY DEF Timely, Asked, Waiting, Bringing, Reading, Answering

LEMMA NextPC ==
  ASSUME NEW w \in Frame
  PROVE  Ask(w).pc = "ask" /\ Fetch(w).pc = "fetch"
  BY DEF Ask, Fetch, Frame

LEMMA LookFields ==
  ASSUME NEW w \in Frame, NEW s
  PROVE  LET u == Look(w, s) IN
         /\ u.pc = "meta" /\ u.stage = s /\ u.ref = w.ref
         /\ u.up = w.up /\ u.asOf = w.asOf /\ u.held = w.held
  BY DEF Look, Frame

LEMMA ReplyFields ==
  ASSUME NEW w \in Frame, NEW x, NEW m \in HeldType
  PROVE  LET u == Reply(w, x, m) IN
         /\ u.pc = "done" /\ u.answer = x /\ u.ref = w.ref
         /\ u.asOf = w.asOf /\ u.held.digest = m.digest
<1> DEFINE h == [m EXCEPT !.at = 0]
<1>1. h.digest = m.digest
  BY DEF HeldType
<1> HIDE DEF h
<1>2. Reply(w, x, m) = [w EXCEPT !.pc = "done", !.stage = "none", !.up = Nobody, !.answer = x, !.held = h]
  BY DEF Reply, h
<1>3. QED
  BY <1>1, <1>2 DEF Frame

LEMMA TimelyReply ==
  ASSUME NEW w \in Frame, NEW x, NEW m \in HeldType, NEW n, NEW a, NEW f,
         x \in {"fresh", "upstream"} /\ w.ref = Tag =>
           m.digest \in Digest /\ w.asOf - a[m.digest] < TTL + MaxLatency
  PROVE  Timely(Reply(w, x, m), n, a, f)
<1> DEFINE u == Reply(w, x, m)
<1>1. /\ u.pc = "done" /\ u.answer = x /\ u.ref = w.ref
      /\ u.asOf = w.asOf /\ u.held.digest = m.digest
  BY ReplyFields
<1> HIDE DEF u
<1>2. Timely(u, n, a, f)
  BY <1>1 DEF Timely, Asked, Waiting, Bringing, Reading, Answering
<1>3. QED
  BY <1>2 DEF u

(* Upstream's answer is current, or was while it was on its way.           *)
LEMMA TimelyReplyHead ==
  ASSUME Window, NEW w \in Frame, NEW n, NEW a \in [Digest -> Int], NEW f,
         w.ref = Tag => w.up \in Digest /\ w.asOf <= a[w.up]
  PROVE  Timely(ReplyHead(w), n, a, f)
<1> DEFINE m == [digest |-> w.up, at |-> 0, body |-> w.up]
<1>1. m \in HeldType /\ m.digest = w.up
  BY Zero DEF HeldType, Frame
<1>2. w.ref = Tag => m.digest \in Digest /\ w.asOf - a[m.digest] < TTL + MaxLatency
  BY <1>1, ManifestAssumption DEF Window, Frame
<1> HIDE DEF m
<1>3. Timely(Reply(w, "upstream", m), n, a, f)
  BY <1>1, <1>2, TimelyReply
<1>4. QED
  BY <1>3 DEF ReplyHead, m

LEMMA TimelyMissed ==
  ASSUME Window, NEW w \in Frame, Staged(w), w.pc \in {"meta", "body"},
         NEW n, NEW a \in [Digest -> Int], NEW f, Asked(w, n, a)
  PROVE  Timely(Missed(w), n, a, f)
<1>1. CASE w.stage \in {"trusted", "current", "fallback"}
  BY <1>1, Unhurried, NextPC DEF Missed
<1>2. CASE w.stage \in {"matching", "refresh"}
  <2>1. w.ref = Tag => w.up \in Digest /\ w.asOf <= a[w.up]
    BY <1>2 DEF Asked, Waiting
  <2>2. Timely(ReplyHead(w), n, a, f) /\ Timely(Fetch(w), n, a, f)
    BY <2>1, TimelyReplyHead, Unhurried, NextPC
  <2>3. QED
    BY <1>2, <2>2 DEF Missed
<1>3. CASE w.stage \in {"digest", "stale"}
  BY <1>3, Unhurried, NextPC DEF Missed
<1>4. CASE w.stage = "known"
  <2> DEFINE u == Look(w, "fallback")
  <2>1. u.pc = "meta" /\ u.stage = "fallback" /\ Missed(w) = u
    BY <1>4, LookFields DEF Missed
  <2> HIDE DEF u
  <2>2. QED
    BY <2>1, Unhurried
<1>5. QED
  BY <1>1, <1>2, <1>3, <1>4 DEF Staged

(* What is put is from an answer not older than MaxLatency. *)
LEMMA TimelyPut ==
  ASSUME NEW w \in Frame, NEW m \in HeldType, m.digest \in Digest, NEW n, NEW a, NEW f,
         IF w.ref = Tag THEN w.asOf <= a[m.digest] /\ m.at - a[m.digest] <= MaxLatency
                        ELSE m.digest = w.ref
  PROVE  Timely(Put(w, m), n, a, f)
<1> DEFINE l == IF w.ref = Tag THEN Files(Tag) \o Files(m.digest) ELSE Files(w.ref)
           u == [w EXCEPT !.pc = "put", !.stage = "none", !.up = Nobody, !.held = m, !.left = l]
<1>0. Put(w, m) = u
  BY DEF Put
<1>1. w.ref # Tag => l \in DigestWrites(w.ref)
  BY DEF Files, DigestWrites
<1> HIDE DEF l
<1>2. u.pc = "put" /\ u.ref = w.ref /\ u.held = m /\ u.asOf = w.asOf /\ u.left = l
  BY DEF Frame
<1> HIDE DEF u
<1>3. Timely(u, n, a, f)
  BY <1>1, <1>2 DEF Timely, Asked, Waiting, Bringing, Reading, Answering
<1>4. QED
  BY <1>0, <1>3

LEMMA TimelyFound ==
  ASSUME Window, TypeOK, NEW w \in Frame, w.pc = "body", Staged([w EXCEPT !.pc = "meta"]),
         NEW m \in HeldType, m.digest \in Digest,
         NEW a \in [Digest -> Int], NEW f, Asked(w, clock, a),
         w.ref = Tag => /\ m.at - a[m.digest] <= MaxLatency
                        /\ Tag \in DOMAIN f => f[Tag].digest = m.digest /\ f[Tag].at = m.at
                        /\ w.stage = "current" => w.asOf - m.at < TTL
                        /\ w.stage = "refresh" => m.digest = w.up
  PROVE  Timely(Found(w, m), clock, a, f)
<1>0. /\ w.ref = Tag => w.stage \in {"trusted", "current", "matching", "refresh", "stale", "fallback"}
      /\ w.ref # Tag => w.stage \in {"digest", "known", "fallback"}
  BY DEF Staged, Frame
<1>1. /\ a[m.digest] \in Int /\ m.at \in Int /\ w.asOf \in Int /\ clock \in Int
      /\ TTL \in Int /\ MaxLatency \in Int
  BY ManifestAssumption DEF HeldType, Frame, TypeOK
<1>2. CASE w.stage = "trusted" /\ Fresh(m)
  <2> DEFINE v == [w EXCEPT !.asOf = clock]
             u == Look(v, "current")
  <2>1. v \in Frame /\ v.ref = w.ref /\ v.asOf = clock
    BY DEF Frame, TypeOK
  <2>2. Found(w, m) = IF w.op = "get" THEN u ELSE Reply(v, "fresh", m)
    BY <1>2 DEF Found
  <2> HIDE DEF v
  <2>3. w.ref = Tag /\ clock - m.at < TTL
    BY <1>0, <1>2 DEF Fresh
  <2>4. u.pc = "meta" /\ u.stage = "current" /\ u.ref = w.ref /\ u.asOf = clock
    BY <2>1, LookFields
  <2> HIDE DEF u
  <2>5. Timely(u, clock, a, f)
    BY <2>3, <2>4 DEF Timely, Asked, Waiting, Bringing, Reading, Answering
  <2>6. clock - a[m.digest] < TTL + MaxLatency
    BY <1>1, <2>3
  <2>7. Timely(Reply(v, "fresh", m), clock, a, f)
    BY <2>1, <2>6, TimelyReply
  <2>8. QED
    BY <2>2, <2>5, <2>7
<1>3. CASE w.stage = "trusted" /\ ~Fresh(m)
  BY <1>3, Unhurried, NextPC DEF Found
<1>4. CASE w.stage = "current"
  <2>1. Found(w, m) = Reply(w, "fresh", m)
    BY <1>4 DEF Found
  <2>2. w.ref = Tag => w.asOf - a[m.digest] < TTL + MaxLatency
    BY <1>1, <1>4
  <2>3. QED
    BY <2>1, <2>2, TimelyReply
<1>5. CASE w.stage \in {"digest", "known", "stale", "fallback"}
  <2>1. Found(w, m) = Reply(w, "digest", m) \/ Found(w, m) = Reply(w, "stale", m)
    BY <1>5 DEF Found
  <2>2. QED
    BY <2>1, TimelyReply
<1>6. CASE w.stage = "matching" /\ m.digest = w.up
  <2> DEFINE u == Look(w, "refresh")
  <2>1. Found(w, m) = u
    BY <1>6 DEF Found
  <2>2. u.pc = "meta" /\ u.stage = "refresh" /\ u.ref = w.ref /\ u.asOf = w.asOf /\ u.up = w.up
    BY LookFields
  <2> HIDE DEF u
  <2>3. w.ref = Tag => w.up \in Digest /\ w.asOf <= a[w.up] /\ clock - w.asOf <= MaxLatency
    BY <1>6 DEF Asked, Waiting
  <2>4. Timely(u, clock, a, f)
    BY <1>0, <1>6, <2>2, <2>3 DEF Timely, Asked, Waiting, Bringing, Reading, Answering
  <2>5. QED
    BY <2>1, <2>4
<1>7. CASE w.stage = "matching" /\ m.digest # w.up
  <2>1. w.ref = Tag => w.up \in Digest /\ w.asOf <= a[w.up]
    BY <1>7 DEF Asked, Waiting
  <2>2. Timely(ReplyHead(w), clock, a, f) /\ Timely(Fetch(w), clock, a, f)
    BY <2>1, TimelyReplyHead, Unhurried, NextPC
  <2>3. QED
    BY <1>7, <2>2 DEF Found
<1>8. CASE w.stage = "refresh"
  <2> DEFINE o == [m EXCEPT !.at = clock]
  <2>1. o \in HeldType /\ o.digest = m.digest /\ o.at = clock
    BY DEF HeldType, TypeOK
  <2>2. Found(w, m) = Put(w, o)
    BY <1>8 DEF Found
  <2> HIDE DEF o
  <2>3. w.ref = Tag /\ m.digest = w.up /\ w.asOf <= a[w.up] /\ clock - w.asOf <= MaxLatency
    BY <1>0, <1>8 DEF Asked, Waiting
  <2>4. w.asOf <= a[m.digest] /\ clock - a[m.digest] <= MaxLatency
    BY <1>1, <2>3
  <2>5. Timely(Put(w, o), clock, a, f)
    BY <2>1, <2>3, <2>4, TimelyPut
  <2>6. QED
    BY <2>2, <2>5
<1>9. QED
  BY <1>0, <1>2, <1>3, <1>4, <1>5, <1>6, <1>7, <1>8

-----------------------------------------------------------------------------
(* A step of one goroutine. *)
LEMMA TimelyStep ==
  ASSUME Inv, Dated, NEW p \in Proc, NEW w, Locals(p, w), ~At(p, "idle") \/ meta' = meta,
         UNCHANGED <<head, clock, until>>, FileTimely(LC, meta'), Timely(w, clock, LC, meta'),
         (Tag \in DOMAIN meta' => Tag \in DOMAIN meta /\ meta'[Tag] = meta[Tag])
           \/ proc[p].ref = Tag
  PROVE  Dated'
<1>1. proc \in [Proc -> Frame] /\ \A q \in Proc : Staged(proc[q])
  BY DEF Inv, TypeOK, Frame, HeldType, File, Part
<1>2. proc'[p] = w /\ \A q \in Proc : q # p => proc'[q] = proc[q]
  BY <1>1 DEF Locals
<1>3. LC' = LC /\ LC \in [Digest -> Int]
  BY LCTyped DEF LC, LastCurrent, Dated
<1>4. clock \in Int
  BY Files0
<1>5. ASSUME NEW q \in Proc PROVE Timely(proc'[q], clock, LC, meta')
  <2>1. CASE q = p
    BY <1>2, <2>1
  <2>2. CASE q # p /\ At(q, "idle")
    BY <1>2, <2>2, Unhurried DEF At
  <2>3. CASE q # p /\ ~At(q, "idle") /\ (Tag \in DOMAIN meta' => Tag \in DOMAIN meta /\ meta'[Tag] = meta[Tag])
    <3>1. Timely(proc[q], clock, LC, meta) /\ proc[q] \in Frame /\ Staged(proc[q])
      BY <1>1 DEF Dated
    <3>2. \A d \in Digest : LC[d] <= LC[d]
      BY <1>3
    <3> DEFINE a == LC
               f == meta
               g == meta'
               n == clock
               v == proc[q]
    <3>3. /\ v \in Frame /\ Staged(v) /\ n \in Int /\ a \in [Digest -> Int]
          /\ \A d \in Digest : a[d] <= a[d]
          /\ Tag \in DOMAIN g => Tag \in DOMAIN f /\ g[Tag] = f[Tag]
          /\ Timely(v, n, a, f)
      BY <1>3, <1>4, <2>3, <3>1, <3>2
    <3> HIDE DEF a, f, g, n, v
    <3>4. Timely(v, n, a, g)
      BY <3>3, TimelyLater
    <3>5. QED
      BY <1>2, <2>3, <3>4 DEF a, g, n, v
  <2>4. CASE q # p /\ ~At(q, "idle") /\ proc[p].ref = Tag /\ meta' # meta
    <3>1. proc[q].ref # Tag
      BY <2>4, AloneWithTag
    <3>2. Timely(proc[q], clock, LC, meta)
      BY DEF Dated
    <3>3. QED
      BY <1>2, <2>4, <3>1, <3>2 DEF Timely
  <2>5. QED
    BY <2>1, <2>2, <2>3, <2>4
<1>6. Since'
  BY DEF Dated, Since
<1>7. \A q \in Proc : Timely(proc[q], clock, LC, meta)'
  BY <1>3, <1>5
<1>8. FileTimely(LC, meta)'
  BY <1>3
<1>9. QED
  BY <1>6, <1>7, <1>8 DEF Dated

LEMMA TimelyRead ==
  ASSUME Inv, Dated, NEW p \in Proc, NEW w, Locals(p, w),
         UNCHANGED <<head, clock, until, meta>>, Timely(w, clock, LC, meta)
  PROVE  Dated'
<1>1. FileTimely(LC, meta') /\ Timely(w, clock, LC, meta')
  BY DEF Dated
<1>2. QED
  BY <1>1, TimelyStep

LEMMA ArriveKeepsDated ==
  ASSUME Inv, Dated, NEW p \in Proc, Arrive(p), until' = until PROVE Dated'
<1>1. PICK op \in {"get", "head"}, k \in Key : Begin(p, op, k)
  BY DEF Arrive
<1> DEFINE v == [Idle EXCEPT !.op = op, !.ref = k]
           w == Look(v, First(v))
<1>2. v \in Frame /\ v.ref = k /\ v.op = op
  BY IdleFrame DEF Frame
<1>3. First(v) \in {"trusted", "digest", "known"}
  BY <1>2 DEF First
<1>4. Locals(p, w) /\ w.pc = "meta" /\ w.stage = First(v)
  BY <1>1, <1>2, LookFields DEF Begin
<1> HIDE DEF w
<1>5. Timely(w, clock, LC, meta)
  BY <1>3, <1>4, Unhurried
<1>6. UNCHANGED <<head, clock, meta>>
  BY DEF Arrive, world, store
<1>7. QED
  BY <1>4, <1>5, <1>6, TimelyRead

LEMMA DoneKeepsDated ==
  ASSUME Inv, Dated, NEW p \in Proc, Done(p), until' = until PROVE Dated'
<1>1. Locals(p, Idle) /\ UNCHANGED <<head, clock, meta>>
  BY DEF Done, world, store
<1>2. Timely(Idle, clock, LC, meta)
  BY IdleFrame, Unhurried
<1>3. QED
  BY <1>1, <1>2, TimelyRead

LEMMA ReadMetaKeepsDated ==
  ASSUME Window, Inv, Dated, NEW p \in Proc, ReadMeta(p), until' = until PROVE Dated'
<1> DEFINE w == proc[p]
           h == [digest |-> meta[w.ref].digest, at |-> meta[w.ref].at, body |-> Nobody]
           v == [w EXCEPT !.pc = "body", !.held = h]
<1>1. w \in Frame /\ Staged(w) /\ w.pc = "meta" /\ Timely(w, clock, LC, meta)
  BY FrameOf DEF Inv, Dated, ReadMeta, At
<1>2. UNCHANGED <<head, clock, meta>>
  BY DEF ReadMeta, world, store
<1>3. Locals(p, IF w.ref \in DOMAIN meta THEN v ELSE Missed(w))
  BY DEF ReadMeta
<1>4. LC \in [Digest -> Int]
  BY LCTyped DEF Dated
<1>5. CASE w.ref \in DOMAIN meta
  <2>1. /\ v.pc = "body" /\ v.ref = w.ref /\ v.stage = w.stage /\ v.up = w.up /\ v.asOf = w.asOf
        /\ v.held.digest = meta[w.ref].digest /\ v.held.at = meta[w.ref].at
    BY <1>1 DEF Frame
  <2> HIDE DEF v
  <2>2. CASE w.ref = Tag
    <3>1. Asked(v, clock, LC)
      BY <1>1, <2>1, <2>2 DEF Timely, Asked, Waiting
    <3>2. Reading(v, LC, meta)
      BY <1>1, <1>5, <2>1, <2>2 DEF Dated, FileTimely, Timely, Reading
    <3>3. QED
      BY <1>2, <1>3, <1>5, <2>1, <2>2, <3>1, <3>2, TimelyRead DEF Timely, Bringing, Answering
  <2>3. CASE w.ref # Tag
    BY <1>2, <1>3, <1>5, <2>1, <2>3, TimelyRead DEF Timely
  <2>4. QED
    BY <2>2, <2>3
<1>6. CASE w.ref \notin DOMAIN meta
  <2>1. Asked(w, clock, LC)
    BY <1>1 DEF Timely, Asked, Waiting
  <2>2. Timely(Missed(w), clock, LC, meta)
    BY <1>1, <1>4, <2>1, TimelyMissed
  <2>3. QED
    BY <1>2, <1>3, <1>6, <2>2, TimelyRead
<1>7. QED
  BY <1>5, <1>6

LEMMA ReadBodyKeepsDated ==
  ASSUME Window, Inv, Dated, NEW p \in Proc, ReadBody(p), until' = until PROVE Dated'
<1> DEFINE w == proc[p]
           v == [w EXCEPT !.held = Unread]
           m == [w.held EXCEPT !.body = body[w.ref]]
<1>1. w \in Frame /\ Staged(w) /\ w.pc = "body" /\ Timely(w, clock, LC, meta) /\ TypeOK
  BY FrameOf DEF Inv, Dated, ReadBody, At
<1>2. UNCHANGED <<head, clock, meta>>
  BY DEF ReadBody, world, store
<1>3. Unread \in HeldType
  BY Zero DEF Unread, HeldType
<1>4. /\ v \in Frame /\ v.ref = w.ref /\ v.pc = "body" /\ v.stage = w.stage
      /\ v.up = w.up /\ v.asOf = w.asOf
  BY <1>1, <1>3 DEF Frame
<1>5. Locals(p, IF w.ref \in DOMAIN body THEN Found(v, m) ELSE Missed(v))
  BY DEF ReadBody
<1>6. Asked(v, clock, LC) /\ LC \in [Digest -> Int]
  <2>1. Asked(w, clock, LC)
    BY <1>1 DEF Timely, Asked, Waiting
  <2>2. QED
    BY <1>1, <1>4, <2>1, LCTyped DEF Asked, Waiting, Dated
<1>7. CASE w.ref \in DOMAIN body
  <2>1. /\ m \in HeldType /\ m.digest \in Digest
        /\ m.digest = w.held.digest /\ m.at = w.held.at
    BY <1>1, <1>7, Files0 DEF Frame, HeldType, Staged
  <2>2. Staged([v EXCEPT !.pc = "meta"])
    BY <1>1, <1>4 DEF Staged, Frame
  <2> HIDE DEF v, m
  <2>3. v.ref = Tag => /\ m.at - LC[m.digest] <= MaxLatency
                       /\ Tag \in DOMAIN meta => meta[Tag].digest = m.digest /\ meta[Tag].at = m.at
                       /\ v.stage = "current" => v.asOf - m.at < TTL
                       /\ v.stage = "refresh" => m.digest = v.up
    BY <1>1, <1>4, <2>1 DEF Timely, Reading
  <2> DEFINE a == LC
             f == meta
  <2>4. /\ a \in [Digest -> Int] /\ Asked(v, clock, a)
        /\ v.ref = Tag => /\ m.at - a[m.digest] <= MaxLatency
                          /\ Tag \in DOMAIN f => f[Tag].digest = m.digest /\ f[Tag].at = m.at
                          /\ v.stage = "current" => v.asOf - m.at < TTL
                          /\ v.stage = "refresh" => m.digest = v.up
    BY <1>6, <2>3
  <2> HIDE DEF a, f
  <2>5. Timely(Found(v, m), clock, a, f)
    BY <1>1, <1>4, <2>1, <2>2, <2>4, TimelyFound
  <2>6. QED
    BY <1>2, <1>5, <1>7, <2>5, TimelyRead DEF a, f
<1>8. CASE w.ref \notin DOMAIN body
  <2>1. Missed(v) = Missed([v EXCEPT !.pc = "meta"]) /\ Staged([v EXCEPT !.pc = "meta"])
    BY <1>1, <1>4 DEF Missed, Frame, Ask, Fetch, ReplyHead, Reply, Look, Staged
  <2> DEFINE u == [v EXCEPT !.pc = "meta"]
  <2>2. /\ u \in Frame /\ u.pc = "meta" /\ u.ref = w.ref /\ u.stage = w.stage
        /\ u.up = w.up /\ u.asOf = w.asOf
    BY <1>1, <1>4 DEF Frame, PC
  <2>3. Staged(u) /\ Missed(v) = Missed(u)
    BY <2>1
  <2> HIDE DEF u, v
  <2>4. Asked(u, clock, LC)
    BY <1>4, <1>6, <2>2 DEF Asked, Waiting
  <2>5. Timely(Missed(u), clock, LC, meta)
    BY <1>6, <2>2, <2>3, <2>4, TimelyMissed
  <2>6. QED
    BY <1>2, <1>5, <1>8, <2>3, <2>5, TimelyRead
<1>9. QED
  BY <1>7, <1>8

LEMMA HeadUpstreamKeepsDated ==
  ASSUME Window, Inv, Dated, NEW p \in Proc, HeadUpstream(p), until' = until PROVE Dated'
<1> DEFINE w == proc[p]
           v == [w EXCEPT !.up = Current(w.ref), !.asOf = Now(w)]
           s == IF w.op = "get" THEN "stale" ELSE "fallback"
           a == LC
           f == meta
           u == Look(v, "matching")
           t == Look(w, s)
<1>1. w \in Frame /\ Staged(w) /\ UNCHANGED <<head, clock, meta>>
  BY FrameOf DEF Inv, HeadUpstream, world, store
<1>2. Current(w.ref) \in Digest /\ Now(w) \in 0..MaxClock
  BY <1>1, Files0, Zero DEF Current, Now, Frame, Key
<1>3. v \in Frame /\ v.ref = w.ref /\ v.up = Current(w.ref) /\ v.asOf = Now(w)
  BY <1>1, <1>2 DEF Frame
<1>4. Locals(p, ReplyHead(v)) \/ Locals(p, u) \/ Locals(p, Reply(w, "failed", Unread)) \/ Locals(p, t)
  BY DEF HeadUpstream
<1>5. Unread \in HeldType /\ clock \in Int /\ MaxLatency \in Nat
  BY Zero, Files0, ManifestAssumption DEF Unread, HeldType
<1>6. a \in [Digest -> Int] /\ a[head] = clock
  BY LCTyped, Files0 DEF Dated, LC, LastCurrent
<1>7. w.ref = Tag => v.up = head /\ v.up \in Digest /\ v.asOf = clock
  BY <1>2, <1>3 DEF Current, Now
<1> HIDE DEF v, s, a, f
<1>8. Timely(ReplyHead(v), clock, a, f)
  BY <1>3, <1>5, <1>6, <1>7, TimelyReplyHead
<1>9. Timely(Reply(w, "failed", Unread), clock, a, f)
  BY <1>1, <1>5, TimelyReply
<1>10. t.pc = "meta" /\ t.stage = s /\ s \in {"stale", "fallback"}
  BY <1>1, LookFields DEF s
<1>11. Timely(t, clock, a, f)
  BY <1>10, Unhurried
<1>12. u.pc = "meta" /\ u.stage = "matching" /\ u.ref = w.ref /\ u.up = v.up /\ u.asOf = v.asOf
  BY <1>3, LookFields
<1> HIDE DEF u, t
<1>13. Timely(u, clock, a, f)
  BY <1>5, <1>6, <1>7, <1>12 DEF Timely, Asked, Waiting, Bringing, Reading, Answering
<1>14. QED
  BY <1>1, <1>4, <1>8, <1>9, <1>11, <1>13, TimelyRead DEF a, f

LEMMA GetUpstreamKeepsDated ==
  ASSUME Inv, Dated, NEW p \in Proc, GetUpstream(p), until' = until PROVE Dated'
<1> DEFINE w == proc[p]
           v == [w EXCEPT !.pc = "stamp", !.up = Current(w.ref), !.asOf = Now(w)]
           a == LC
           f == meta
<1>1. w \in Frame /\ UNCHANGED <<head, clock, meta>>
  BY FrameOf DEF Inv, GetUpstream, world, store
<1>2. /\ v.pc = "stamp" /\ v.ref = w.ref
      /\ w.ref = Tag => v.up = head /\ v.asOf = clock
      /\ w.ref # Tag => v.up = w.ref
  BY <1>1 DEF Frame, Current, Now
<1>3. Locals(p, v) \/ Locals(p, Reply(w, "failed", Unread))
  BY DEF GetUpstream
<1>4. Unread \in HeldType /\ clock \in Int /\ MaxLatency \in Nat /\ head \in Digest
  BY Zero, Files0, ManifestAssumption DEF Unread, HeldType
<1>5. a \in [Digest -> Int] /\ a[head] = clock
  BY LCTyped, Files0 DEF Dated, LC, LastCurrent
<1> HIDE DEF v, a, f
<1>6. Timely(v, clock, a, f)
  BY <1>2, <1>4, <1>5 DEF Timely, Asked, Waiting, Bringing, Reading, Answering
<1>7. Timely(Reply(w, "failed", Unread), clock, a, f)
  BY <1>1, <1>4, TimelyReply
<1>8. QED
  BY <1>1, <1>3, <1>6, <1>7, TimelyRead DEF a, f

LEMMA StampKeepsDated ==
  ASSUME Inv, Dated, NEW p \in Proc, Stamp(p), until' = until PROVE Dated'
<1> DEFINE w == proc[p]
           m == [digest |-> w.up, at |-> Now(w), body |-> w.up]
           a == LC
           f == meta
<1>1. w \in Frame /\ Staged(w) /\ w.pc = "stamp" /\ UNCHANGED <<head, clock, meta>>
  BY FrameOf DEF Inv, Stamp, At, world, store
<1>2. Locals(p, Put(w, m))
  BY DEF Stamp
<1>3. w.up \in Digest /\ Now(w) \in 0..MaxClock
  BY <1>1, Files0, Zero DEF Staged, Now
<1>4. m \in HeldType /\ m.digest = w.up /\ m.at = Now(w)
  BY <1>3 DEF HeldType
<1>5. a \in [Digest -> Int]
  BY LCTyped DEF Dated
<1>6. clock \in Int /\ w.asOf \in Int /\ MaxLatency \in Int
  BY <1>1, Files0, ManifestAssumption DEF Frame
<1>7. w.ref = Tag => w.asOf <= a[w.up] /\ clock - w.asOf <= MaxLatency
  BY <1>1 DEF Dated, Timely, Asked, Waiting
<1>8. w.ref # Tag => w.up = w.ref
  BY <1>1 DEF Dated, Timely
<1> HIDE DEF m, a, f
<1>9. Timely(Put(w, m), clock, a, f)
  BY <1>1, <1>3, <1>4, <1>5, <1>6, <1>7, <1>8, TimelyPut DEF Now
<1>10. QED
  BY <1>1, <1>2, <1>9, TimelyRead DEF a, f

LEMMA TimelyWritten ==
  ASSUME Window, NEW w \in Frame, Staged(w), w.pc = "put", NEW l,
         NEW n, NEW a \in [Digest -> Int], NEW f, w.ref = Tag => w.asOf <= a[w.held.digest]
  PROVE  Timely([Reply(w, "upstream", w.held) EXCEPT !.left = l], n, a, f)
<1> DEFINE r == Reply(w, "upstream", w.held)
           u == [r EXCEPT !.left = l]
<1>1. w.held \in HeldType /\ w.held.digest \in Digest
  BY DEF Frame, Staged
<1>2. /\ r.pc = "done" /\ r.answer = "upstream" /\ r.ref = w.ref
      /\ r.asOf = w.asOf /\ r.held.digest = w.held.digest
  BY <1>1, ReplyFields
<1>3. r \in Frame
  BY <1>1, ReplyFrame
<1> HIDE DEF r
<1>4. u.pc = r.pc /\ u.answer = r.answer /\ u.ref = r.ref /\ u.asOf = r.asOf /\ u.held = r.held
  BY <1>3 DEF Frame
<1> HIDE DEF u
<1>5. w.ref = Tag => w.asOf - a[w.held.digest] < TTL + MaxLatency
  BY <1>1, ManifestAssumption DEF Window, Frame
<1>6. Timely(u, n, a, f)
  BY <1>1, <1>2, <1>4, <1>5 DEF Timely, Asked, Waiting, Bringing, Reading, Answering
<1>7. QED
  BY <1>6 DEF u, r

LEMMA FailsKeepsDated ==
  ASSUME Window, Inv, Dated, NEW p \in Proc, At(p, "put"), Fails(p),
         UNCHANGED <<head, clock, until>>
  PROVE  Dated'
<1> DEFINE w == proc[p]
           u == [Reply(w, "upstream", w.held) EXCEPT !.left = <<>>]
           a == LC
           f == meta
<1>1. w \in Frame /\ Staged(w) /\ w.pc = "put"
  BY FrameOf DEF Inv, At
<1>2. w.ref = Tag => w.asOf <= a[w.held.digest]
  BY <1>1 DEF Dated, Timely, Bringing
<1>3. a \in [Digest -> Int]
  BY LCTyped DEF Dated
<1>4. Locals(p, u) /\ meta' = meta
  BY DEF Fails
<1> HIDE DEF a, f
<1>5. Timely(u, clock, a, f)
  BY <1>1, <1>2, <1>3, TimelyWritten
<1> HIDE DEF u
<1>6. QED
  BY <1>4, <1>5, TimelyRead DEF a, f

(* The files of a digest are written without those of the tag. *)
LEMMA DigestWritten ==
  ASSUME NEW d, NEW l \in DigestWrites(d)
  PROVE  Head(l).key = d /\ (Tail(l) = <<>> \/ Tail(l) \in DigestWrites(d))
<1> DEFINE x == [key |-> d, part |-> "meta"]
           y == [key |-> d, part |-> "body"]
<1>1. x.key = d /\ y.key = d /\ (l = <<x, y>> \/ l = <<y>>) /\ <<y>> \in DigestWrites(d)
  BY DEF DigestWrites
<1> HIDE DEF x, y
<1>2. CASE l = <<x, y>>
  <2>1. Head(l) = x /\ Tail(l) = <<y>>
    BY <1>2, HeadOfThree
  <2>2. QED
    BY <1>1, <2>1
<1>3. CASE l = <<y>>
  <2>1. Head(l) = y /\ Tail(l) = <<>>
    BY <1>3, HeadOfThree
  <2>2. QED
    BY <1>1, <2>1
<1>4. QED
  BY <1>1, <1>2, <1>3

LEMMA SucceedsKeepsDated ==
  ASSUME Window, Inv, Dated, NEW p \in Proc, At(p, "put"), Succeeds(p),
         UNCHANGED <<head, clock, until>>
  PROVE  Dated'
<1> DEFINE w == proc[p]
           d == w.held.digest
           k == Head(w.left).key
           rest == Tail(w.left)
           entry == [digest |-> d, at |-> IF k = Tag THEN w.held.at ELSE 0]
           done == [Reply(w, "upstream", w.held) EXCEPT !.left = rest]
           more == [w EXCEPT !.left = rest]
           a == LC
           f == meta
           g == meta'
<1>1. w \in Frame /\ Staged(w) /\ w.pc = "put" /\ d \in Digest /\ ~At(p, "idle")
  BY FrameOf DEF Inv, At, Staged
<1>2. Timely(w, clock, a, f) /\ FileTimely(a, f)
  BY DEF Dated
<1>3. a \in [Digest -> Int]
  BY LCTyped DEF Dated
<1>4. g = f \/ g = Stored(f, k, entry)
  <2>1. meta' = IF Head(w.left).part = "meta" THEN Stored(meta, k, entry) ELSE meta
    BY DEF Succeeds
  <2> HIDE DEF k, entry
  <2>2. QED
    BY <2>1
<1>5. Locals(p, IF rest = <<>> THEN done ELSE more)
  BY DEF Succeeds
<1>6. more.pc = "put" /\ more.ref = w.ref /\ more.held = w.held /\ more.asOf = w.asOf /\ more.left = rest
  BY <1>1 DEF Frame
<1>7. entry.digest = d /\ (k = Tag => entry.at = w.held.at)
  OBVIOUS
<1> DEFINE v == IF rest = <<>> THEN done ELSE more
<1>8. CASE w.ref = Tag
  <2>1. w.asOf <= a[d] /\ w.held.at - a[d] <= MaxLatency
    BY <1>1, <1>2, <1>8 DEF Timely, Bringing
  <2>2. Timely(done, clock, a, g)
    <3> HIDE DEF a, f, g, rest
    <3>1. QED
      BY <1>1, <1>3, <2>1, TimelyWritten
  <2> HIDE DEF more, done, entry, a, f, g, d, k
  <2>3. Timely(more, clock, a, g)
    BY <1>6, <1>8, <2>1 DEF Timely, Asked, Waiting, Bringing, Reading, Answering, d
  <2>4. FileTimely(a, g)
    BY <1>2, <1>4, <1>7, <2>1 DEF FileTimely, Stored
  <2>5. QED
    BY <1>1, <1>5, <1>8, <2>2, <2>3, <2>4, TimelyStep DEF a, g
<1>9. CASE w.ref # Tag
  <2>1. k = w.ref /\ (rest = <<>> \/ rest \in DigestWrites(w.ref))
    BY <1>1, <1>2, <1>9, DigestWritten DEF Timely
  <2>2. Timely(done, clock, a, g)
    <3> HIDE DEF a, f, g, rest
    <3>1. QED
      BY <1>1, <1>3, <1>9, TimelyWritten
  <2> HIDE DEF more, done, entry, a, f, g, d, k, rest
  <2>3. rest # <<>> => Timely(more, clock, a, g)
    BY <1>6, <1>9, <2>1 DEF Timely
  <2>4. Tag \in DOMAIN g => Tag \in DOMAIN f /\ g[Tag] = f[Tag]
    BY <1>4, <1>9, <2>1 DEF Stored
  <2>5. FileTimely(a, g)
    BY <1>2, <2>4 DEF FileTimely
  <2>6. QED
    BY <1>1, <1>5, <2>2, <2>3, <2>4, <2>5, TimelyStep DEF a, f, g
<1>10. QED
  BY <1>8, <1>9

LEMMA WriteKeepsDated ==
  ASSUME Window, Inv, Dated, NEW p \in Proc, Write(p), until' = until PROVE Dated'
  BY WriteCases, SucceedsKeepsDated, FailsKeepsDated DEF world

(* Nobody else dates a manifest. *)
LEMMA OthersKeepDated ==
  ASSUME Window, Inv, Inv', Dated, MCNext,
         Retag \/ Tick \/ CrashRestart \/ \E e \in Evictors : Pop(e) \/ Unlink(e)
  PROVE  Dated'
<1> DEFINE a == LC
           b == LC'
           f == meta
           g == meta'
           n == clock
           m == clock'
<1>1. Since' /\ \A d \in Digest : a[d] <= b[d]
  BY SinceMoves DEF Dated
<1>2. a \in [Digest -> Int] /\ b \in [Digest -> Int]
  <2>1. a \in [Digest -> Int]
    BY LCTyped DEF Dated
  <2>2. (LC \in [Digest -> Int])'
    BY <1>1 DEF LC, LastCurrent, Since, Inv, TypeOK
  <2>3. QED
    BY <2>1, <2>2
<1>3. Tag \in DOMAIN g => Tag \in DOMAIN f /\ g[Tag] = f[Tag]
  BY DEF Retag, Tick, CrashRestart, Pop, Unlink, store, Less
<1>4. n \in Int /\ m \in Int
  BY Files0 DEF Inv, TypeOK
<1>5. FileTimely(b, g)
  <2> SUFFICES ASSUME Tag \in DOMAIN g PROVE g[Tag].at - b[g[Tag].digest] <= MaxLatency
    BY DEF FileTimely
  <2>1. Tag \in DOMAIN f /\ g[Tag] = f[Tag] /\ f[Tag] \in Meta
    BY <1>3, Files0
  <2>2. f[Tag].at - a[f[Tag].digest] <= MaxLatency
    BY <2>1 DEF Dated, FileTimely
  <2>3. /\ f[Tag].digest \in Digest /\ f[Tag].at \in Int /\ MaxLatency \in Int
        /\ a[f[Tag].digest] \in Int /\ b[f[Tag].digest] \in Int
        /\ a[f[Tag].digest] <= b[f[Tag].digest]
    BY <1>1, <1>2, <2>1, ManifestAssumption DEF Meta
  <2> HIDE DEF a, b, f, g
  <2>4. QED
    BY <2>1, <2>2, <2>3
<1>6. ASSUME NEW p \in Proc PROVE Timely(proc'[p], m, b, g)
  <2>1. CASE CrashRestart
    <3>1. proc'[p] = Idle /\ Idle.pc = "idle"
      BY <2>1, IdleFrame DEF CrashRestart
    <3>2. QED
      BY <3>1, Unhurried
  <2>2. CASE ~CrashRestart
    <3>1. proc' = proc
      BY <2>2 DEF Retag, Tick, Pop, Unlink
    <3> DEFINE w == proc[p]
    <3>2. w \in Frame /\ Staged(w) /\ Timely(w, n, a, f)
      BY FrameOf DEF Inv, Dated
    <3>3. m = n \/ (Waiting(w) => m - w.asOf <= MaxLatency)
      <4>1. CASE Tick
        <5> SUFFICES ASSUME Waiting(w) PROVE m - w.asOf <= MaxLatency
          OBVIOUS
        <5>1. clock - w.asOf < MaxLatency /\ m = n + 1
          BY <4>1 DEF Tick, Waiting, Answered, At
        <5>2. w.asOf \in Int /\ MaxLatency \in Int
          BY <3>2, ManifestAssumption DEF Frame
        <5>3. QED
          BY <1>4, <5>1, <5>2
      <4>2. CASE ~Tick
        BY <2>2, <4>2 DEF Retag, Pop, Unlink, world
      <4>3. QED
        BY <4>1, <4>2
    <3> HIDE DEF w, a, b, f, g, n, m
    <3>4. Timely(w, m, b, g)
      BY <1>1, <1>2, <1>3, <1>4, <3>2, <3>3, TimelyLater
    <3>5. QED
      BY <3>1, <3>4 DEF w
  <2>3. QED
    BY <2>1, <2>2
<1>7. QED
  BY <1>1, <1>5, <1>6 DEF Dated

LEMMA StepKeepsDated ==
  ASSUME Window, Inv, Dated, NEW p \in Proc, Step(p), MCNext PROVE Dated'
<1>1. head' = head
  BY DEF Step, Arrive, ReadMeta, ReadBody, HeadUpstream, GetUpstream, Stamp, Write, Done, world
<1>2. until' = until
  BY <1>1 DEF MCNext
<1>3. QED
  BY <1>2, ArriveKeepsDated, ReadMetaKeepsDated, ReadBodyKeepsDated, HeadUpstreamKeepsDated,
     GetUpstreamKeepsDated, StampKeepsDated, WriteKeepsDated, DoneKeepsDated DEF Step

LEMMA HistoryKeepsDated ==
  Window /\ Inv /\ Inv' /\ Dated /\ [MCNext]_<<vars, until, torn>> => Dated'
<1> SUFFICES ASSUME Window, Inv, Inv', Dated, [MCNext]_<<vars, until, torn>> PROVE Dated'
  OBVIOUS
<1>1. CASE UNCHANGED <<vars, until, torn>>
  BY <1>1 DEF vars, Dated, Since, LC, LastCurrent
<1>2. CASE MCNext
  BY <1>2, StepKeepsDated, OthersKeepDated DEF MCNext, Next
<1>3. QED
  BY <1>1, <1>2

LEMMA InitDated == ASSUME MCInit PROVE Dated
<1>1. Never \in Int /\ Never <= 0
  BY ManifestAssumption DEF Never
<1>2. Since /\ FileTimely(LC, meta)
  BY <1>1 DEF MCInit, Init, Since, FileTimely
<1>3. \A p \in Proc : Timely(proc[p], clock, LC, meta)
  BY IdleFrame, Unhurried DEF MCInit, Init
<1>4. QED
  BY <1>2, <1>3 DEF Dated

(* A tag served from the cache without asking upstream, or after asking    *)
(* it, was upstream's less than TTL ago, give or take what its answer took *)
(* to be stored: through evictions, failing writes, crashes and the reads  *)
(* of two files one after the other.  With a TTL and a latency of nothing  *)
(* no answer could be that young, hence the hypothesis.                    *)
THEOREM TagsStayFresh == ASSUME 0 < TTL + MaxLatency PROVE MCSpec => []TagsFresh
<1>1. Window
  BY DEF Window
<1>2. Inv /\ Dated => TagsFresh
  BY FrameOf DEF Dated, Timely, Answering, TagsFresh, LC, At
<1>3. MCInit => Dated
  BY InitDated
<1>4. QED
  BY <1>1, <1>2, <1>3, HistoryKeepsDated, HistoryHasInv, PTL DEF MCSpec
=============================================================================
