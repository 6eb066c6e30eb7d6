--------------------------- MODULE ManifestCache ---------------------------
(***************************************************************************)
(* Concurrent GET and HEAD requests for one tag of an image and for the    *)
(* manifests it has pointed at, each kept as a .meta and a .body file.     *)
(* The evictor's index, which these keys share with every blob, is left    *)
(* out: evictions are processes of their own, and strike any key that has  *)
(* a file at any time.                                                     *)
(***************************************************************************)
EXTENDS Integers, Sequences, FiniteSets

CONSTANTS Digest,      \* manifests the tag may point at
          Tag,
          Proc,        \* goroutines serving requests
          Evictors,    \* goroutines running evictIfNeeded or freeDisk
          TTL,         \* TAG_TTL, in ticks of the clock
          MaxClock,    \* bound: no tick after that many
          MaxLatency,  \* bound: ticks from upstream's answer to the time stamp
          Faults,      \* failures the environment may inject
          Nobody

ASSUME ManifestAssumption ==
  /\ Tag \notin Digest /\ Nobody \notin Proc \cup Digest
  /\ TTL \in Nat /\ MaxClock \in Nat /\ MaxLatency \in Nat
  /\ Faults \subseteq {"upstream", "write", "unlink"}

VARIABLES head,      \* what upstream's tag points at
          clock,     \* time.Now()
          meta,      \* .meta files: the digest and the FetchedAt they hold
          body,      \* .body files: the manifest they hold
          evicting,  \* the victim of each evictor, and its next file
          keyLock,   \* who holds the mutex of each lock key
          proc       \* program counter and locals of each goroutine

vars == <<head, clock, meta, body, evicting, keyLock, proc>>
world == <<head, clock>>
store == <<meta, body, evicting>>

Key == Digest \cup {Tag}
Meta == [digest : Digest, at : 0..MaxClock]

Unread == [digest |-> Nobody, at |-> 0, body |-> Nobody]

PC == {"idle", "meta", "body", "ask", "fetch", "stamp", "put", "done"}

(* Which of the interactors' reads of the cache a goroutine is at. *)
Stage == {"none", "trusted", "current", "matching", "refresh", "stale",
          "digest", "known", "fallback"}

Idle == [pc |-> "idle", op |-> "get", ref |-> Tag, stage |-> "none",
         up |-> Nobody, asOf |-> 0, held |-> Unread,
         left |-> <<>>, answer |-> "none"]

TypeOK ==
  /\ head \in Digest /\ clock \in 0..MaxClock
  /\ DOMAIN meta \subseteq Key /\ \A k \in DOMAIN meta : meta[k] \in Meta
  /\ DOMAIN body \subseteq Key /\ \A k \in DOMAIN body : body[k] \in Digest
  /\ evicting \in [Evictors -> [pc : {"idle", "meta", "body"}, key : Key]]
  /\ keyLock \in [Key -> Proc \cup {Nobody}]
  /\ proc \in [Proc -> [pc : PC, op : {"get", "head"}, ref : Key, stage : Stage,
                        up : Digest \cup {Nobody}, asOf : 0..MaxClock,
                        held : [digest : Digest \cup {Nobody}, at : 0..MaxClock,
                                body : Digest \cup {Nobody}],
                        left : Seq([key : Key, part : {"meta", "body"}]),
                        answer : {"none", "fresh", "upstream", "stale", "digest", "failed"}]]

Init ==
  /\ head \in Digest /\ clock = 0
  /\ meta = [k \in {} |-> Unread] /\ body = [k \in {} |-> Nobody]
  /\ evicting = [e \in Evictors |-> [pc |-> "idle", key |-> Tag]]
  /\ keyLock = [k \in Key |-> Nobody]
  /\ proc = [p \in Proc |-> Idle]

At(p, pc) == proc[p].pc = pc
Locals(p, w) == proc' = [proc EXCEPT ![p] = w]

-----------------------------------------------------------------------------
(* What a goroutine does next, as operators on its locals. *)
Look(w, stage) == [w EXCEPT !.pc = "meta", !.stage = stage]
Ask(w) == [w EXCEPT !.pc = "ask"]
Fetch(w) == [w EXCEPT !.pc = "fetch", !.stage = "none", !.up = Nobody, !.asOf = 0]
Reply(w, answer, m) ==
  [w EXCEPT !.pc = "done", !.stage = "none", !.up = Nobody, !.answer = answer,
            !.held = [m EXCEPT !.at = 0]]

(* Only under a tag does anything depend on the time. *)
Now(w) == IF w.ref = Tag THEN clock ELSE 0

(* HEAD answers with upstream's headers; it has no body to be wrong about. *)
ReplyHead(w) ==
  Reply(w, "upstream", [digest |-> w.up, at |-> 0, body |-> w.up])

(* PutManifest's writes, in order: a tag's manifest is stored under its    *)
(* digest too.                                                             *)
Files(k) == <<[key |-> k, part |-> "meta"], [key |-> k, part |-> "body"]>>

Put(w, m) ==
  [w EXCEPT !.pc = "put", !.stage = "none", !.up = Nobody, !.held = m,
            !.left = IF w.ref = Tag THEN Files(Tag) \o Files(m.digest) ELSE Files(w.ref)]

(* Mutant of Fresh: the window is a tick too long. *)
FreshToo(m) == clock - m.at <= TTL

Fresh(m) == clock - m.at < TTL

(* The cache holds the manifest m under w.ref. *)
Found(w, m) ==
  CASE w.stage = "trusted" /\ Fresh(m) ->
         IF w.op = "get" THEN Look([w EXCEPT !.asOf = clock], "current")
                         ELSE Reply([w EXCEPT !.asOf = clock], "fresh", m)
    [] w.stage = "trusted" /\ ~Fresh(m) -> Ask(w)
    [] w.stage = "current" -> Reply(w, "fresh", m)
    [] w.stage = "matching" /\ m.digest = w.up -> Look(w, "refresh")
    [] w.stage = "matching" /\ m.digest # w.up ->
         IF w.op = "get" THEN Fetch(w) ELSE ReplyHead(w)
    [] w.stage = "refresh" -> Put(w, [m EXCEPT !.at = clock])
    [] w.stage \in {"digest", "known"} -> Reply(w, "digest", m)
    [] w.stage \in {"stale", "fallback"} -> Reply(w, "stale", m)

(* One of the two files is missing. *)
Missed(w) ==
  CASE w.stage \in {"trusted", "current"} -> Ask(w)
    [] w.stage \in {"matching", "refresh"} ->
         IF w.op = "get" THEN Fetch(w) ELSE ReplyHead(w)
    [] w.stage \in {"digest", "stale"} -> Fetch(w)
    [] w.stage = "known" -> Look(w, "fallback")
    [] w.stage = "fallback" -> Ask(w)

-----------------------------------------------------------------------------
First(w) ==
  CASE w.ref = Tag -> "trusted"
    [] w.ref # Tag /\ w.op = "get" -> "digest"
    [] w.ref # Tag /\ w.op = "head" -> "known"

Begin(p, op, k) ==
  LET w == [Idle EXCEPT !.op = op, !.ref = k] IN Locals(p, Look(w, First(w)))

(* Mutant of Arrive: nobody waits for the lock. *)
ArriveUnlocked(p) ==
  /\ At(p, "idle")
  /\ \E op \in {"get", "head"}, k \in Key :
       /\ keyLock' = [keyLock EXCEPT ![k] = p]
       /\ Begin(p, op, k)
  /\ UNCHANGED <<world, store>>

(* A request that has the lock of its reference; while it waits for it, it *)
(* reads and changes nothing.                                              *)
Arrive(p) ==
  /\ At(p, "idle")
  /\ \E op \in {"get", "head"}, k \in Key :
       /\ keyLock[k] = Nobody
       /\ keyLock' = [keyLock EXCEPT ![k] = p]
       /\ Begin(p, op, k)
  /\ UNCHANGED <<world, store>>

(* GetManifest and ManifestExists: the metadata first, the body after it.  *)
ReadMeta(p) ==
  LET w == proc[p] IN
  /\ At(p, "meta")
  /\ Locals(p, IF w.ref \in DOMAIN meta
                 THEN [w EXCEPT !.pc = "body", !.held = [digest |-> meta[w.ref].digest,
                                                         at |-> meta[w.ref].at,
                                                         body |-> Nobody]]
                 ELSE Missed(w))
  /\ UNCHANGED <<world, store, keyLock>>

ReadBody(p) ==
  LET w == proc[p] IN
  /\ At(p, "body")
  /\ Locals(p, IF w.ref \in DOMAIN body
                 THEN Found([w EXCEPT !.held = Unread],
                            [w.held EXCEPT !.body = body[w.ref]])
                 ELSE Missed([w EXCEPT !.held = Unread]))
  /\ UNCHANGED <<world, store, keyLock>>

-----------------------------------------------------------------------------
(* Mutant of Current: the tag is taken for a digest. *)
CurrentUnresolved(ref) == ref

(* What upstream holds under a reference. *)
Current(ref) == IF ref = Tag THEN head ELSE ref

(* Upstream's HEAD.  After a fallback its answer is the request's; before, *)
(* it is what the cache is compared with, and its failure is survived.     *)
HeadUpstream(p) ==
  LET w == proc[p]
      v == [w EXCEPT !.up = Current(w.ref), !.asOf = Now(w)]
  IN
  /\ At(p, "ask")
  /\ \/ Locals(p, IF w.stage = "fallback" THEN ReplyHead(v) ELSE Look(v, "matching"))
     \/ /\ "upstream" \in Faults
        /\ Locals(p, IF w.stage = "fallback" THEN Reply(w, "failed", Unread)
                     ELSE Look(w, IF w.op = "get" THEN "stale" ELSE "fallback"))
  /\ UNCHANGED <<world, store, keyLock>>

GetUpstream(p) ==
  LET w == proc[p] IN
  /\ At(p, "fetch")
  /\ \/ Locals(p, [w EXCEPT !.pc = "stamp", !.up = Current(w.ref), !.asOf = Now(w)])
     \/ "upstream" \in Faults /\ Locals(p, Reply(w, "failed", Unread))
  /\ UNCHANGED <<world, store, keyLock>>

(* Mutant of Stamp: the digest is from one answer, the body from another.  *)
StampLater(p) ==
  LET w == proc[p] IN
  /\ At(p, "stamp")
  /\ Locals(p, Put(w, [digest |-> w.up, at |-> Now(w), body |-> Current(w.ref)]))
  /\ UNCHANGED <<world, store, keyLock>>

(* FetchedAt is taken when the answer has arrived. *)
Stamp(p) ==
  LET w == proc[p] IN
  /\ At(p, "stamp")
  /\ Locals(p, Put(w, [digest |-> w.up, at |-> Now(w), body |-> w.up]))
  /\ UNCHANGED <<world, store, keyLock>>

(* A file is renamed into place. *)
Stored(files, k, content) ==
  [x \in DOMAIN files \cup {k} |-> IF x = k THEN content ELSE files[x]]

(* Mutant of Write: a failing write does not skip the later ones. *)
WriteOn(p) ==
  LET w    == proc[p]
      k    == Head(w.left).key
      rest == Tail(w.left)
      next == IF rest = <<>> THEN Reply(w, "upstream", w.held) ELSE w
  IN
  /\ At(p, "put")
  /\ Locals(p, [next EXCEPT !.left = rest])
  /\ \/ /\ Head(w.left).part = "meta"
        /\ meta' = Stored(meta, k, [digest |-> w.held.digest, at |-> w.held.at])
        /\ UNCHANGED body
     \/ /\ Head(w.left).part = "body"
        /\ body' = Stored(body, k, w.held.body)
        /\ UNCHANGED meta
     \/ "write" \in Faults /\ UNCHANGED <<meta, body>>
  /\ UNCHANGED <<world, evicting, keyLock>>

(* One write of PutManifest.  If it fails the later ones are skipped, and  *)
(* the manifest is served all the same.  Nobody reads FetchedAt under a    *)
(* digest.                                                                 *)
Write(p) ==
  LET w    == proc[p]
      k    == Head(w.left).key
      part == Head(w.left).part
      rest == Tail(w.left)
      done == Reply(w, "upstream", w.held)
  IN
  /\ At(p, "put")
  /\ \/ /\ meta' = IF part = "meta"
                     THEN Stored(meta, k, [digest |-> w.held.digest,
                                           at |-> IF k = Tag THEN w.held.at ELSE 0])
                     ELSE meta
        /\ body' = IF part = "body" THEN Stored(body, k, w.held.body) ELSE body
        /\ Locals(p, [(IF rest = <<>> THEN done ELSE w) EXCEPT !.left = rest])
     \/ /\ "write" \in Faults
        /\ Locals(p, [done EXCEPT !.left = <<>>])
        /\ UNCHANGED <<meta, body>>
  /\ UNCHANGED <<world, evicting, keyLock>>

Done(p) ==
  /\ At(p, "done")
  /\ keyLock' = [keyLock EXCEPT ![proc[p].ref] = Nobody]
  /\ Locals(p, Idle)
  /\ UNCHANGED <<world, store>>

-----------------------------------------------------------------------------
(* An eviction: out of the index, then one file, then the other.  No lock  *)
(* of a reference is held.                                                 *)
Pop(e) ==
  /\ evicting[e].pc = "idle"
  /\ \E k \in DOMAIN meta \cup DOMAIN body :
       evicting' = [evicting EXCEPT ![e] = [pc |-> "meta", key |-> k]]
  /\ UNCHANGED <<world, meta, body, keyLock, proc>>

Less(files, k) == [x \in DOMAIN files \ {k} |-> files[x]]

Unlink(e) ==
  LET k == evicting[e].key IN
  /\ \/ /\ evicting[e].pc = "meta"
        /\ evicting' = [evicting EXCEPT ![e].pc = "body"]
        /\ meta' = Less(meta, k) \/ ("unlink" \in Faults /\ meta' = meta)
        /\ UNCHANGED body
     \/ /\ evicting[e].pc = "body"
        /\ evicting' = [evicting EXCEPT ![e] = [pc |-> "idle", key |-> Tag]]
        /\ body' = Less(body, k) \/ ("unlink" \in Faults /\ body' = body)
        /\ UNCHANGED meta
  /\ UNCHANGED <<world, keyLock, proc>>

-----------------------------------------------------------------------------
(* The environment: the tag is moved, time passes. *)
Retag ==
  /\ \E d \in Digest \ {head} : head' = d
  /\ UNCHANGED <<clock, store, keyLock, proc>>

Answered(p) ==
  /\ proc[p].ref = Tag
  /\ \/ At(p, "stamp")
     \/ proc[p].pc \in {"meta", "body"} /\ proc[p].stage \in {"matching", "refresh"}

Tick ==
  /\ clock < MaxClock
  /\ \A p \in Proc : Answered(p) => clock - proc[p].asOf < MaxLatency
  /\ clock' = clock + 1
  /\ UNCHANGED <<head, store, keyLock, proc>>

(* The process dies and a new one starts; what it had on disk stays. *)
CrashRestart ==
  /\ evicting' = [e \in Evictors |-> [pc |-> "idle", key |-> Tag]]
  /\ keyLock' = [k \in Key |-> Nobody]
  /\ proc' = [p \in Proc |-> Idle]
  /\ UNCHANGED <<world, meta, body>>

Step(p) ==
  \/ Arrive(p) \/ ReadMeta(p) \/ ReadBody(p) \/ HeadUpstream(p)
  \/ GetUpstream(p) \/ Stamp(p) \/ Write(p) \/ Done(p)

Next ==
  \/ \E p \in Proc : Step(p)
  \/ \E e \in Evictors : Pop(e) \/ Unlink(e)
  \/ Retag \/ Tick

(* One life of the process. *)
Spec == Init /\ [][Next]_vars

-----------------------------------------------------------------------------
(* At most one request at a time fetches and stores a reference. *)
Storing(p) == proc[p].pc \in {"fetch", "stamp", "put"}

OneFetch ==
  \A p, q \in Proc : p # q /\ Storing(p) /\ Storing(q) => proc[p].ref # proc[q].ref

(* docs/configuration.md: "Digest manifests and blobs are immutable":      *)
(* under a digest the cache never holds another manifest's body.           *)
DigestsImmutable == \A d \in Digest \cap DOMAIN body : body[d] = d

(* A manifest is served with the digest of its body.                       *)
ServedWhole ==
  \A p \in Proc : At(p, "done") => proc[p].held.body = proc[p].held.digest
=============================================================================
