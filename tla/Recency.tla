------------------------------ MODULE Recency ------------------------------
(***************************************************************************)
(* How the order of last access survives a restart: touches are flushed to *)
(* the mtimes of the files, at most once per touchPersistInterval for an   *)
(* entry and after evictor.mu is released, and a new evictor sorts what it *)
(* finds by mtime.  Entries larger than the cap are cold, and not touched. *)
(* The sizes and the order of the list, which Evictor models, are left     *)
(* out: any entry may be cold, and eviction takes any entry at any time.   *)
(***************************************************************************)
EXTENDS Integers, FiniteSets

CONSTANTS Key,       \* paths an entry may be stored under
          Proc,      \* goroutines
          Interval,  \* touchPersistInterval, in ticks
          MaxLate,   \* bound: ticks from a reading of the clock to its use
          MaxClock   \* bound: no tick after that many

ASSUME RecencyAssumption ==
  /\ Key # {}
  /\ Interval \in Nat \ {0} /\ MaxLate \in Nat /\ MaxClock \in Nat

VARIABLES clock,      \* time.Now()
          mtime,      \* of each file under the cache root
          persisted,  \* persistedAt of each entry of the index
          cold,       \* the entries that are cold
          proc,       \* program counter and locals of each goroutine
          lastUse     \* history: when each key was last stored or touched

vars == <<clock, mtime, persisted, cold, proc, lastUse>>

PC == {"idle", "touch", "flush", "rename", "add", "unlink"}

TypeOK ==
  /\ clock \in 0..MaxClock
  /\ DOMAIN mtime \subseteq Key /\ \A k \in DOMAIN mtime : mtime[k] \in 0..clock
  /\ DOMAIN persisted \subseteq Key
  /\ \A k \in DOMAIN persisted : persisted[k] \in 0..clock
  /\ cold \subseteq DOMAIN persisted
  /\ proc \in [Proc -> [pc : PC, key : Key, now : 0..clock]]
  /\ lastUse \in [Key -> 0..clock]

AnyKey == CHOOSE k \in Key : TRUE
Idle == [pc |-> "idle", key |-> AnyKey, now |-> 0]

Init ==
  /\ clock = 0
  /\ mtime = [k \in {} |-> 0] /\ persisted = [k \in {} |-> 0] /\ cold = {}
  /\ proc = [p \in Proc |-> Idle]
  /\ lastUse = [k \in Key |-> 0]

At(p, pc) == proc[p].pc = pc
Locals(p, w) == proc' = [proc EXCEPT ![p] = w]
Finish(p) == Locals(p, Idle)

Set(f, k, t) == [x \in DOMAIN f \cup {k} |-> IF x = k THEN t ELSE f[x]]
Less(f, k) == [x \in DOMAIN f \ {k} |-> f[x]]
Later(s, t) == IF s < t THEN t ELSE s

-----------------------------------------------------------------------------
(* touch reads the clock before it waits for evictor.mu. *)
Touch(p) ==
  /\ At(p, "idle")
  /\ \E k \in Key : Locals(p, [pc |-> "touch", key |-> k, now |-> clock])
  /\ UNCHANGED <<clock, mtime, persisted, cold, lastUse>>

(* Mutants of Marked: every touch counts as flushed; a flush counts only   *)
(* when it is done.                                                        *)
MarkedAlways(k, now, persist) ==
  IF k \in DOMAIN persisted THEN Set(persisted, k, now) ELSE persisted

MarkedLater(k, now, persist) == persisted

Marked(k, now, persist) ==
  IF persist THEN Set(persisted, k, now) ELSE persisted

(* The critical section of touch: the entry, if it is still listed and not *)
(* cold, counts as flushed now if its last flush is an interval ago.       *)
Bump(p) ==
  LET k == proc[p].key
      now == proc[p].now
      persist == k \in DOMAIN persisted \ cold /\ now - persisted[k] >= Interval
  IN
  /\ At(p, "touch")
  /\ persisted' = Marked(k, now, persist)
  /\ IF persist THEN Locals(p, [proc[p] EXCEPT !.pc = "flush"]) ELSE Finish(p)
  /\ lastUse' = IF k \in DOMAIN persisted
                  THEN [lastUse EXCEPT ![k] = Later(@, now)] ELSE lastUse
  /\ UNCHANGED <<clock, mtime, cold>>

(* Mutant of Flush: the file is given the time of the call. *)
FlushNow(p) ==
  LET k == proc[p].key IN
  /\ At(p, "flush")
  /\ mtime' = IF k \in DOMAIN mtime THEN [mtime EXCEPT ![k] = clock] ELSE mtime
  /\ Finish(p)
  /\ UNCHANGED <<clock, persisted, cold, lastUse>>

(* Chtimes, on whatever is stored under the path by now. *)
Flush(p) ==
  LET k == proc[p].key IN
  /\ At(p, "flush")
  /\ mtime' = IF k \in DOMAIN mtime THEN [mtime EXCEPT ![k] = proc[p].now] ELSE mtime
  /\ Finish(p)
  /\ UNCHANGED <<clock, persisted, cold, lastUse>>

-----------------------------------------------------------------------------
(* The last bytes of a download, or a manifest, go to a temp file, *)
Write(p) ==
  /\ At(p, "idle")
  /\ \E k \in Key : Locals(p, [pc |-> "rename", key |-> k, now |-> clock])
  /\ UNCHANGED <<clock, mtime, persisted, cold, lastUse>>

(* it is renamed into place with the mtime it has from that,               *)
Store(p) ==
  LET k == proc[p].key IN
  /\ At(p, "rename")
  /\ mtime' = Set(mtime, k, proc[p].now)
  /\ lastUse' = [lastUse EXCEPT ![k] = clock]
  /\ Locals(p, [proc[p] EXCEPT !.pc = "add"])
  /\ UNCHANGED <<clock, persisted, cold>>

(* and added to the index, in place of an older entry if there is one.     *)
Add(p) ==
  LET k == proc[p].key IN
  /\ At(p, "add")
  /\ persisted' = Set(persisted, k, clock)
  /\ cold' \in {cold \ {k}, cold \cup {k}}
  /\ Finish(p)
  /\ UNCHANGED <<clock, mtime, lastUse>>

(* Victims leave the index under evictor.mu and are unlinked after it. *)
Pop(p) ==
  /\ At(p, "idle")
  /\ \E k \in DOMAIN persisted :
       /\ persisted' = Less(persisted, k)
       /\ cold' = cold \ {k}
       /\ Locals(p, [pc |-> "unlink", key |-> k, now |-> clock])
  /\ UNCHANGED <<clock, mtime, lastUse>>

Unlink(p) ==
  /\ At(p, "unlink")
  /\ mtime' = Less(mtime, proc[p].key)
  /\ Finish(p)
  /\ UNCHANGED <<clock, persisted, cold, lastUse>>

-----------------------------------------------------------------------------
(* What is about to reach the disk or the index is lost in a crash. *)
Pending(k) == \E p \in Proc : proc[p].key = k /\ proc[p].pc \in {"flush", "add"}

(* Nothing is ever flushed of a cold entry. *)
Settled(k) == k \in (DOMAIN persisted \cap DOMAIN mtime) \ cold /\ ~Pending(k)

(* The process dies and a new one indexes the files, none of them as cold. *)
(* Of a use that was not settled the file alone tells, so history starts   *)
(* again from there.                                                       *)
Restart ==
  /\ persisted' = mtime
  /\ cold' = {}
  /\ proc' = [p \in Proc |-> Idle]
  /\ lastUse' = [k \in Key |-> IF k \in DOMAIN mtime /\ ~Settled(k)
                                 THEN mtime[k] ELSE lastUse[k]]
  /\ UNCHANGED <<clock, mtime>>

Tick ==
  /\ clock < MaxClock
  /\ \A p \in Proc : ~At(p, "idle") => clock - proc[p].now < MaxLate
  /\ clock' = clock + 1
  /\ UNCHANGED <<mtime, persisted, cold, proc, lastUse>>

Next ==
  \/ \E p \in Proc :
       \/ Touch(p) \/ Bump(p) \/ Flush(p) \/ Write(p) \/ Store(p) \/ Add(p)
       \/ Pop(p) \/ Unlink(p)
  \/ Restart
  \/ Tick

Spec == Init /\ [][Next]_vars

-----------------------------------------------------------------------------
(* docs/configuration.md: "Last access survives restarts".  Of two entries *)
(* the one used later, by an interval and the time two calls may be late,  *)
(* has the younger file, so a new evictor puts it nearer the front:        *)
(* whatever was touched, flushed late, evicted, stored again or lost in    *)
(* earlier restarts.  But for what is too large for the cap: the uses of   *)
(* a cold entry reach no file, and a restart takes its download for its    *)
(* last use.                                                               *)
Slack == Interval + 2 * MaxLate

OrderSurvives ==
  \A a, b \in Key :
    Settled(a) /\ Settled(b) /\ lastUse[a] - lastUse[b] >= Slack => mtime[a] > mtime[b]

(* A file never looks used more recently than it was. *)
NeverYounger == \A k \in DOMAIN mtime : mtime[k] <= lastUse[k]
=============================================================================
