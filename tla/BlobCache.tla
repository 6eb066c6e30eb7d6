----------------------------- MODULE BlobCache -----------------------------
(***************************************************************************)
(* Concurrent GET and HEAD requests for blobs: the cache-through of the    *)
(* interactor, the atomic writer, the evictor and the disk ledger, over    *)
(* one filesystem.  A step is one critical section or one system call.     *)
(***************************************************************************)
EXTENDS EvictorIndex

CONSTANTS Proc,       \* goroutines serving requests
          Size,       \* bytes of each blob, as upstream holds it
          Capacity,   \* bytes the filesystem can hold
          Caps,       \* whether MAX_STORAGE may be set: a subset of BOOLEAN
          Announce,   \* whether upstream sends a Content-Length: a subset
                      \* of BOOLEAN, one value drawn per response
          StatfsOk,   \* whether statfs succeeds: a subset of BOOLEAN
          Faults,     \* failures the environment may inject
          MaxLeaked,  \* bound: no crash or close failure past that many
                      \* bytes of abandoned temp files
          Nobody

ASSUME BlobAssumption ==
  /\ IsFiniteSet(Proc) /\ Nobody \notin Proc /\ Key # {}
  /\ Size \in [Key -> 0..MaxEntry]
  /\ Capacity \in Nat /\ MaxLeaked \in Nat
  /\ Caps \subseteq BOOLEAN
  /\ Announce \subseteq BOOLEAN /\ StatfsOk \subseteq BOOLEAN
  /\ Faults \subseteq {"create", "upstream", "stream", "close", "remove", "unlink", "crash"}

VARIABLES capped,   \* MAX_STORAGE is set: the evictor is not nil
          index,    \* the evictor's index, empty while it is nil
          pending,  \* diskLedger.pending
          ledger,   \* who holds diskLedger.mu across freeDisk
          keyLock,  \* who holds the mutex of each blob's lock key
          linked,   \* size of each committed blob file
          reading,  \* who has a handle on the committed file
          orphans,  \* unlinked files kept by open handles: [size, by]
          leaked,   \* bytes of temp files nobody will remove
          proc      \* program counter and locals of each goroutine

vars == <<capped, index, pending, ledger, keyLock,
          linked, reading, orphans, leaked, proc>>
mem  == <<capped, pending, ledger, keyLock>>
disk == <<linked, reading, orphans, leaked>>

PC == {"idle", "stat", "head", "lock", "open", "touch", "serve", "put",
       "fetch", "reserve", "claim", "measure", "free", "copy", "landed",
       "book", "close", "settle", "settleDisk", "add", "reopen", "remove",
       "evict", "unlink", "unlock"}

Answers == {"none", "ok", "notFound", "badGateway", "insufficient"}

Idle(k) == [pc |-> "idle", key |-> k, answer |-> "none", tmp |-> FALSE,
            written |-> 0, booked |-> 0, due |-> 0, oversized |-> FALSE, victims |-> <<>>, then |-> "idle"]

AnyKey == CHOOSE k \in Key : TRUE

TypeOK ==
  /\ capped \in Caps
  /\ pending \in Nat
  /\ ledger \in Proc \cup {Nobody}
  /\ keyLock \in [Key -> Proc \cup {Nobody}]
  /\ DOMAIN linked \subseteq Key /\ \A k \in DOMAIN linked : linked[k] \in 0..MaxEntry
  /\ reading \in [Key -> SUBSET Proc]
  /\ orphans \subseteq [size : 0..MaxEntry, by : (SUBSET Proc) \ {{}}]
  /\ leaked \in Nat
  /\ proc \in [Proc -> [pc : PC, key : Key,
                        answer : Answers, tmp : BOOLEAN, written : 0..MaxEntry,
                        booked : 0..MaxEntry, due : 0..MaxEntry,
                        oversized : BOOLEAN, victims : Seq(Key), then : PC]]

-----------------------------------------------------------------------------
Empty == [lru |-> <<>>, entries |-> [k \in {} |-> 0], used |-> 0, inflight |-> 0]

Init ==
  /\ capped \in Caps
  /\ index = Empty
  /\ pending = 0 /\ ledger = Nobody
  /\ keyLock = [k \in Key |-> Nobody]
  /\ linked = [k \in {} |-> 0] /\ reading = [k \in Key |-> {}]
  /\ orphans = {} /\ leaked = 0
  /\ proc = [p \in Proc |-> Idle(AnyKey)]

(* Temp files hold written bytes; an unlinked file holds its own until the *)
(* last handle on it is closed.                                            *)
TempBytes == Total([p \in {q \in Proc : proc[q].tmp} |-> proc[p].written])
DiskUse == Total(linked) + TempBytes + Total([o \in orphans |-> o.size]) + leaked
Free == Capacity - DiskUse

At(p, pc) == proc[p].pc = pc
Locals(p, r) == proc' = [proc EXCEPT ![p] = r]
Goto(p, pc) == Locals(p, [proc[p] EXCEPT !.pc = pc])
Unlock(p) == keyLock' = [keyLock EXCEPT ![proc[p].key] = Nobody]
Finish(p) == Locals(p, Idle(AnyKey))

-----------------------------------------------------------------------------
(* A request for a blob; HEAD looks for the file before it takes the lock. *)
Arrive(p) ==
  /\ At(p, "idle")
  /\ \E k \in Key, first \in {"lock", "stat"} :
       Locals(p, [Idle(k) EXCEPT !.pc = first])
  /\ UNCHANGED <<index, mem, disk>>

Stat(p) ==
  /\ At(p, "stat")
  /\ Goto(p, IF proc[p].key \in DOMAIN linked THEN "head" ELSE "lock")
  /\ UNCHANGED <<index, mem, disk>>

TouchHead(p) ==
  /\ At(p, "head")
  /\ index' = Touched(index, proc[p].key)
  /\ Finish(p)
  /\ UNCHANGED <<mem, disk>>

(* Mutant of Lock: nobody waits. *)
LockShared(p) ==
  /\ At(p, "lock")
  /\ keyLock' = [keyLock EXCEPT ![proc[p].key] = p]
  /\ Goto(p, "open")
  /\ UNCHANGED <<index, capped, pending, ledger, disk>>

Lock(p) ==
  /\ At(p, "lock")
  /\ keyLock[proc[p].key] = Nobody
  /\ keyLock' = [keyLock EXCEPT ![proc[p].key] = p]
  /\ Goto(p, "open")
  /\ UNCHANGED <<index, capped, pending, ledger, disk>>

(* OpenBlob before the download, and again after it: only the second time  *)
(* is a missing file an error.                                             *)
Open(p) ==
  LET k == proc[p].key IN
  /\ At(p, "open") \/ At(p, "reopen")
  /\ IF k \in DOMAIN linked
       THEN /\ reading' = [reading EXCEPT ![k] = @ \cup {p}]
            /\ Goto(p, "touch")
       ELSE /\ IF At(p, "open") THEN Goto(p, "put")
               ELSE Locals(p, [proc[p] EXCEPT !.pc = "unlock", !.answer = "notFound"])
            /\ UNCHANGED reading
  /\ UNCHANGED <<index, mem, linked, orphans, leaked>>

(* OpenBlob returns, and with it the interactor. *)
Touch(p) ==
  /\ At(p, "touch")
  /\ index' = Touched(index, proc[p].key)
  /\ Unlock(p)
  /\ Locals(p, [Idle(proc[p].key) EXCEPT !.pc = "serve", !.answer = "ok"])
  /\ UNCHANGED <<capped, pending, ledger, disk>>

(* ServeContent ends, or HEAD drops the content, and the handle is closed. *)
Serve(p) ==
  LET k == proc[p].key IN
  /\ At(p, "serve")
  /\ reading' = [reading EXCEPT ![k] = @ \ {p}]
  /\ orphans' = {o \in {[f EXCEPT !.by = @ \ {p}] : f \in orphans} : o.by # {}}
  /\ Finish(p)
  /\ UNCHANGED <<index, mem, linked, leaked>>

Leave(p) ==
  /\ At(p, "unlock")
  /\ Unlock(p)
  /\ Finish(p)
  /\ UNCHANGED <<index, capped, pending, ledger, disk>>

-----------------------------------------------------------------------------
(* PutBlob. *)
CreateTemp(p) ==
  /\ At(p, "put")
  /\ \/ Locals(p, [proc[p] EXCEPT !.pc = "fetch", !.tmp = TRUE])
     \/ /\ "create" \in Faults
        /\ Locals(p, [proc[p] EXCEPT !.pc = "unlock", !.answer = "badGateway"])
  /\ UNCHANGED <<index, mem, disk>>

(* Mutant of Fail: Abort only removes the temp file. *)
FailUnsettled(p, answer) ==
  Locals(p, [proc[p] EXCEPT !.pc = "remove", !.answer = answer])

Fail(p, answer) ==
  Locals(p, [proc[p] EXCEPT !.pc = "settle", !.then = "remove", !.answer = answer])

(* The head of upstream's response: 404 or a failure, or the blob, whose   *)
(* size ReserveSize books only when it is announced and positive.          *)
Respond(p) ==
  /\ At(p, "fetch")
  /\ \/ /\ "upstream" \in Faults
        /\ \E answer \in {"notFound", "badGateway"} : Fail(p, answer)
     \/ \E announced \in Announce :
          Goto(p, IF announced /\ Size[proc[p].key] > 0 THEN "reserve" ELSE "copy")
  /\ UNCHANGED <<index, mem, disk>>

(* Mutant of Book: the first reservation is never raised. *)
BookOnce(p, total, next) ==
  LET w == proc[p] IN
  IF w.oversized \/ w.booked > 0
    THEN Goto(p, next) /\ UNCHANGED index
  ELSE IF capped /\ ~Fits(total)
    THEN /\ UNCHANGED index
         /\ Locals(p, [w EXCEPT !.pc = next, !.oversized = TRUE])
  ELSE /\ index' = IF capped THEN Reserved(index, total) ELSE index
       /\ Locals(p, [w EXCEPT !.pc = IF capped THEN "evict" ELSE next,
                               !.then = next, !.booked = total])

(* book: raise what the writer holds of inflight to total, or give it all  *)
(* back once total cannot fit under the cap.                               *)
Book(p, total, next) ==
  LET w == proc[p] IN
  IF w.oversized \/ total <= w.booked
    THEN Goto(p, next) /\ UNCHANGED index
  ELSE IF capped /\ ~Fits(total)
    THEN /\ index' = Released(index, w.booked)
         /\ Locals(p, [w EXCEPT !.pc = next, !.oversized = TRUE, !.booked = 0])
  ELSE /\ index' = IF capped THEN Reserved(index, total - w.booked) ELSE index
       /\ Locals(p, [w EXCEPT !.pc = IF capped THEN "evict" ELSE next,
                               !.then = next, !.booked = total])

Reserve(p) ==
  /\ At(p, "reserve")
  /\ Book(p, Size[proc[p].key], "claim")
  /\ UNCHANGED <<mem, disk>>

-----------------------------------------------------------------------------
(* evictIfNeeded: pop under evictor.mu, unlink after it.                   *)
Evict(p) ==
  /\ At(p, "evict")
  /\ \E n \in 0..Len(index.lru) :
       /\ Evicts(index, n)
       /\ index' = Popped(index, n)
       /\ Locals(p, [proc[p] EXCEPT !.victims = Victims(index, n),
                      !.pc = IF n = 0 THEN proc[p].then ELSE "unlink"])
  /\ UNCHANGED <<mem, disk>>

(* Remove the file k if it is there; handles on it keep its bytes. *)
RemoveFile(k) ==
  /\ linked' = [x \in DOMAIN linked \ {k} |-> linked[x]]
  /\ reading' = [reading EXCEPT ![k] = {}]
  /\ orphans' = orphans \cup
       {[size |-> linked[x], by |-> reading[x]] :
          x \in {y \in DOMAIN linked \cap {k} : reading[y] # {}}}
  /\ UNCHANGED leaked

(* Mutant of Unlink: only the first victim is removed. *)
UnlinkFirst(p) ==
  /\ At(p, "unlink")
  /\ RemoveFile(Head(proc[p].victims))
  /\ Locals(p, [proc[p] EXCEPT !.victims = <<>>, !.pc = proc[p].then])
  /\ UNCHANGED <<index, mem>>

(* A failing os.Remove is only logged: the file stays, out of the index.   *)
Unlink(p) ==
  LET rest == Tail(proc[p].victims) IN
  /\ At(p, "unlink")
  /\ \/ RemoveFile(Head(proc[p].victims))
     \/ "unlink" \in Faults /\ UNCHANGED disk
  /\ Locals(p, [proc[p] EXCEPT !.victims = rest,
                 !.pc = IF rest = <<>> THEN proc[p].then ELSE "unlink"])
  /\ UNCHANGED <<index, mem>>

-----------------------------------------------------------------------------
(* The outcomes of claim, both of which let go of the ledger's mutex.      *)
Grant(p) ==
  /\ pending' = pending + Size[proc[p].key]
  /\ ledger' = Nobody
  /\ Locals(p, [proc[p] EXCEPT !.pc = "copy", !.due = Size[proc[p].key]])

(* Mutant of Refuse: the early return keeps the mutex. *)
RefuseHolding(p) == Fail(p, "insufficient") /\ UNCHANGED <<ledger, pending>>

Refuse(p) ==
  /\ Fail(p, "insufficient")
  /\ ledger' = Nobody
  /\ UNCHANGED pending

(* Mutant of Need: bytes due to other downloads count as free. *)
NeedAlone(p) == Size[proc[p].key]

Need(p) == Size[proc[p].key] + pending

(* claim takes the mutex and measures; freeDisk runs only if the blob does *)
(* not fit, and a failing statfs lets every blob through.                  *)
Claim(p) ==
  /\ At(p, "claim")
  /\ ledger = Nobody
  /\ \E ok \in StatfsOk :
       IF ok /\ Free < Need(p)
         THEN Goto(p, "measure") /\ ledger' = p /\ UNCHANGED pending
         ELSE Grant(p)
  /\ UNCHANGED <<index, capped, keyLock, disk>>

(* freeDisk measures again; here a failing statfs reads as zero bytes.     *)
Measure(p) ==
  /\ At(p, "measure")
  /\ \E ok \in StatfsOk :
       LET free == IF ok THEN Free ELSE 0 IN
       IF free >= Need(p) THEN Grant(p)
       ELSE IF capped THEN Goto(p, "free") /\ UNCHANGED <<ledger, pending>>
       ELSE Refuse(p)
  /\ UNCHANGED <<index, capped, keyLock, disk>>

FreeOne(p) ==
  /\ At(p, "free")
  /\ IF index.lru = <<>>
       THEN Refuse(p) /\ UNCHANGED index
       ELSE /\ index' = Popped(index, 1)
            /\ Locals(p, [proc[p] EXCEPT !.pc = "unlink", !.then = "measure",
                                         !.victims = Victims(index, 1)])
            /\ UNCHANGED <<pending, ledger>>
  /\ UNCHANGED <<capped, keyLock, disk>>

-----------------------------------------------------------------------------
(* Mutant of Copy: a body that breaks off counts as complete. *)
CopyUnchecked(p) ==
  LET w == proc[p] IN
  /\ At(p, "copy")
  /\ \/ w.written = Size[w.key] /\ Goto(p, "close")
     \/ "stream" \in Faults /\ Goto(p, "close")
     \/ /\ w.written < Size[w.key]
        /\ IF Free > 0
             THEN Locals(p, [w EXCEPT !.pc = "landed", !.written = @ + 1])
             ELSE Fail(p, "badGateway")
  /\ UNCHANGED <<index, mem, disk>>

(* io.Copy: the body ends, breaks off, or yields one more byte, which a    *)
(* full disk refuses.                                                      *)
Copy(p) ==
  LET w == proc[p] IN
  /\ At(p, "copy")
  /\ \/ w.written = Size[w.key] /\ Goto(p, "close")
     \/ "stream" \in Faults /\ Fail(p, "badGateway")
     \/ /\ w.written < Size[w.key]
        /\ IF Free > 0
             THEN Locals(p, [w EXCEPT !.pc = "landed", !.written = @ + 1])
             ELSE Fail(p, "badGateway")
  /\ UNCHANGED <<index, mem, disk>>

(* Ledger.release, which skips the mutex when there is nothing to return.  *)
GiveBack(n) ==
  /\ n > 0 => ledger = Nobody
  /\ pending' = pending - n

(* Mutant of Landed: a byte is given back though none is due. *)
LandedUndue(p) ==
  /\ At(p, "landed")
  /\ GiveBack(1)
  /\ Locals(p, [proc[p] EXCEPT !.pc = "book", !.due = 0])
  /\ UNCHANGED <<index, capped, ledger, keyLock, disk>>

(* The rest of Write: the byte is no longer due, and is booked if it was   *)
(* not announced.                                                          *)
Landed(p) ==
  LET landed == IF proc[p].due > 0 THEN 1 ELSE 0 IN
  /\ At(p, "landed")
  /\ GiveBack(landed)
  /\ Locals(p, [proc[p] EXCEPT !.pc = "book", !.due = @ - landed])
  /\ UNCHANGED <<index, capped, ledger, keyLock, disk>>

BookWritten(p) ==
  /\ At(p, "book")
  /\ Book(p, proc[p].written, "copy")
  /\ UNCHANGED <<mem, disk>>

(* Close renames the temp file into place; if it fails it leaves the temp  *)
(* file behind.  Either way the reservations are settled next.             *)
Close(p) ==
  LET w == proc[p] IN
  /\ At(p, "close")
  /\ \/ /\ linked' = [k \in DOMAIN linked \cup {w.key} |->
                         IF k = w.key THEN w.written ELSE linked[k]]
        /\ Locals(p, [w EXCEPT !.pc = "settle", !.then = "add", !.tmp = FALSE])
        /\ UNCHANGED leaked
     \/ /\ "close" \in Faults /\ leaked < MaxLeaked
        /\ leaked' = leaked + w.written
        /\ Locals(p, [w EXCEPT !.pc = "settle", !.then = "unlock", !.tmp = FALSE,
                               !.answer = "badGateway"])
        /\ UNCHANGED linked
  /\ UNCHANGED <<index, mem, reading, orphans>>

(* settle, in its two critical sections. *)
Settle(p) ==
  /\ At(p, "settle")
  /\ index' = IF capped THEN Released(index, proc[p].booked) ELSE index
  /\ Locals(p, [proc[p] EXCEPT !.pc = "settleDisk", !.booked = 0])
  /\ UNCHANGED <<mem, disk>>

SettleDisk(p) ==
  /\ At(p, "settleDisk")
  /\ GiveBack(proc[p].due)
  /\ Locals(p, [proc[p] EXCEPT !.pc = proc[p].then, !.due = 0])
  /\ UNCHANGED <<index, capped, ledger, keyLock, disk>>

(* Mutant of Add: nothing evicts after it. *)
AddUnevicted(p) ==
  LET w == proc[p] IN
  /\ At(p, "add")
  /\ index' = IF capped THEN Added(index, w.key, w.written, w.oversized) ELSE index
  /\ Goto(p, "reopen")
  /\ UNCHANGED <<mem, disk>>

Add(p) ==
  LET w == proc[p] IN
  /\ At(p, "add")
  /\ index' = IF capped THEN Added(index, w.key, w.written, w.oversized) ELSE index
  /\ Locals(p, [w EXCEPT !.then = "reopen",
                         !.pc = IF capped /\ ~w.oversized THEN "evict" ELSE "reopen"])
  /\ UNCHANGED <<mem, disk>>

(* Abort removes the temp file after it has settled. *)
RemoveTemp(p) ==
  /\ At(p, "remove")
  /\ \/ UNCHANGED leaked
     \/ /\ "remove" \in Faults /\ leaked < MaxLeaked
        /\ leaked' = leaked + proc[p].written
  /\ Unlock(p)
  /\ Finish(p)
  /\ UNCHANGED <<index, capped, pending, ledger, linked, reading, orphans>>

-----------------------------------------------------------------------------
(* Mutant of CrashRestart: newEvictor does not evict. *)
RestartUnevicted ==
  /\ "crash" \in Faults /\ leaked < MaxLeaked
  /\ leaked' = leaked + TempBytes
  /\ capped' \in Caps
  /\ IF capped' THEN \E l \in Listing(DOMAIN linked) : index' = Scanned(l, linked)
                ELSE index' = Empty
  /\ UNCHANGED linked
  /\ pending' = 0 /\ ledger' = Nobody
  /\ keyLock' = [k \in Key |-> Nobody]
  /\ reading' = [k \in Key |-> {}] /\ orphans' = {}
  /\ proc' = [p \in Proc |-> Idle(AnyKey)]

(* The process dies and a new one starts: handles are closed, temp files   *)
(* stay, and SetMaxStorage indexes the committed files in the order of     *)
(* their mtimes (any order: a touch is persisted once a minute) and evicts.*)
CrashRestart ==
  /\ "crash" \in Faults /\ leaked < MaxLeaked
  /\ leaked' = leaked + TempBytes
  /\ capped' \in Caps
  /\ IF capped'
       THEN \E l \in Listing(DOMAIN linked) :
              LET scanned == Scanned(l, linked) IN
              \E n \in 0..Len(l) :
                /\ Evicts(scanned, n)
                /\ index' = Popped(scanned, n)
                /\ linked' = [k \in DOMAIN index'.entries |-> linked[k]]
       ELSE index' = Empty /\ UNCHANGED linked
  /\ pending' = 0 /\ ledger' = Nobody
  /\ keyLock' = [k \in Key |-> Nobody]
  /\ reading' = [k \in Key |-> {}] /\ orphans' = {}
  /\ proc' = [p \in Proc |-> Idle(AnyKey)]

(* What a goroutine does once a request has arrived. *)
Step(p) ==
  \/ Stat(p) \/ TouchHead(p) \/ Lock(p) \/ Open(p) \/ Touch(p) \/ Serve(p)
  \/ Leave(p) \/ CreateTemp(p) \/ Respond(p) \/ Reserve(p)
  \/ Evict(p) \/ Unlink(p) \/ Claim(p) \/ Measure(p) \/ FreeOne(p)
  \/ Copy(p) \/ Landed(p) \/ BookWritten(p) \/ Close(p)
  \/ Settle(p) \/ SettleDisk(p) \/ Add(p) \/ RemoveTemp(p)

Next == (\E p \in Proc : Arrive(p) \/ Step(p)) \/ CrashRestart

Spec == Init /\ [][Next]_vars

(* Go runs every runnable goroutine, and its mutexes hand over to whoever  *)
(* waits too long, so a goroutine that can step again and again does; the  *)
(* upstream client times out, and a reader of a blob is served or leaves.  *)
Fairness == \A p \in Proc : SF_vars(Step(p))

FairSpec == Spec /\ Fairness
-----------------------------------------------------------------------------
Doomed == UNION {ToSet(proc[p].victims) : p \in Proc}

Committing(p) ==
  \/ At(p, "add")
  \/ proc[p].pc \in {"settle", "settleDisk"} /\ proc[p].then = "add"

InCommit == {proc[p].key : p \in {q \in Proc : Committing(q)}}

Downloading(p) == proc[p].tmp

(* Every entry of the index has its file, of the size the index counts:    *)
(* an unlink that runs after evictor.mu is released never deletes a blob   *)
(* that was downloaded and added again in the meantime.                    *)
IndexedFilesExist ==
  \A k \in DOMAIN index.entries :
    k \in DOMAIN linked \ Doomed /\ linked[k] = index.entries[k].size

(* Every committed file is in the index, about to be added by its writer,  *)
(* or about to be unlinked: none escapes the cap.                          *)
FilesIndexed ==
  capped => DOMAIN linked \subseteq DOMAIN index.entries \cup InCommit \cup Doomed

(* Reservations are neither leaked nor returned twice, on any path of      *)
(* Close and Abort: the shared counters are the sums of what writers hold. *)
BooksBalance ==
  /\ capped => index.inflight = Total([p \in Proc |-> proc[p].booked])
  /\ pending = Total([p \in Proc |-> proc[p].due])

(* At most one request downloads a blob, and none downloads a blob that is *)
(* in the cache: the rename of Close never replaces a file being read.     *)
OneDownload ==
  \A p \in Proc : Downloading(p) =>
    /\ proc[p].key \notin DOMAIN linked
    /\ \A q \in Proc \ {p} : Downloading(q) => proc[q].key # proc[p].key

(* A committed blob is whole: broken transfers, full disks and crashes     *)
(* never leave a prefix under the final path.                              *)
OnlyWholeBlobs == \A k \in DOMAIN linked : linked[k] = Size[k]

(* The writer holds no reservation: its blob is larger than the cap, or it *)
(* has settled and has yet to add its file or to remove its temp file.     *)
Unreserved(p) ==
  proc[p].oversized \/ proc[p].pc \in {"settleDisk", "add", "remove"}

(* The byte that Write has written and book has not yet counted.           *)
Unbooked(p) ==
  IF proc[p].pc \in {"landed", "book"} /\ proc[p].written > proc[p].booked THEN 1 ELSE 0

(* What evictIfNeeded compares with the cap covers the committed files and *)
(* the bytes of the downloads under way, those of a commit that has not    *)
(* settled included.  It leaves out: popped files not yet unlinked;        *)
(* downloads larger than the cap; between settle and the next step, the    *)
(* file Close has yet to add or the temp file Abort has yet to remove; the *)
(* one byte of Unbooked; abandoned temp files; and unlinked files that are *)
(* still being read.                                                       *)
DiskCounted ==
  capped =>
    Total([k \in DOMAIN linked \ (Doomed \cup InCommit) |-> linked[k]])
      + Total([p \in {q \in Proc : (Downloading(q) \/ Committing(q)) /\ ~Unreserved(q)} |->
                 proc[p].written - Unbooked(p)])
    <= index.used + index.inflight

(* The bytes that granted downloads have yet to write are free on disk:    *)
(* if every download is announced, none of them meets a full disk.         *)
Outstanding(p) ==
  IF proc[p].pc \in {"copy", "landed", "book"} THEN Size[proc[p].key] - proc[p].written ELSE 0

AnnouncedBytesFit == Total([p \in Proc |-> Outstanding(p)]) <= Free

(* Every request is answered: no writer waits forever for the ledger while *)
(* its owner evicts, and no request for a key behind a download of it.     *)
EveryRequestAnswered ==
  \A p \in Proc : ~At(p, "idle") ~> At(p, "idle")

(* The blob cache drives the evictor as the evictor expects: an            *)
(* evictIfNeeded follows every add and every reserve, nothing is released  *)
(* that was not reserved, only blobs that cannot fit are cold.             *)
E == INSTANCE Evictor WITH
       Threads     <- Cardinality(Proc),
       MaxInflight <- MaxEntry * Cardinality(Proc),
       owed        <- Cardinality({p \in Proc : At(p, "evict")})

DrivesEvictor == E!Spec
-----------------------------------------------------------------------------
(* docs/configuration.md: eviction "counts bytes still downloading, so     *)
(* concurrent pulls do not overshoot the cap".  Stated of the downloads    *)
(* alone: their temp files together never exceed the cap, when each of the *)
(* blobs fits under it.                                                    *)
PullsWithinCap ==
  capped /\ (\A k \in Key : Fits(Size[k])) => TempBytes <= MaxStorage

(* docs/configuration.md: "A blob larger than the cap on its own is still  *)
(* served": its request, once upstream sent it whole, is not answered 404. *)
OversizedStillServed ==
  \A p \in Proc :
    ~ /\ At(p, "unlock") /\ proc[p].answer = "notFound"
      /\ proc[p].oversized /\ proc[p].written = Size[proc[p].key]
=============================================================================
