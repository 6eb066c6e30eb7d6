--------------------------- MODULE RecencyProofs ---------------------------
(***************************************************************************)
(* The order of last access survives a restart, for any keys, goroutines,  *)
(* interval and lateness.  OrderSurvives is not inductive: it follows from *)
(* a bound on how far the mtime of a settled entry lags behind its last    *)
(* use, which follows from how far it lags behind persistedAt, which       *)
(* follows from how late a call that is under way can be.                  *)
(***************************************************************************)
EXTENDS MCRecency, TLAPS

(* Nobody uses a reading of the clock later than the bound. *)
Prompt == \A p \in Proc : ~At(p, "idle") => clock - proc[p].now <= MaxLate

(* A touch is counted before it is flushed. *)
Counted == \A p \in Proc : At(p, "flush") => proc[p].now <= lastUse[proc[p].key]

(* A file that was stored and is about to be added can only have been made *)
(* older by a flush that was late.                                         *)
JustStored ==
  \A p \in Proc : At(p, "add") /\ proc[p].key \in DOMAIN mtime =>
    mtime[proc[p].key] >= proc[p].now - MaxLate

(* A file lags behind persistedAt by two late calls at most, or the flush  *)
(* that persistedAt stands for is still to come.                           *)
Flushed ==
  \A k \in DOMAIN persisted \cap DOMAIN mtime :
    \/ mtime[k] >= persisted[k] - 2 * MaxLate
    \/ \E p \in Proc : At(p, "flush") /\ proc[p].key = k /\ proc[p].now = persisted[k]

(* The file of a settled entry lags behind its last use by less than Slack. *)
Recent == \A k \in Key : Settled(k) => mtime[k] > lastUse[k] - Slack

Inv == TypeOK /\ Prompt /\ Counted /\ NeverYounger /\ JustStored /\ Flushed /\ Recent

(* Goroutines that are idle have some key. *)
LEMMA SomeKey == AnyKey \in Key
  BY RecencyAssumption DEF AnyKey

LEMMA InitInv == Init => Inv
  BY SomeKey, RecencyAssumption DEF Init, Inv, TypeOK, PC, Prompt, Counted, NeverYounger, JustStored,
     Flushed, Recent, Settled, At, Idle

(* A goroutine that reads the clock and goes on to touch or to unlink. *)
LEMMA TouchKeepsInv == ASSUME Inv, NEW p \in Proc, Touch(p) PROVE Inv'
  BY RecencyAssumption DEF Inv, TypeOK, PC, Prompt, Counted, NeverYounger, JustStored,
     Flushed, Recent, Settled, Pending, At, Idle, Touch, Locals, Slack

LEMMA WriteKeepsInv == ASSUME Inv, NEW p \in Proc, Write(p) PROVE Inv'
  BY RecencyAssumption DEF Inv, TypeOK, PC, Prompt, Counted, NeverYounger, JustStored,
     Flushed, Recent, Settled, Pending, At, Idle, Write, Locals, Slack

LEMMA BumpKeepsInv == ASSUME Inv, NEW p \in Proc, Bump(p) PROVE Inv'
<1> USE SomeKey, RecencyAssumption DEF At
<1>1. TypeOK'
  BY DEF Inv, TypeOK, PC, Bump, Marked, Set, Later, Locals, Finish, Idle
<1>2. Prompt' /\ Counted' /\ NeverYounger' /\ JustStored'
  BY DEF Inv, TypeOK, Prompt, Counted, NeverYounger, JustStored, Bump, Later, Locals, Finish, Idle
<1>3. Flushed'
  <2> SUFFICES ASSUME NEW k \in DOMAIN persisted' \cap DOMAIN mtime'
               PROVE  \/ mtime'[k] >= persisted'[k] - 2 * MaxLate
                      \/ \E q \in Proc : proc'[q].pc = "flush" /\ proc'[q].key = k
                                        /\ proc'[q].now = persisted'[k]
    BY DEF Flushed
  <2>1. k \in DOMAIN persisted \cap DOMAIN mtime /\ mtime' = mtime
    BY DEF Bump, Marked, Set
  <2>2. CASE persisted'[k] = persisted[k]
    <3>1. \A q \in Proc : proc[q].pc = "flush" => proc'[q] = proc[q]
      BY DEF Inv, TypeOK, Bump, Locals, Finish
    <3>2. QED
      BY <2>1, <2>2, <3>1 DEF Inv, Flushed
  <2>3. CASE persisted'[k] # persisted[k]
    <3>1. /\ k = proc[p].key /\ persisted'[k] = proc[p].now
          /\ proc' = [proc EXCEPT ![p] = [proc[p] EXCEPT !.pc = "flush"]]
      BY <2>1, <2>3 DEF Bump, Marked, Set, Locals
    <3>2. QED
      BY <3>1 DEF Inv, TypeOK
  <2>4. QED
    BY <2>2, <2>3
<1>4. Recent'
  BY DEF Inv, TypeOK, Flushed, Recent, Settled, Pending, Slack, Bump, Marked, Set, Later, Locals, Finish, Idle
<1>5. QED
  BY <1>1, <1>2, <1>3, <1>4 DEF Inv

LEMMA FlushKeepsInv == ASSUME Inv, NEW p \in Proc, Flush(p) PROVE Inv'
<1> USE SomeKey, RecencyAssumption DEF At
<1>1. TypeOK'
  BY DEF Inv, TypeOK, PC, Flush, Locals, Finish, Idle
<1>2. Prompt' /\ Counted' /\ NeverYounger'
  BY DEF Inv, TypeOK, Prompt, Counted, NeverYounger, Flush, Locals, Finish, Idle
<1>3. JustStored'
  BY DEF Inv, TypeOK, Prompt, JustStored, Flush, Locals, Finish, Idle
<1>4. Flushed'
  BY DEF Inv, TypeOK, Prompt, Flushed, Flush, Locals, Finish, Idle
<1>5. Recent'
  BY DEF Inv, TypeOK, Prompt, Recent, Settled, Pending, Slack, Flush, Locals, Finish, Idle
<1>6. QED
  BY <1>1, <1>2, <1>3, <1>4, <1>5 DEF Inv

LEMMA StoreKeepsInv == ASSUME Inv, NEW p \in Proc, Store(p) PROVE Inv'
<1> USE SomeKey, RecencyAssumption DEF At
<1>1. TypeOK'
  BY DEF Inv, TypeOK, PC, Store, Set, Locals
<1>2. Prompt' /\ Counted' /\ NeverYounger' /\ JustStored'
  BY DEF Inv, TypeOK, Prompt, Counted, NeverYounger, JustStored, Store, Set, Locals
<1>3. Flushed'
  <2> SUFFICES ASSUME NEW k \in DOMAIN persisted' \cap DOMAIN mtime'
               PROVE  \/ mtime'[k] >= persisted'[k] - 2 * MaxLate
                      \/ \E q \in Proc : proc'[q].pc = "flush" /\ proc'[q].key = k
                                        /\ proc'[q].now = persisted'[k]
    BY DEF Flushed
  <2>1. CASE k = proc[p].key
    <3>1. mtime'[k] = proc[p].now /\ persisted'[k] = persisted[k] /\ k \in DOMAIN persisted
      BY <2>1 DEF Store, Set
    <3>2. clock - proc[p].now <= MaxLate
      BY DEF Inv, Prompt, Store
    <3>3. clock \in Nat /\ proc[p].now \in 0..clock /\ persisted[k] \in 0..clock
      BY <3>1 DEF Inv, TypeOK
    <3>4. QED
      BY <3>1, <3>2, <3>3
  <2>2. CASE k # proc[p].key
    <3>1. /\ k \in DOMAIN persisted \cap DOMAIN mtime /\ mtime'[k] = mtime[k]
          /\ persisted' = persisted
      BY <2>2 DEF Store, Set
    <3>2. \A q \in Proc : proc[q].pc = "flush" => proc'[q] = proc[q]
      BY DEF Inv, TypeOK, Store, Locals
    <3>3. QED
      BY <3>1, <3>2 DEF Inv, Flushed
  <2>3. QED
    BY <2>1, <2>2
<1>4. Recent'
  BY DEF Inv, TypeOK, Recent, Settled, Pending, Slack, Store, Set, Locals
<1>5. QED
  BY <1>1, <1>2, <1>3, <1>4 DEF Inv

LEMMA AddKeepsInv == ASSUME Inv, NEW p \in Proc, Add(p) PROVE Inv'
<1> USE SomeKey, RecencyAssumption DEF At
<1>1. TypeOK'
  BY DEF Inv, TypeOK, PC, Add, Set, Locals, Finish, Idle
<1>2. Prompt' /\ Counted' /\ NeverYounger' /\ JustStored'
  BY DEF Inv, TypeOK, Prompt, Counted, NeverYounger, JustStored, Add, Locals, Finish, Idle
<1>3. Flushed'
  <2> SUFFICES ASSUME NEW k \in DOMAIN persisted' \cap DOMAIN mtime'
               PROVE  \/ mtime'[k] >= persisted'[k] - 2 * MaxLate
                      \/ \E q \in Proc : proc'[q].pc = "flush" /\ proc'[q].key = k
                                        /\ proc'[q].now = persisted'[k]
    BY DEF Flushed
  <2>1. CASE k = proc[p].key
    <3>1. /\ k \in DOMAIN mtime /\ mtime' = mtime /\ persisted'[k] = clock
          /\ mtime[k] >= proc[p].now - MaxLate /\ clock - proc[p].now <= MaxLate
      BY <2>1 DEF Inv, JustStored, Prompt, Add, Set
    <3>2. clock \in Nat /\ proc[p].now \in Nat /\ mtime[k] \in Nat
      BY <3>1 DEF Inv, TypeOK
    <3>3. QED
      BY <3>1, <3>2
  <2>2. CASE k # proc[p].key
    <3>1. /\ k \in DOMAIN persisted \cap DOMAIN mtime /\ mtime' = mtime
          /\ persisted'[k] = persisted[k]
      BY <2>2 DEF Add, Set
    <3>2. \A q \in Proc : proc[q].pc = "flush" => proc'[q] = proc[q]
      BY DEF Inv, TypeOK, Add, Locals, Finish
    <3>3. QED
      BY <3>1, <3>2 DEF Inv, Flushed
  <2>3. QED
    BY <2>1, <2>2
<1>4. Recent'
  BY DEF Inv, TypeOK, Prompt, JustStored, Recent, Settled, Pending, Slack, Add, Set, Locals, Finish, Idle
<1>5. QED
  BY <1>1, <1>2, <1>3, <1>4 DEF Inv

LEMMA PopKeepsInv == ASSUME Inv, NEW p \in Proc, Pop(p) PROVE Inv'
<1> USE SomeKey, RecencyAssumption DEF At
<1>1. TypeOK'
  BY DEF Inv, TypeOK, PC, Pop, Less, Locals
<1>2. Prompt' /\ Counted' /\ NeverYounger' /\ JustStored'
  BY DEF Inv, TypeOK, Prompt, Counted, NeverYounger, JustStored, Pop, Locals
<1>3. Flushed'
  BY DEF Inv, TypeOK, Flushed, Pop, Less, Locals
<1>4. Recent'
  BY DEF Inv, TypeOK, Recent, Settled, Pending, Slack, Pop, Less, Locals
<1>5. QED
  BY <1>1, <1>2, <1>3, <1>4 DEF Inv

LEMMA UnlinkKeepsInv == ASSUME Inv, NEW p \in Proc, Unlink(p) PROVE Inv'
<1> USE SomeKey, RecencyAssumption DEF At
<1>1. TypeOK'
  BY DEF Inv, TypeOK, PC, Unlink, Less, Locals, Finish, Idle
<1>2. Prompt' /\ Counted' /\ NeverYounger' /\ JustStored'
  BY DEF Inv, TypeOK, Prompt, Counted, NeverYounger, JustStored, Unlink, Less, Locals, Finish, Idle
<1>3. Flushed'
  BY DEF Inv, TypeOK, Flushed, Unlink, Less, Locals, Finish, Idle
<1>4. Recent'
  BY DEF Inv, TypeOK, Recent, Settled, Pending, Slack, Unlink, Less, Locals, Finish, Idle
<1>5. QED
  BY <1>1, <1>2, <1>3, <1>4 DEF Inv

LEMMA RestartKeepsInv == ASSUME Inv, Restart PROVE Inv'
<1> USE SomeKey, RecencyAssumption DEF At
<1>1. TypeOK'
  BY DEF Inv, TypeOK, PC, Restart, Settled, Idle
<1>2. Prompt' /\ Counted' /\ NeverYounger' /\ JustStored'
  BY DEF Inv, TypeOK, Prompt, Counted, NeverYounger, JustStored, Restart, Idle
<1>3. Flushed'
  BY DEF Inv, TypeOK, Flushed, Restart
<1>4. Recent'
  <2> SUFFICES ASSUME NEW k \in Key, k \in DOMAIN mtime PROVE mtime[k] > lastUse'[k] - Slack
    BY DEF Recent, Settled, Slack, Restart
  <2>1. mtime[k] \in Nat /\ Slack \in Nat \ {0}
    BY DEF Inv, TypeOK, Slack
  <2>2. CASE Settled(k)
    BY <2>2 DEF Inv, Recent, Restart
  <2>3. CASE ~Settled(k)
    BY <2>1, <2>3 DEF Restart
  <2>4. QED
    BY <2>2, <2>3
<1>5. QED
  BY <1>1, <1>2, <1>3, <1>4 DEF Inv

LEMMA TickKeepsInv == ASSUME Inv, Tick PROVE Inv'
  BY RecencyAssumption DEF Inv, TypeOK, PC, Prompt, Counted, NeverYounger, JustStored,
     Flushed, Recent, Settled, Pending, At, Tick, Slack

LEMMA NextKeepsInv == Inv /\ [Next]_vars => Inv'
<1> SUFFICES ASSUME Inv, [Next]_vars PROVE Inv'
  OBVIOUS
<1>1. CASE UNCHANGED vars
  BY <1>1 DEF vars, Inv, TypeOK, Prompt, Counted, NeverYounger, JustStored, Flushed, Recent,
     Settled, Pending, At
<1>2. CASE Next
  BY <1>2, TouchKeepsInv, BumpKeepsInv, FlushKeepsInv, WriteKeepsInv, StoreKeepsInv, AddKeepsInv,
     PopKeepsInv, UnlinkKeepsInv, RestartKeepsInv, TickKeepsInv DEF Next
<1>3. QED
  BY <1>1, <1>2

LEMMA SpecKeepsInv == Spec => []Inv
  BY InitInv, NextKeepsInv, PTL DEF Spec

(* The types of the state hold in every behaviour of the flushing. *)
THEOREM RecencyTypes == Spec => []TypeOK
<1>1. Inv => TypeOK
  BY DEF Inv
<1>2. QED
  BY <1>1, SpecKeepsInv, PTL

(* No flush, however late, makes a file look used later than it was: sort  *)
(* order by mtime never overrates an entry.                                *)
THEOREM FilesNeverYounger == Spec => []NeverYounger
<1>1. Inv => NeverYounger
  BY DEF Inv
<1>2. QED
  BY <1>1, SpecKeepsInv, PTL

(* Last access survives a restart: what scanEntries sorts by ranks two     *)
(* settled entries as they were used, if their uses are Slack apart.  Cold *)
(* entries are not settled: their uses are not flushed.                    *)
THEOREM LastAccessSurvives == Spec => []OrderSurvives
<1>1. Inv => OrderSurvives
  BY RecencyAssumption DEF Inv, TypeOK, NeverYounger, Recent, Settled, OrderSurvives, Slack
<1>2. QED
  BY <1>1, SpecKeepsInv, PTL

-----------------------------------------------------------------------------
(* What was flushed, what the file says and what the entry counts as       *)
(* flushed follow each other, but that a rename brings a file whose last   *)
(* write may be older than a flush of the one it replaces,                 *)
Typed == flushed \in [Key -> Int] /\ \A k \in Key : flushed[k] <= clock

OnFile == \A k \in DOMAIN mtime : flushed[k] - MaxLate <= mtime[k]

OnEntry == \A k \in DOMAIN persisted : flushed[k] - MaxLate <= persisted[k]

(* and a flush under way comes that much less than an interval after the   *)
(* last one, is counted already, and is the only one of its file.          *)
InTime ==
  \A p \in Proc : At(p, "flush") =>
    /\ proc[p].now - flushed[proc[p].key] >= Interval - MaxLate
    /\ proc[p].key \in DOMAIN persisted => proc[p].now <= persisted[proc[p].key]

Alone ==
  \A p, q \in Proc :
    At(p, "flush") /\ At(q, "flush") /\ proc[p].key = proc[q].key => p = q

Spaced == Typed /\ OnFile /\ OnEntry /\ InTime /\ Alone

(* A flush is not an interval late. *)
Punctual == MaxLate < Interval

LEMMA SpacedInit == ASSUME MCInit PROVE Spaced
  BY RecencyAssumption DEF MCInit, Init, Spaced, Typed, OnFile, OnEntry, InTime, Alone, At, Idle

(* A flush that is due finds no other under way. *)
LEMMA NoneUnderWay ==
  ASSUME Punctual, Inv, Spaced, NEW p \in Proc, At(p, "touch"),
         proc[p].key \in DOMAIN persisted,
         proc[p].now - persisted[proc[p].key] >= Interval,
         NEW q \in Proc, At(q, "flush")
  PROVE  proc[q].key # proc[p].key
<1> DEFINE k == proc[p].key
<1> SUFFICES ASSUME proc[q].key = k PROVE FALSE
  OBVIOUS
<1>1. proc[q].now <= persisted[k]
  BY DEF Spaced, InTime
<1>2. clock - proc[q].now <= MaxLate
  BY DEF Inv, Prompt, At
<1>3. /\ proc[p].now \in 0..clock /\ proc[q].now \in 0..clock /\ persisted[k] \in 0..clock
      /\ clock \in Nat
  BY DEF Inv, TypeOK
<1> HIDE DEF k
<1>4. QED
  BY <1>1, <1>2, <1>3, RecencyAssumption DEF Punctual, k

LEMMA SpacedBump ==
  ASSUME Punctual, Inv, Spaced, NEW p \in Proc, Bump(p), flushed' = flushed PROVE Spaced'
<1> DEFINE k == proc[p].key
           t == proc[p].now
           persist == k \in DOMAIN persisted \ cold /\ t - persisted[k] >= Interval
<1> USE DEF At
<1>1. UNCHANGED <<clock, mtime, flushed>> /\ At(p, "touch") /\ proc \in [Proc -> [pc : PC, key : Key, now : 0..clock]]
  BY DEF Bump, Inv, TypeOK
<1>2. Typed' /\ OnFile'
  BY <1>1 DEF Spaced, Typed, OnFile
<1>3. CASE ~persist
  <2>1. persisted' = persisted /\ proc' = [proc EXCEPT ![p] = Idle]
    BY <1>3 DEF Bump, Marked, Finish, Locals
  <2>2. Idle.pc = "idle"
    BY DEF Idle
  <2>3. \A q \in Proc : proc'[q].pc = "flush" => proc'[q] = proc[q]
    BY <1>1, <2>1, <2>2
  <2>4. QED
    BY <1>1, <1>2, <2>1, <2>3 DEF Spaced, OnEntry, InTime, Alone
<1>4. CASE persist
  <2>1. persisted' = Set(persisted, k, t) /\ proc' = [proc EXCEPT ![p] = [proc[p] EXCEPT !.pc = "flush"]]
    BY <1>4 DEF Bump, Marked, Locals
  <2>2. \A q \in Proc : At(q, "flush") => proc[q].key # k
    BY <1>1, <1>4, NoneUnderWay
  <2>3. proc'[p].key = k /\ proc'[p].now = t /\ \A q \in Proc \ {p} : proc'[q] = proc[q]
    BY <1>1, <2>1
  <2>4. /\ k \in Key /\ flushed[k] - MaxLate <= persisted[k] /\ persisted[k] \in 0..clock /\ t \in 0..clock
        /\ flushed[k] \in Int /\ clock \in Nat
    BY <1>1, <1>4 DEF Spaced, OnEntry, Typed, Inv, TypeOK
  <2>5. t - flushed[k] >= Interval - MaxLate /\ flushed[k] - MaxLate <= t /\ persisted[k] <= t
    BY <1>4, <2>4, RecencyAssumption
  <2>6. OnEntry'
    BY <1>1, <2>1, <2>5 DEF Spaced, OnEntry, Set
  <2>7. InTime'
    BY <1>1, <2>1, <2>2, <2>3, <2>4, <2>5 DEF Spaced, InTime, Set
  <2>8. Alone'
    BY <2>2, <2>3 DEF Spaced, Alone
  <2>9. QED
    BY <1>2, <2>6, <2>7, <2>8 DEF Spaced
<1>5. QED
  BY <1>3, <1>4

LEMMA SpacedFlush ==
  ASSUME Inv, Spaced, NEW p \in Proc, Chtimes(p)
  PROVE  Spaced' /\ \A k \in Key : flushed'[k] # flushed[k] => flushed'[k] - flushed[k] >= Interval - MaxLate
<1> DEFINE k == proc[p].key
           t == proc[p].now
<1> USE DEF At
<1>1. /\ UNCHANGED <<clock, persisted>> /\ At(p, "flush") /\ proc \in [Proc -> [pc : PC, key : Key, now : 0..clock]]
      /\ proc' = [proc EXCEPT ![p] = Idle]
      /\ mtime' = IF k \in DOMAIN mtime THEN [mtime EXCEPT ![k] = t] ELSE mtime
      /\ flushed' = IF k \in DOMAIN mtime THEN [flushed EXCEPT ![k] = t] ELSE flushed
  BY DEF Chtimes, Flush, Finish, Locals, Inv, TypeOK
<1>2. Idle.pc = "idle"
  BY DEF Idle
<1>3. \A q \in Proc : proc'[q].pc = "flush" => q # p /\ proc'[q] = proc[q]
  BY <1>1, <1>2
<1>4. \A q \in Proc \ {p} : At(q, "flush") => proc[q].key # k
  BY <1>1 DEF Spaced, Alone
<1>5. t - flushed[k] >= Interval - MaxLate /\ (k \in DOMAIN persisted => t <= persisted[k])
  BY <1>1 DEF Spaced, InTime
<1>6. t \in 0..clock /\ clock \in Nat /\ k \in Key /\ flushed \in [Key -> Int]
  BY <1>1 DEF Inv, TypeOK, Spaced, Typed
<1>7. Typed'
  BY <1>1, <1>6 DEF Spaced, Typed
<1>8. OnFile' /\ OnEntry'
  BY <1>1, <1>5, <1>6, RecencyAssumption DEF Spaced, OnFile, OnEntry, Inv, TypeOK
<1>9. InTime' /\ Alone'
  <2>1. \A q \in Proc : proc'[q].pc = "flush" => flushed'[proc[q].key] = flushed[proc[q].key]
    BY <1>1, <1>3, <1>4, <1>6
  <2>2. QED
    BY <1>1, <1>3, <2>1 DEF Spaced, InTime, Alone
<1>10. QED
  BY <1>1, <1>5, <1>6, <1>7, <1>8, <1>9 DEF Spaced

(* Nothing else begins or ends a flush. *)
LEMMA SpacedElse ==
  ASSUME Inv, Inv', Spaced, flushed' = flushed,
         (\E p \in Proc : Touch(p) \/ Write(p) \/ Store(p) \/ Add(p) \/ Pop(p) \/ Unlink(p)) \/ Restart \/ Tick
  PROVE  Spaced'
<1> USE DEF At
<1>1. /\ clock \in Nat /\ flushed \in [Key -> Int] /\ (\A k \in Key : flushed[k] <= clock)
      /\ proc \in [Proc -> [pc : PC, key : Key, now : 0..clock]]
      /\ DOMAIN mtime \subseteq Key /\ DOMAIN persisted \subseteq Key
  BY DEF Inv, TypeOK, Spaced, Typed
<1>2. /\ clock' \in {clock, clock + 1}
      /\ \A q \in Proc : proc'[q].pc = "flush" => proc'[q] = proc[q]
  <2>1. Idle.pc = "idle"
    BY DEF Idle
  <2>2. QED
    BY <1>1, <2>1 DEF Touch, Write, Store, Add, Pop, Unlink, Restart, Tick, Locals, Finish
<1>3. Typed'
  BY <1>1, <1>2 DEF Typed
<1>4. \A k \in DOMAIN mtime' : mtime'[k] \in (clock - MaxLate)..clock \/ (k \in DOMAIN mtime /\ mtime'[k] = mtime[k])
  <2>1. CASE \E p \in Proc : Store(p)
    <3>1. PICK p \in Proc : Store(p)
      BY <2>1
    <3>2. clock - proc[p].now <= MaxLate /\ proc[p].now \in 0..clock
      BY <1>1, <3>1 DEF Store, Inv, Prompt
    <3>3. mtime' = Set(mtime, proc[p].key, proc[p].now)
      BY <3>1 DEF Store
    <3>4. QED
      BY <1>1, <3>2, <3>3, RecencyAssumption DEF Set
  <2>2. CASE ~\E p \in Proc : Store(p)
    <3>1. mtime' = mtime \/ \E x : mtime' = Less(mtime, x)
      BY <2>2 DEF Touch, Write, Add, Pop, Unlink, Restart, Tick
    <3>2. QED
      BY <3>1 DEF Less
  <2>3. QED
    BY <2>1, <2>2
<1>5. \A k \in DOMAIN persisted' :
        \/ persisted'[k] = clock
        \/ k \in DOMAIN persisted /\ persisted'[k] = persisted[k]
        \/ Restart /\ k \in DOMAIN mtime /\ persisted'[k] = mtime[k]
  <2>1. ASSUME NEW p \in Proc, Touch(p) \/ Write(p) \/ Store(p) \/ Add(p) \/ Pop(p) \/ Unlink(p)
        PROVE  \/ persisted' = persisted
               \/ \E x : persisted' = Set(persisted, x, clock) \/ persisted' = Less(persisted, x)
    BY <2>1 DEF Touch, Write, Store, Add, Pop, Unlink
  <2>2. \/ persisted' = persisted
        \/ \E x : persisted' = Set(persisted, x, clock) \/ persisted' = Less(persisted, x)
        \/ Restart /\ persisted' = mtime
    BY <2>1 DEF Restart, Tick
  <2>3. QED
    BY <2>2 DEF Set, Less
<1>6. OnFile' /\ OnEntry'
  <2>1. DOMAIN mtime' \subseteq Key /\ DOMAIN persisted' \subseteq Key
    BY DEF Inv, TypeOK
  <2>2. \A k \in Key : flushed[k] \in Int /\ flushed[k] - MaxLate <= clock - MaxLate
    BY <1>1, RecencyAssumption
  <2>3. OnFile'
    BY <1>1, <1>4, <2>1, <2>2, RecencyAssumption DEF Spaced, OnFile
  <2>4. OnEntry'
    BY <1>1, <1>5, <2>1, <2>2, RecencyAssumption DEF Spaced, OnFile, OnEntry
  <2>5. QED
    BY <2>3, <2>4
<1>7. InTime' /\ Alone'
  <2>1. CASE Restart
    BY <2>1 DEF Restart, InTime, Alone, Idle
  <2>2. CASE ~Restart
    <3>1. \A q \in Proc : proc'[q].pc = "flush" /\ proc[q].key \in DOMAIN persisted' =>
            proc[q].now <= persisted'[proc[q].key]
      BY <1>1, <1>2, <1>5, <2>2 DEF Spaced, InTime
    <3>2. QED
      BY <1>2, <3>1 DEF Spaced, InTime, Alone
  <2>3. QED
    BY <2>1, <2>2
<1>8. QED
  BY <1>3, <1>6, <1>7 DEF Spaced

FlushSpaced == \A k \in Key : flushed'[k] # flushed[k] => flushed'[k] - flushed[k] >= Interval - MaxLate

LEMMA SpacedNext ==
  Punctual /\ Inv /\ Inv' /\ Spaced /\ [MCNext]_<<vars, flushed>> =>
    Spaced' /\ [FlushSpaced]_<<vars, flushed>>
<1> SUFFICES ASSUME Punctual, Inv, Inv', Spaced, [MCNext]_<<vars, flushed>>
             PROVE  Spaced' /\ FlushSpaced
  OBVIOUS
<1>1. CASE UNCHANGED <<vars, flushed>>
  BY <1>1 DEF vars, Spaced, Typed, OnFile, OnEntry, InTime, Alone, At, FlushSpaced
<1>2. ASSUME NEW p \in Proc, Chtimes(p) PROVE Spaced' /\ FlushSpaced
  BY <1>2, SpacedFlush DEF FlushSpaced
<1>3. CASE flushed' = flushed /\ MCNext /\ ~\E p \in Proc : Chtimes(p)
  BY <1>3, SpacedBump, SpacedElse DEF MCNext, FlushSpaced
<1>4. QED
  BY <1>1, <1>2, <1>3 DEF MCNext

LEMMA HistoryHasInv == MCSpec => []Inv
<1>1. MCInit => Inv
  BY InitInv DEF MCInit
<1>2. Inv /\ [MCNext]_<<vars, flushed>> => Inv'
  BY NextKeepsInv DEF MCNext, Next, Chtimes
<1>3. QED
  BY <1>1, <1>2, PTL DEF MCSpec

(* docs/configuration.md: "at most once a minute per entry".  As long as   *)
(* no flush is an interval late, the times given to a file are an interval *)
(* apart, less what a rename may be late, however many goroutines touch it *)
(* and whatever a restart, an eviction or a download does to its entry.    *)
THEOREM FlushesAreSpaced == ASSUME MaxLate < Interval PROVE MCSpec => FlushesSpaced
<1>1. Punctual
  BY DEF Punctual
<1>2. MCInit => Spaced
  BY SpacedInit
<1>3. MCSpec => [][FlushSpaced]_<<vars, flushed>>
  BY <1>1, <1>2, SpacedNext, HistoryHasInv, PTL DEF MCSpec
<1>4. QED
  BY <1>3 DEF FlushSpaced, FlushesSpaced
=============================================================================
