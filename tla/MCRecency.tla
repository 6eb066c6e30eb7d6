----------------------------- MODULE MCRecency -----------------------------
(* Recency with a history of the flushes that reached the disk. *)
EXTENDS Recency, TLC

VARIABLE flushed   \* the last time Chtimes gave the file of each key

MCInit == Init /\ flushed = [k \in Key |-> 0 - Interval]

Chtimes(p) ==
  /\ Flush(p)
  /\ flushed' = IF proc[p].key \in DOMAIN mtime
                  THEN [flushed EXCEPT ![proc[p].key] = proc[p].now] ELSE flushed

MCNext ==
  \/ \E p \in Proc :
       \/ Chtimes(p)
       \/ /\ Touch(p) \/ Bump(p) \/ Write(p) \/ Store(p) \/ Add(p) \/ Pop(p) \/ Unlink(p)
          /\ UNCHANGED flushed
  \/ (Restart \/ Tick) /\ UNCHANGED flushed

MCSpec == MCInit /\ [][MCNext]_<<vars, flushed>>

(* docs/configuration.md: "at most once a minute per entry".  However many *)
(* goroutines touch an entry at once, the times written to its file are at *)
(* least an interval apart, less the time a rename is late: that much can  *)
(* a restart forget, which takes the last write for the last flush.        *)
FlushesSpaced ==
  [][\A k \in Key : flushed'[k] # flushed[k] =>
       flushed'[k] - flushed[k] >= Interval - MaxLate]_<<vars, flushed>>

Symmetry == Permutations(Key) \cup Permutations(Proc)
=============================================================================
