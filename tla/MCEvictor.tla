----------------------------- MODULE MCEvictor -----------------------------
(* The evictor alone, with a history of which key was used after which.    *)
EXTENDS Evictor

VARIABLE younger   \* pairs <<a, b>>: a was last used after b was

Used(k) == {pair \in younger : pair[2] # k} \cup {<<k, x>> : x \in Key \ {k}}

Listed(lru) == {pair \in Key \X Key :
                  \E i, j \in DOMAIN lru : i < j /\ pair = <<lru[i], lru[j]>>}

MCInit == Init /\ younger = Listed(index.lru)

MCNext ==
  \/ \E k \in Key : Touch(k) /\ younger' = IF k \in WarmKeys(index) THEN Used(k) ELSE younger
  \/ \E k \in Key, size \in 0..MaxEntry, cold \in BOOLEAN :
       Add(k, size, cold) /\ younger' = Used(k)
  \/ \E n \in 1..MaxInflight : (Reserve(n) \/ Release(n)) /\ UNCHANGED younger
  \/ (EvictIfNeeded \/ FreeOne) /\ UNCHANGED younger
  \/ Restart /\ younger' = Listed(index'.lru)

MCSpec == MCInit /\ [][MCNext]_<<vars, younger>>

(* The list is in order of last use: of two entries that fit, the one      *)
(* nearer the back, which goes first, is the one used longer ago.          *)
LeastRecentlyUsedLast ==
  \A i, j \in DOMAIN index.lru :
    /\ i < j
    /\ index.lru[i] \in WarmKeys(index)
    /\ index.lru[j] \in WarmKeys(index)
    => <<index.lru[i], index.lru[j]>> \in younger
=============================================================================
