------------------------- MODULE MCManifestHistory -------------------------
(* The manifest cache with crashes, and with two histories: when           *)
(* upstream's tag last pointed at each manifest, and whether a write was   *)
(* cut short between a .meta file and its .body.                           *)
EXTENDS MCManifestCache

VARIABLES until, torn

Never == 0 - TTL - MaxLatency

MCInit ==
  /\ Init
  /\ until = [d \in Digest |-> Never]
  /\ torn = FALSE

CutShort(p) ==
  /\ At(p, "put") /\ Head(proc[p].left).part = "body"
  /\ proc'[p] # proc[p] /\ proc'[p].left # Tail(proc[p].left)

MCNext ==
  /\ Next \/ CrashRestart
  /\ until' = IF head' # head THEN [until EXCEPT ![head] = clock, ![head'] = Never] ELSE until
  /\ torn' = (torn \/ \E p \in Proc : CutShort(p))

MCSpec == MCInit /\ [][MCNext]_<<vars, until, torn>>

LastCurrent(d) == IF d = head THEN clock ELSE until[d]

(* A tag is served from the cache without asking upstream, or after asking *)
(* it, only with a manifest the tag pointed at less than TTL ago, give or  *)
(* take the time upstream's answer took to be stored.                      *)
TagsFresh ==
  \A p \in Proc :
    LET w == proc[p] IN
    At(p, "done") /\ w.ref = Tag /\ w.answer \in {"fresh", "upstream"}
      => w.asOf - LastCurrent(w.held.digest) < TTL + MaxLatency

(* Metadata and body belong together in every answer and under every       *)
(* digest, whoever writes, reads and evicts at once, as long as no write   *)
(* stopped between the two files.                                          *)
WholeUnlessTorn == torn \/ (ServedWhole /\ DigestsImmutable)

=============================================================================
