---------------------------- MODULE RegistryAuth ----------------------------
(***************************************************************************)
(* How requests to registries are authenticated: the bearer tokens cached  *)
(* per image, the hosts known to ask for basic credentials, the rotating   *)
(* ECR credentials behind their own mutex, the challenge on a 401 and the  *)
(* one retry after it.  Goroutines share the caches; upstream judges a     *)
(* credential some time after it was read.  A step is one critical section *)
(* or one answer from the network.                                         *)
(***************************************************************************)
EXTENDS Integers, FiniteSets

CONSTANTS Proc,        \* goroutines with a request to upstream
          Image,       \* <<host, repository>> pairs
          Traffic,     \* sets of images that may be asked for together
          Asks,        \* what each host demands: nothing, bearer or basic
          Login,       \* what is configured for it: none, static or ecr
          Grants,      \* what token endpoints answer: the expires_in they
                       \* announce and the time the token really lives
          EcrLives,    \* how long AWS lets an authorization token live
          Margin, Floor,          \* fetchToken's 30 and 30 seconds
          EcrMargin, EcrDefault,  \* ecrRefreshMargin and the 12 hours
          MaxLatency,  \* bound: ticks an answer is under way
          MaxClock,    \* bound: no tick after that many
          Faults,      \* failures the environment may inject
          Nobody

Host == {i[1] : i \in Image}

ASSUME AuthAssumption ==
  /\ Nobody \notin Proc /\ Image # {}
  /\ Traffic \subseteq SUBSET Image
  /\ Asks \in [Host -> {"nothing", "bearer", "basic"}]
  /\ Login \in [Host -> {"none", "static", "ecr"}]
  /\ Grants \subseteq [announced : Nat, life : Nat]
  /\ EcrLives \subseteq Nat
  /\ Margin \in Nat /\ Floor \in Nat /\ EcrMargin \in Nat /\ EcrDefault \in Nat
  /\ MaxLatency \in Nat /\ MaxClock \in Nat
  /\ Faults \subseteq {"upstream", "challenge", "token", "aws", "revoke"}

(* What is taken of the network and of the registries: an answer arrives   *)
(* well within the margins, expires_in does not exceed the token's life,   *)
(* and AWS grants the twelve hours that are assumed of it.                 *)
ASSUME LatencyAssumption ==
  /\ Floor > 0 /\ 2 * MaxLatency <= Margin /\ 2 * MaxLatency <= EcrMargin
  /\ \A g \in Grants : g.announced <= g.life
  /\ \A life \in EcrLives : 2 * MaxLatency < life /\ EcrDefault <= life

VARIABLES images,      \* the images that clients ask for
          clock,       \* time.Now(), the same for everyone
          tokenCache,  \* the token cached for an image and its expiresAt
          basicHosts,  \* hosts that answered a Basic challenge
          ecrCache,    \* the ECR credential cached for a host, its expiresAt
          ecrLock,     \* who holds ecrCredentials.mu
          proc         \* program counter and locals of each goroutine

vars == <<images, clock, tokenCache, basicHosts, ecrCache, ecrLock, proc>>
world == <<images, clock>>
caches == <<tokenCache, basicHosts, ecrCache>>

(* A credential as upstream sees it: good until some time, for the life it *)
(* was issued with, unless withdrawn before.                               *)
Credential == [type : {"none", "static", "token", "ecr"},
               until : Nat, life : Nat, withdrawn : BOOLEAN]

Anonymous == [type |-> "none", until |-> 0, life |-> 0, withdrawn |-> FALSE]
Static    == [Anonymous EXCEPT !.type = "static"]
Issued(type, life) ==
  [type |-> type, until |-> clock + life, life |-> life, withdrawn |-> FALSE]

Entry == [cred : Credential, expiresAt : Nat]

PC == {"idle", "apply", "creds", "aws", "keep", "token", "store", "mark", "send", "done"}

Frame == [pc : PC, image : Image, retry : BOOLEAN, then : PC, cred : Credential,
          since : 0..MaxClock, ttl : Nat,
          answer : {"none", "served", "failed", "unauthorized"}]

AnyImage == CHOOSE i \in Image : TRUE

Idle == [pc |-> "idle", image |-> AnyImage, retry |-> FALSE, then |-> "idle",
         cred |-> Anonymous, since |-> 0, ttl |-> 0, answer |-> "none"]

TypeOK ==
  /\ images \in Traffic /\ clock \in 0..MaxClock
  /\ DOMAIN tokenCache \subseteq Image
  /\ \A i \in DOMAIN tokenCache : tokenCache[i] \in Entry
  /\ basicHosts \subseteq Host
  /\ DOMAIN ecrCache \subseteq Host
  /\ \A h \in DOMAIN ecrCache : ecrCache[h] \in Entry
  /\ ecrLock \in Proc \cup {Nobody}
  /\ proc \in [Proc -> Frame]

Init ==
  /\ images \in Traffic /\ clock = 0
  /\ tokenCache = [i \in {} |-> Anonymous] /\ basicHosts = {}
  /\ ecrCache = [h \in {} |-> Anonymous] /\ ecrLock = Nobody
  /\ proc = [p \in Proc |-> Idle]

At(p, pc) == proc[p].pc = pc
HostOf(p) == proc[p].image[1]
Locals(p, w) == proc' = [proc EXCEPT ![p] = w]
Goto(p, pc) == Locals(p, [proc[p] EXCEPT !.pc = pc])
(* Only of a request that was refused does it matter with what.            *)
Reply(p, answer) ==
  LET w == [Idle EXCEPT !.pc = "done", !.answer = answer] IN
  Locals(p, IF answer = "unauthorized"
              THEN [w EXCEPT !.image = proc[p].image, !.cred = proc[p].cred]
              ELSE w)

(* Credentials are sought for a step, or one is taken to it; what is taken *)
(* upstream grows old on the way.                                          *)
Seek(p, then) == Locals(p, [proc[p] EXCEPT !.pc = "creds", !.then = then,
                                           !.cred = Anonymous, !.since = 0])
With(p, pc, cred) ==
  Locals(p, [proc[p] EXCEPT !.pc = pc, !.cred = cred,
                            !.since = IF pc = "token" THEN 0 ELSE clock])

Put(cache, k, cred, expiresAt) ==
  [x \in DOMAIN cache \cup {k} |->
     IF x = k THEN [cred |-> cred, expiresAt |-> expiresAt] ELSE cache[x]]

-----------------------------------------------------------------------------
Arrive(p) ==
  /\ At(p, "idle")
  /\ \E i \in images : Locals(p, [Idle EXCEPT !.pc = "apply", !.image = i])
  /\ UNCHANGED <<world, caches, ecrLock>>

Unexpired(i) == i \in DOMAIN tokenCache /\ clock < tokenCache[i].expiresAt

(* What is known of the host and the repository is applied at once: a      *)
(* token, or basic credentials for a host that asked for them before.      *)
ApplyCachedAuth(p) ==
  LET i == proc[p].image IN
  /\ At(p, "apply")
  /\ \/ Unexpired(i) /\ With(p, "send", tokenCache[i].cred)
     \/ ~Unexpired(i) /\ i[1] \in basicHosts /\ Seek(p, "send")
     \/ ~Unexpired(i) /\ i[1] \notin basicHosts /\ With(p, "send", Anonymous)
  /\ UNCHANGED <<world, caches, ecrLock>>

(* credentialsFor, but for ECR hosts.  Only a retry insists on having any. *)
CredentialsFor(p) ==
  LET w == proc[p] IN
  /\ At(p, "creds")
  /\ \/ Login[HostOf(p)] = "none"
        /\ IF w.then = "mark" THEN Reply(p, "failed") ELSE With(p, w.then, Anonymous)
     \/ Login[HostOf(p)] = "static" /\ With(p, w.then, Static)
  /\ UNCHANGED <<world, caches, ecrLock>>

(* Mutant of Due: an ECR credential is used up to its last moment. *)
DueWhenExpired(h) == h \in DOMAIN ecrCache => clock >= ecrCache[h].expiresAt

(* The cached ECR credential is missing or close to its expiry. *)
Due(h) == h \in DOMAIN ecrCache => clock >= ecrCache[h].expiresAt - EcrMargin

(* Mutant of GetEcr: AWS is asked without the mutex. *)
GetEcrUnlocked(p) ==
  LET h == HostOf(p) IN
  /\ At(p, "creds") /\ Login[h] = "ecr"
  /\ ecrLock = Nobody
  /\ IF Due(h) THEN Goto(p, "aws") ELSE With(p, proc[p].then, ecrCache[h].cred)
  /\ UNCHANGED <<world, caches, ecrLock>>

(* credentialsFor an ECR host: its cache answers, or AWS is asked with the *)
(* mutex held.                                                             *)
GetEcr(p) ==
  LET h == HostOf(p) IN
  /\ At(p, "creds") /\ Login[h] = "ecr"
  /\ ecrLock = Nobody
  /\ IF Due(h)
       THEN Goto(p, "aws") /\ ecrLock' = p
       ELSE With(p, proc[p].then, ecrCache[h].cred) /\ UNCHANGED ecrLock
  /\ UNCHANGED <<world, caches>>

(* Mutant of AwsFails: the error return keeps the mutex. *)
AwsFailsHolding(p) == "aws" \in Faults /\ Reply(p, "failed") /\ UNCHANGED ecrLock

AwsFails(p) == "aws" \in Faults /\ Reply(p, "failed") /\ ecrLock' = Nobody

AskAws(p) ==
  /\ At(p, "aws")
  /\ \/ \E life \in EcrLives : With(p, "keep", Issued("ecr", life)) /\ UNCHANGED ecrLock
     \/ AwsFails(p)
  /\ UNCHANGED <<world, caches>>

(* AWS says when the token expires, or twelve hours are assumed. *)
KeepEcr(p) ==
  LET w == proc[p] IN
  /\ At(p, "keep")
  /\ \E expiresAt \in {w.cred.until, clock + EcrDefault} :
       ecrCache' = Put(ecrCache, HostOf(p), w.cred, expiresAt)
  /\ With(p, w.then, w.cred)
  /\ ecrLock' = Nobody
  /\ UNCHANGED <<world, tokenCache, basicHosts>>

-----------------------------------------------------------------------------
Good(cred) ==
  /\ ~cred.withdrawn
  /\ cred.type \in {"token", "ecr"} => clock < cred.until

Accepts(h, cred) ==
  CASE Asks[h] = "nothing" -> TRUE
    [] Asks[h] = "bearer"  -> cred.type = "token" /\ Good(cred)
    [] Asks[h] = "basic"   -> cred.type \in {"static", "ecr"} /\ Good(cred)

(* Mutants of Lifetime: no margin is left, and expires_in, which may be    *)
(* absent, is not raised to the floor.                                     *)
LifetimeWhole(announced) == IF announced < Floor THEN Floor ELSE announced

LifetimeUnraised(announced) == announced - Margin

(* fetchToken's ttl. *)
Lifetime(announced) == IF announced - Margin < Floor THEN Floor ELSE announced - Margin

(* The token endpoint grants a token, or refuses, with the credentials     *)
(* that were sent to it, if any.                                           *)
AskToken(p) ==
  LET w == proc[p] IN
  /\ At(p, "token")
  /\ \/ /\ Good(w.cred)
        /\ \E g \in Grants :
             Locals(p, [w EXCEPT !.pc = "store", !.cred = Issued("token", g.life),
                                 !.since = clock, !.ttl = Lifetime(g.announced)])
     \/ /\ "token" \in Faults \/ ~Good(w.cred)
        /\ Reply(p, "failed")
  /\ UNCHANGED <<world, caches, ecrLock>>

(* Mutant of StoreToken: a token another request has cached is preferred   *)
(* to the one that was granted.                                            *)
StoreTokenOnce(p) ==
  LET w == proc[p] IN
  /\ At(p, "store")
  /\ tokenCache' = IF w.image \in DOMAIN tokenCache THEN tokenCache
                   ELSE Put(tokenCache, w.image, w.cred, clock + w.ttl)
  /\ Locals(p, [w EXCEPT !.pc = "send", !.cred = tokenCache'[w.image].cred,
                         !.since = clock, !.ttl = 0])
  /\ UNCHANGED <<world, basicHosts, ecrCache, ecrLock>>

(* The token is cached, over one that another request may have cached in   *)
(* the meantime, and its life counts from now.                             *)
StoreToken(p) ==
  LET w == proc[p] IN
  /\ At(p, "store")
  /\ tokenCache' = Put(tokenCache, w.image, w.cred, clock + w.ttl)
  /\ Locals(p, [w EXCEPT !.pc = "send", !.since = clock, !.ttl = 0])
  /\ UNCHANGED <<world, basicHosts, ecrCache, ecrLock>>

MarkBasic(p) ==
  /\ At(p, "mark")
  /\ basicHosts' = basicHosts \cup {HostOf(p)}
  /\ Goto(p, "send")
  /\ UNCHANGED <<world, tokenCache, ecrCache, ecrLock>>

(* Upstream judges the request.  The first 401 is a challenge, if it can   *)
(* be understood; the second is the answer.                                *)
Send(p) ==
  LET w == proc[p] IN
  /\ At(p, "send")
  /\ \/ Accepts(HostOf(p), w.cred) /\ Reply(p, "served")
     \/ "upstream" \in Faults /\ Reply(p, "failed")
     \/ /\ ~Accepts(HostOf(p), w.cred)
        /\ \/ w.retry /\ Reply(p, "unauthorized")
           \/ ~w.retry /\ "challenge" \in Faults /\ Reply(p, "failed")
           \/ /\ ~w.retry
              /\ Locals(p, [w EXCEPT !.pc = "creds", !.retry = TRUE,
                                     !.cred = Anonymous, !.since = 0,
                   !.then = IF Asks[HostOf(p)] = "bearer" THEN "token" ELSE "mark"])
  /\ UNCHANGED <<world, caches, ecrLock>>

Done(p) ==
  /\ At(p, "done")
  /\ Locals(p, Idle)
  /\ UNCHANGED <<world, caches, ecrLock>>

-----------------------------------------------------------------------------
(* The environment.  An answer is under way for a bounded time; a wait for *)
(* the mutex is not bounded.                                               *)
UnderWay(p) == proc[p].pc \in {"store", "keep", "mark", "send"}

Tick ==
  /\ clock < MaxClock
  /\ \A p \in Proc : UnderWay(p) => clock - proc[p].since < MaxLatency
  /\ clock' = clock + 1
  /\ UNCHANGED <<images, caches, ecrLock, proc>>

Withdraw(cred) == [cred EXCEPT !.withdrawn = @ \/ cred.type \in {"token", "ecr"}]

(* All that was issued for a host stops being accepted by it. *)
Revoke(h) ==
  /\ "revoke" \in Faults
  /\ tokenCache' = [i \in DOMAIN tokenCache |->
       IF i[1] = h THEN [tokenCache[i] EXCEPT !.cred = Withdraw(@)] ELSE tokenCache[i]]
  /\ ecrCache' = [x \in DOMAIN ecrCache |->
       IF x = h THEN [ecrCache[x] EXCEPT !.cred = Withdraw(@)] ELSE ecrCache[x]]
  /\ proc' = [p \in Proc |->
       IF HostOf(p) = h THEN [proc[p] EXCEPT !.cred = Withdraw(@)] ELSE proc[p]]
  /\ UNCHANGED <<world, basicHosts, ecrLock>>

Step(p) ==
  \/ ApplyCachedAuth(p) \/ CredentialsFor(p) \/ GetEcr(p) \/ AskAws(p)
  \/ KeepEcr(p) \/ AskToken(p) \/ StoreToken(p) \/ MarkBasic(p) \/ Send(p)
  \/ Done(p)

Next ==
  \/ \E p \in Proc : Arrive(p) \/ Step(p)
  \/ Tick
  \/ \E h \in Host : Revoke(h)

Spec == Init /\ [][Next]_vars

(* Go runs every runnable goroutine and its mutexes hand over to a waiter  *)
(* that starves; the HTTP client gives up after five minutes and the       *)
(* request of a client that leaves is cancelled, at AWS too.               *)
Fairness == \A p \in Proc : SF_vars(Step(p))

FairSpec == Spec /\ Fairness

-----------------------------------------------------------------------------
(* Nothing stale in a cache fails a request by itself: a 401 reaches the   *)
(* client only if the credential of the retry was withdrawn, or lives no   *)
(* longer than two answers take.                                           *)
RefusedOnlyIfWithdrawn ==
  \A p \in Proc :
    At(p, "done") /\ proc[p].answer = "unauthorized" =>
      \/ proc[p].cred.withdrawn
      \/ proc[p].cred.type \in {"token", "ecr"} /\ proc[p].cred.life <= 2 * MaxLatency

(* A token that lives long enough for the margin and the floor of          *)
(* fetchToken is alive when it arrives upstream, from the cache or fresh,  *)
(* however late in its life it was taken.                                  *)
TokensArriveAlive ==
  \A p \in Proc :
    At(p, "send") /\ proc[p].cred.type = "token"
      /\ proc[p].cred.life >= Margin + Floor
      => clock < proc[p].cred.until

(* No request reaches ECR with an expired credential: it is refreshed in   *)
(* time, whichever goroutine holds it and however long it waited.          *)
EcrArrivesAlive ==
  \A p \in Proc :
    At(p, "send") /\ proc[p].cred.type = "ecr" => clock < proc[p].cred.until

(* Goroutines that find the credential of a host due at the same time make *)
(* one call to AWS for it, not one each.                                   *)
EcrRefreshedWhenDue ==
  [][\A h \in DOMAIN ecrCache :
       ecrCache'[h].cred.until # ecrCache[h].cred.until => Due(h)]_vars

(* Every request is answered, though one call to AWS holds up all others.  *)
RequestsAnswered == \A p \in Proc : ~At(p, "idle") ~> At(p, "idle")
=============================================================================
