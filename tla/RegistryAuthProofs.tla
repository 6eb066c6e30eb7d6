------------------------- MODULE RegistryAuthProofs -------------------------
(***************************************************************************)
(* What the caches of the registry client promise, for any goroutines,     *)
(* registries, lifetimes and margins.  The inductive invariant bounds what *)
(* each cache says of a credential by what upstream knows of it, and says  *)
(* of every goroutine that what it carries outlasts its way upstream.  A   *)
(* second one says who may replace an ECR credential, and when.            *)
(***************************************************************************)
EXTENDS RegistryAuth, TLAPS

(* No answer has been under way for longer than the bound. *)
Timely == \A p \in Proc : UnderWay(p) => clock - proc[p].since <= MaxLatency

Long(cred) == cred.life >= Margin + Floor

(* Taken at t, it is still good when it arrives. *)
Outlasts(cred, t) == t + MaxLatency < cred.until

TokensSound ==
  \A i \in DOMAIN tokenCache :
    /\ tokenCache[i].cred.type = "token"
    /\ Long(tokenCache[i].cred) =>
         tokenCache[i].expiresAt + MaxLatency <= tokenCache[i].cred.until

EcrSound ==
  \A h \in DOMAIN ecrCache :
    /\ ecrCache[h].cred.type = "ecr"
    /\ ecrCache[h].expiresAt <= ecrCache[h].cred.until + MaxLatency

(* What credentials are sought for. *)
Seeks(w) ==
  \/ w.then = "send" /\ ~w.retry
  \/ w.then = "token" /\ w.retry /\ Asks[w.image[1]] = "bearer"
  \/ w.then = "mark" /\ w.retry /\ Asks[w.image[1]] = "basic"

(* What upstream asked for, in time. *)
Suits(w) ==
  \/ Asks[w.image[1]] = "bearer" /\ w.cred.type = "token"
  \/ Asks[w.image[1]] = "basic" /\ w.cred.type \in {"static", "ecr"}

Carries(w) ==
  /\ w.pc = "apply" => ~w.retry
  /\ w.pc \in {"creds", "aws", "keep"} => Seeks(w)
  /\ w.pc = "keep" => /\ w.cred.type = "ecr" /\ w.cred.life \in EcrLives
                      /\ w.cred.until = w.since + w.cred.life
  /\ w.pc = "token" => w.retry /\ Asks[w.image[1]] = "bearer"
  /\ w.pc = "store" => /\ w.retry /\ Suits(w)
                       /\ w.cred.type = "token" /\ w.cred.until = w.since + w.cred.life
                       /\ Long(w.cred) => w.ttl + Margin <= w.cred.life
  /\ w.pc = "mark" => w.retry /\ Suits(w)
  /\ w.pc \in {"mark", "send"} =>
       /\ w.cred.type = "ecr" => Outlasts(w.cred, w.since)
       /\ w.cred.type = "token" /\ Long(w.cred) => Outlasts(w.cred, w.since)
       /\ w.cred.type = "token" /\ w.retry /\ w.cred.life > 2 * MaxLatency
            => Outlasts(w.cred, w.since)
       /\ w.retry => Suits(w)
       /\ w.cred.type \notin {"token", "ecr"} => ~w.cred.withdrawn

Inv == /\ TypeOK /\ Timely /\ TokensSound /\ EcrSound
       /\ \A p \in Proc : Carries(proc[p])
       /\ RefusedOnlyIfWithdrawn

(* The bounds are numbers. *)
LEMMA Bounds == 0 \in 0..MaxClock /\ MaxLatency \in Nat
  BY AuthAssumption

(* The types of what the actions are made of. *)
LEMMA Types ==
  /\ AnyImage \in Image /\ Idle.image \in Image
  /\ Anonymous \in Credential /\ Static \in Credential
  /\ \A i \in Image : i[1] \in Host
  /\ \A announced \in Nat : Lifetime(announced) \in Nat
<1>1. AnyImage \in Image /\ Idle.image \in Image
  BY AuthAssumption DEF AnyImage, Idle
<1>2. Anonymous \in Credential /\ Static \in Credential
  BY DEF Anonymous, Static, Credential
<1>3. \A i \in Image : i[1] \in Host
  BY DEF Host
<1>4. \A announced \in Nat : Lifetime(announced) \in Nat
  BY AuthAssumption DEF Lifetime
<1>5. QED
  BY <1>1, <1>2, <1>3, <1>4

LEMMA IdleType == Idle \in Frame
  BY Types, AuthAssumption DEF Idle, PC, Frame

LEMMA InitInv == Init => Inv
<1> SUFFICES ASSUME Init PROVE Inv
  OBVIOUS
<1>1. TypeOK
  BY Types, IdleType, AuthAssumption DEF Init, TypeOK
<1>2. Timely /\ TokensSound /\ EcrSound /\ RefusedOnlyIfWithdrawn
  BY DEF Init, Timely, UnderWay, TokensSound, EcrSound, RefusedOnlyIfWithdrawn, At, Idle
<1>3. \A p \in Proc : Carries(proc[p])
  BY DEF Init, Carries, Idle
<1>4. QED
  BY <1>1, <1>2, <1>3 DEF Inv

CacheTypes ==
  /\ DOMAIN tokenCache \subseteq Image
  /\ \A i \in DOMAIN tokenCache : tokenCache[i] \in Entry
  /\ basicHosts \subseteq Host
  /\ DOMAIN ecrCache \subseteq Host
  /\ \A h \in DOMAIN ecrCache : ecrCache[h] \in Entry

(* What p may carry after a step of its own. *)
Sound(w) ==
  /\ w \in Frame /\ Carries(w)
  /\ w.pc \in {"store", "keep", "mark", "send"} => clock - w.since <= MaxLatency
  /\ w.pc = "done" /\ w.answer = "unauthorized" =>
       \/ w.cred.withdrawn
       \/ w.cred.type \in {"token", "ecr"} /\ w.cred.life <= 2 * MaxLatency

(* A step of p is sound if what it leaves in the caches and what p carries *)
(* after it are.                                                           *)
LEMMA AnyStep ==
  ASSUME Inv, NEW p \in Proc, NEW w, Locals(p, w), Sound(w), UNCHANGED world,
         ecrLock' \in Proc \cup {Nobody}, CacheTypes', TokensSound', EcrSound'
  PROVE  Inv'
<1>1. proc' = [proc EXCEPT ![p] = w] /\ proc' \in [Proc -> Frame]
  BY DEF Inv, TypeOK, Locals, Sound
<1>2. TypeOK'
  BY <1>1 DEF Inv, TypeOK, world, CacheTypes
<1>3. Timely'
  BY <1>1 DEF Inv, Timely, UnderWay, world, Sound
<1>4. \A q \in Proc : Carries(proc'[q])
  BY <1>1 DEF Inv, Sound
<1>5. RefusedOnlyIfWithdrawn'
  BY <1>1 DEF Inv, RefusedOnlyIfWithdrawn, At, Sound
<1>6. QED
  BY <1>1, <1>2, <1>3, <1>4, <1>5 DEF Inv

LEMMA OwnStep ==
  ASSUME Inv, NEW p \in Proc, NEW w, Locals(p, w), UNCHANGED <<world, caches>>,
         ecrLock' \in Proc \cup {Nobody}, w \in Frame, Carries(w),
         w.pc \in {"store", "keep", "mark", "send"} => clock - w.since <= MaxLatency,
         w.pc = "done" /\ w.answer = "unauthorized" =>
           \/ w.cred.withdrawn
           \/ w.cred.type \in {"token", "ecr"} /\ w.cred.life <= 2 * MaxLatency
  PROVE  Inv'
<1>1. CacheTypes' /\ TokensSound' /\ EcrSound'
  BY DEF Inv, TypeOK, CacheTypes, TokensSound, EcrSound, caches
<1>2. Sound(w)
  BY DEF Sound
<1>3. QED
  BY <1>1, <1>2, AnyStep

(* The goroutine's locals, and the entry a cache holds for it. *)
LEMMA LocalsType ==
  ASSUME Inv, NEW p \in Proc
  PROVE  /\ proc[p] \in Frame
         /\ Carries(proc[p]) /\ clock \in 0..MaxClock /\ ecrLock \in Proc \cup {Nobody}
         /\ HostOf(p) \in Host
  BY Types DEF Inv, TypeOK, HostOf, Frame

LEMMA ReplyKeepsInv ==
  ASSUME Inv, NEW p \in Proc, NEW answer \in {"served", "failed"}, Reply(p, answer),
         UNCHANGED <<world, caches>>, ecrLock' \in Proc \cup {Nobody}
  PROVE  Inv'
<1> DEFINE w == [Idle EXCEPT !.pc = "done", !.answer = answer]
<1>1. Locals(p, w)
  BY DEF Reply
<1>2. w \in Frame
  BY IdleType DEF PC, Frame
<1>3. w.pc = "done" /\ w.answer # "unauthorized"
  BY DEF Idle
<1>4. Carries(w)
  BY <1>3 DEF Carries
<1> HIDE DEF w
<1>5. QED
  BY <1>1, <1>2, <1>3, <1>4, OwnStep

LEMMA ArriveKeepsInv ==
  ASSUME Inv, NEW p \in Proc, Arrive(p)
  PROVE  Inv'
<1>1. PICK i \in images : Locals(p, [Idle EXCEPT !.pc = "apply", !.image = i])
  BY DEF Arrive
<1> DEFINE w == [Idle EXCEPT !.pc = "apply", !.image = i]
<1>2. i \in Image
  BY AuthAssumption DEF Inv, TypeOK
<1>3. w \in Frame
  BY <1>2, IdleType DEF PC, Frame
<1>4. w.pc = "apply" /\ ~w.retry
  BY DEF Idle
<1>5. Carries(w)
  BY <1>4 DEF Carries
<1>6. Locals(p, w)
  BY <1>1
<1>7. UNCHANGED <<world, caches>> /\ ecrLock' \in Proc \cup {Nobody}
  BY LocalsType DEF Arrive, world, caches
<1> HIDE DEF w
<1>8. QED
  BY <1>3, <1>4, <1>5, <1>6, <1>7, OwnStep

LEMMA DoneKeepsInv ==
  ASSUME Inv, NEW p \in Proc, Done(p)
  PROVE  Inv'
<1>1. Idle \in Frame
  BY IdleType
<1>2. Idle.pc = "idle"
  BY DEF Idle
<1>3. Carries(Idle)
  BY <1>2 DEF Carries
<1>4. Locals(p, Idle) /\ UNCHANGED <<world, caches>> /\ ecrLock' \in Proc \cup {Nobody}
  BY LocalsType DEF Done, world, caches
<1>5. QED
  BY <1>1, <1>2, <1>3, <1>4, OwnStep

LEMMA ApplyKeepsInv ==
  ASSUME Inv, NEW p \in Proc, ApplyCachedAuth(p)
  PROVE  Inv'
<1> USE LocalsType DEF At
<1>1. UNCHANGED <<world, caches>> /\ ecrLock' \in Proc \cup {Nobody} /\ ~proc[p].retry
  BY DEF ApplyCachedAuth, Carries, world, caches
<1>2. CASE Unexpired(proc[p].image) /\ With(p, "send", tokenCache[proc[p].image].cred)
  <2> DEFINE e == tokenCache[proc[p].image]
             w == [proc[p] EXCEPT !.pc = "send", !.cred = e.cred, !.since = clock]
  <2>1. /\ e.cred \in Credential /\ e.expiresAt \in Nat /\ clock < e.expiresAt
        /\ e.cred.type = "token"
        /\ Long(e.cred) => e.expiresAt + MaxLatency <= e.cred.until
    BY <1>2 DEF Inv, TypeOK, Entry, Unexpired, TokensSound
  <2> HIDE DEF e
  <2>2. w \in Frame /\ w.pc = "send" /\ w.cred = e.cred /\ w.since = clock /\ ~w.retry
    BY <1>1, <2>1 DEF Frame, PC
  <2>3. Locals(p, w)
    BY <1>2 DEF With, e
  <2> HIDE DEF w
  <2>4. Long(w.cred) => Outlasts(w.cred, w.since)
    BY <2>1, <2>2, AuthAssumption DEF Outlasts, Credential
  <2>5. Carries(w)
    BY <2>1, <2>2, <2>4 DEF Carries
  <2>6. clock - w.since <= MaxLatency
    BY <2>2, AuthAssumption
  <2>7. QED
    BY <1>1, <2>2, <2>3, <2>5, <2>6, OwnStep
<1>3. CASE Seek(p, "send")
  <2> DEFINE w == [proc[p] EXCEPT !.pc = "creds", !.then = "send", !.cred = Anonymous, !.since = 0]
  <2>1. w \in Frame /\ w.pc = "creds" /\ w.then = "send" /\ ~w.retry
    BY <1>1, Types, Bounds DEF Frame, PC
  <2>2. Locals(p, w)
    BY <1>3 DEF Seek
  <2> HIDE DEF w
  <2>3. Carries(w)
    BY <2>1 DEF Carries, Seeks
  <2>4. QED
    BY <1>1, <2>1, <2>2, <2>3, OwnStep
<1>4. CASE With(p, "send", Anonymous)
  <2> DEFINE w == [proc[p] EXCEPT !.pc = "send", !.cred = Anonymous, !.since = clock]
  <2>1. w \in Frame /\ w.pc = "send" /\ w.cred = Anonymous /\ w.since = clock /\ ~w.retry
    BY <1>1, Types DEF Frame, PC
  <2>2. Locals(p, w)
    BY <1>4 DEF With
  <2> HIDE DEF w
  <2>3. Carries(w)
    BY <2>1 DEF Carries, Anonymous
  <2>4. clock - w.since <= MaxLatency
    BY <2>1, AuthAssumption
  <2>5. QED
    BY <1>1, <2>1, <2>2, <2>3, <2>4, OwnStep
<1>5. QED
  BY <1>2, <1>3, <1>4 DEF ApplyCachedAuth

(* Credentials that were found are carried to the step they were sought    *)
(* for, if an ECR credential outlasts its way.                             *)
LEMMA FoundSound ==
  ASSUME Inv, NEW p \in Proc, proc[p].pc \in {"creds", "keep"},
         NEW cred \in Credential, With(p, proc[p].then, cred),
         cred.type = "ecr" => Outlasts(cred, clock), cred.type # "token",
         cred.type # "ecr" => ~cred.withdrawn,
         proc[p].then = "mark" => cred.type \in {"static", "ecr"}
  PROVE  \E w : Sound(w) /\ Locals(p, w)
<1> DEFINE next == proc[p].then
           w == [proc[p] EXCEPT !.pc = next, !.cred = cred,
                                !.since = IF next = "token" THEN 0 ELSE clock]
<1>1. Seeks(proc[p]) /\ next \in {"send", "token", "mark"}
  BY LocalsType DEF Carries, Seeks
<1>2. /\ w \in Frame /\ w.pc = next /\ w.cred = cred /\ w.retry = proc[p].retry
      /\ w.image = proc[p].image /\ (next # "token" => w.since = clock)
  BY LocalsType, <1>1, Bounds DEF Frame, PC
<1>3. Locals(p, w)
  BY DEF With
<1> HIDE DEF w
<1>4. Carries(w)
  BY <1>1, <1>2 DEF Carries, Seeks, Suits
<1>5. w.pc \in {"store", "keep", "mark", "send"} => clock - w.since <= MaxLatency
  BY <1>1, <1>2, LocalsType, AuthAssumption
<1>6. QED
  BY <1>1, <1>2, <1>3, <1>4, <1>5 DEF Sound

LEMMA FoundKeepsInv ==
  ASSUME Inv, NEW p \in Proc, proc[p].pc \in {"creds", "keep"},
         NEW cred \in Credential, With(p, proc[p].then, cred),
         UNCHANGED <<world, caches>>, ecrLock' \in Proc \cup {Nobody},
         cred.type = "ecr" => Outlasts(cred, clock), cred.type # "token",
         cred.type # "ecr" => ~cred.withdrawn,
         proc[p].then = "mark" => cred.type \in {"static", "ecr"}
  PROVE  Inv'
<1>1. PICK w : Sound(w) /\ Locals(p, w)
  BY FoundSound
<1>2. CacheTypes' /\ TokensSound' /\ EcrSound'
  BY DEF Inv, TypeOK, CacheTypes, TokensSound, EcrSound, caches
<1>3. QED
  BY <1>1, <1>2, AnyStep

LEMMA CredentialsForKeepsInv ==
  ASSUME Inv, NEW p \in Proc, CredentialsFor(p)
  PROVE  Inv'
<1>1. UNCHANGED <<world, caches>> /\ ecrLock' \in Proc \cup {Nobody}
  BY LocalsType DEF CredentialsFor, world, caches
<1>2. CASE Reply(p, "failed")
  BY <1>1, <1>2, ReplyKeepsInv
<1>3. CASE proc[p].then # "mark" /\ With(p, proc[p].then, Anonymous)
  BY <1>1, <1>3, Types, FoundKeepsInv DEF CredentialsFor, At, Anonymous
<1>4. CASE With(p, proc[p].then, Static)
  BY <1>1, <1>4, Types, FoundKeepsInv DEF CredentialsFor, At, Static, Anonymous
<1>5. QED
  BY <1>2, <1>3, <1>4 DEF CredentialsFor

LEMMA GetEcrKeepsInv ==
  ASSUME Inv, NEW p \in Proc, GetEcr(p)
  PROVE  Inv'
<1> USE LocalsType DEF At
<1> DEFINE h == HostOf(p)
<1>1. UNCHANGED <<world, caches>> /\ ecrLock' \in Proc \cup {Nobody}
      /\ proc[p].pc = "creds"
  BY DEF GetEcr, world, caches
<1>2. CASE Due(h) /\ Goto(p, "aws")
  <2> DEFINE w == [proc[p] EXCEPT !.pc = "aws"]
  <2>1. w \in Frame /\ w.pc = "aws" /\ Seeks(w)
    BY <1>1 DEF Frame, PC, Carries, Seeks
  <2>2. Locals(p, w)
    BY <1>2 DEF Goto
  <2> HIDE DEF w
  <2>3. Carries(w)
    BY <2>1 DEF Carries
  <2>4. QED
    BY <1>1, <2>1, <2>2, <2>3, OwnStep
<1>3. CASE ~Due(h) /\ With(p, proc[p].then, ecrCache[h].cred)
  <2> DEFINE e == ecrCache[h]
  <2>1. /\ e.cred \in Credential /\ e.expiresAt \in Nat /\ e.cred.type = "ecr"
        /\ clock < e.expiresAt - EcrMargin /\ e.expiresAt <= e.cred.until + MaxLatency
    BY <1>3, AuthAssumption DEF Inv, TypeOK, Entry, Due, EcrSound
  <2>2. With(p, proc[p].then, e.cred)
    BY <1>3
  <2> HIDE DEF e
  <2>3. Outlasts(e.cred, clock)
    BY <2>1, AuthAssumption, LatencyAssumption DEF Outlasts, Credential
  <2>4. QED
    BY <1>1, <2>1, <2>2, <2>3, FoundKeepsInv
<1>4. QED
  BY <1>2, <1>3 DEF GetEcr

(* A credential that is issued is good for its life from now. *)
LEMMA IssuedType ==
  ASSUME Inv, NEW life \in Nat, NEW type \in {"token", "ecr"}
  PROVE  LET c == Issued(type, life) IN
         /\ c \in Credential /\ c.type = type /\ c.life = life
         /\ c.until = clock + life /\ ~c.withdrawn
<1>1. clock \in Nat
  BY DEF Inv, TypeOK
<1>2. clock + life \in Nat
  BY <1>1
<1>3. QED
  BY <1>2 DEF Issued, Credential

LEMMA AskAwsKeepsInv ==
  ASSUME Inv, NEW p \in Proc, AskAws(p)
  PROVE  Inv'
<1> USE LocalsType DEF At
<1>1. UNCHANGED <<world, caches>> /\ ecrLock' \in Proc \cup {Nobody}
  BY DEF AskAws, AwsFails, world, caches
<1>2. CASE AwsFails(p)
  BY <1>1, <1>2, ReplyKeepsInv DEF AwsFails
<1>3. ASSUME NEW life \in EcrLives, With(p, "keep", Issued("ecr", life))
      PROVE  Inv'
  <2> DEFINE c == Issued("ecr", life)
             w == [proc[p] EXCEPT !.pc = "keep", !.cred = c, !.since = clock]
  <2>1. life \in Nat
    BY AuthAssumption
  <2>2. c \in Credential /\ c.type = "ecr" /\ c.life = life /\ c.until = clock + life
    BY <2>1, IssuedType
  <2>3. Locals(p, w)
    BY <1>3 DEF With
  <2> HIDE DEF c
  <2>4. /\ w \in Frame /\ w.pc = "keep" /\ w.cred = c /\ w.since = clock
        /\ w.then = proc[p].then /\ w.retry = proc[p].retry /\ w.image = proc[p].image
    BY <2>2 DEF Frame, PC
  <2> HIDE DEF w
  <2>5. Seeks(w)
    BY <2>4 DEF AskAws, Carries, Seeks
  <2>6. Carries(w)
    BY <2>2, <2>4, <2>5 DEF Carries
  <2>7. clock - w.since <= MaxLatency
    BY <2>4, Bounds
  <2>8. QED
    BY <1>1, <2>3, <2>4, <2>6, <2>7, OwnStep
<1>4. QED
  BY <1>2, <1>3 DEF AskAws

LEMMA KeepEcrKeepsInv ==
  ASSUME Inv, NEW p \in Proc, KeepEcr(p)
  PROVE  Inv'
<1> USE LocalsType DEF At
<1> DEFINE c == proc[p].cred
           h == HostOf(p)
<1>1. /\ proc[p].pc = "keep" /\ c \in Credential /\ c.type = "ecr" /\ c.life \in EcrLives
      /\ c.until = proc[p].since + c.life /\ clock - proc[p].since <= MaxLatency
      /\ proc[p].since \in Nat /\ clock \in Nat
  BY DEF KeepEcr, Carries, Frame, Inv, Timely, UnderWay
<1>2. PICK expiresAt \in {c.until, clock + EcrDefault} : ecrCache' = Put(ecrCache, h, c, expiresAt)
  BY DEF KeepEcr
<1>3. With(p, proc[p].then, c) /\ ecrLock' = Nobody /\ UNCHANGED <<world, tokenCache, basicHosts>>
  BY DEF KeepEcr
<1>4. h \in Host
  OBVIOUS
<1> HIDE DEF c, h
<1>5. /\ c.life \in Nat /\ c.until \in Nat /\ 2 * MaxLatency < c.life
      /\ EcrDefault \in Nat /\ EcrDefault <= c.life
  BY <1>1, AuthAssumption, LatencyAssumption DEF Credential
<1>6. expiresAt \in Nat /\ expiresAt <= c.until + MaxLatency
  BY <1>1, <1>2, <1>5, Bounds
<1>7. Outlasts(c, clock)
  BY <1>1, <1>5, Bounds DEF Outlasts
<1>8. PICK w : Sound(w) /\ Locals(p, w)
  BY <1>1, <1>3, <1>7, FoundSound
<1>9. \A x \in DOMAIN ecrCache' : \/ ecrCache'[x] = [cred |-> c, expiresAt |-> expiresAt]
                                  \/ x \in DOMAIN ecrCache /\ ecrCache'[x] = ecrCache[x]
  BY <1>2 DEF Put
<1>10. DOMAIN ecrCache' = DOMAIN ecrCache \cup {h}
  BY <1>2 DEF Put
<1>11. CacheTypes'
  BY <1>1, <1>3, <1>4, <1>6, <1>9, <1>10 DEF CacheTypes, Inv, TypeOK, Entry
<1>12. TokensSound' /\ EcrSound'
  BY <1>1, <1>3, <1>6, <1>9 DEF TokensSound, EcrSound, Inv
<1>13. QED
  BY <1>3, <1>8, <1>11, <1>12, AnyStep DEF world

LEMMA AskTokenKeepsInv ==
  ASSUME Inv, NEW p \in Proc, AskToken(p)
  PROVE  Inv'
<1> USE LocalsType DEF At
<1>1. UNCHANGED <<world, caches>> /\ ecrLock' \in Proc \cup {Nobody}
      /\ proc[p].retry /\ Asks[proc[p].image[1]] = "bearer"
  BY DEF AskToken, world, caches, Carries
<1>2. CASE Reply(p, "failed")
  BY <1>1, <1>2, ReplyKeepsInv
<1>3. ASSUME NEW g \in Grants,
             Locals(p, [proc[p] EXCEPT !.pc = "store", !.cred = Issued("token", g.life),
                                       !.since = clock, !.ttl = Lifetime(g.announced)])
      PROVE  Inv'
  <2> DEFINE c == Issued("token", g.life)
             ttl == Lifetime(g.announced)
             w == [proc[p] EXCEPT !.pc = "store", !.cred = c, !.since = clock, !.ttl = ttl]
  <2>1. g.life \in Nat /\ g.announced \in Nat /\ g.announced <= g.life
    BY AuthAssumption, LatencyAssumption
  <2>2. c \in Credential /\ c.type = "token" /\ c.life = g.life /\ c.until = clock + g.life
    BY <2>1, IssuedType
  <2>3. Locals(p, w)
    BY <1>3
  <2>4. ttl \in Nat
    BY <2>1, Types
  <2>5. Long(c) => ttl + Margin <= c.life
    BY <2>1, <2>2, AuthAssumption DEF Lifetime, Long
  <2> HIDE DEF c, ttl
  <2>6. /\ w \in Frame /\ w.pc = "store" /\ w.cred = c /\ w.since = clock /\ w.ttl = ttl
        /\ w.retry = proc[p].retry /\ w.image = proc[p].image
    BY <2>2, <2>4 DEF Frame, PC
  <2> HIDE DEF w
  <2>7. Carries(w)
    BY <1>1, <2>2, <2>5, <2>6 DEF Carries, Suits
  <2>8. clock - w.since <= MaxLatency
    BY <2>6, Bounds
  <2>9. QED
    BY <1>1, <2>3, <2>6, <2>7, <2>8, OwnStep
<1>4. QED
  BY <1>2, <1>3 DEF AskToken

LEMMA StoreTokenKeepsInv ==
  ASSUME Inv, NEW p \in Proc, StoreToken(p)
  PROVE  Inv'
<1> USE LocalsType DEF At
<1> DEFINE c == proc[p].cred
           i == proc[p].image
           expiresAt == clock + proc[p].ttl
           w == [proc[p] EXCEPT !.pc = "send", !.since = clock, !.ttl = 0]
<1>1. /\ proc[p].pc = "store" /\ c \in Credential /\ i \in Image /\ proc[p].ttl \in Nat
      /\ proc[p].since \in Nat /\ clock \in Nat /\ clock - proc[p].since <= MaxLatency
      /\ proc[p].retry /\ Suits(proc[p]) /\ c.type = "token"
      /\ c.until = proc[p].since + c.life /\ (Long(c) => proc[p].ttl + Margin <= c.life)
  BY DEF StoreToken, Carries, Frame, Inv, Timely, UnderWay
<1>2. /\ UNCHANGED <<world, basicHosts, ecrCache, ecrLock>>
      /\ tokenCache' = Put(tokenCache, i, c, expiresAt) /\ Locals(p, w)
  BY DEF StoreToken
<1>3. /\ w \in Frame /\ w.pc = "send" /\ w.cred = c /\ w.since = clock
      /\ w.retry = proc[p].retry /\ w.image = i
  BY <1>1, Types DEF Frame, PC
<1>4. c.life \in Nat /\ c.until \in Nat /\ expiresAt \in Nat
  BY <1>1 DEF Credential
<1>5. c.life > 2 * MaxLatency => Outlasts(c, clock)
  BY <1>1, <1>4, Bounds DEF Outlasts
<1>6. Long(c) => c.life > 2 * MaxLatency
  BY <1>4, AuthAssumption, LatencyAssumption DEF Long
<1>7. Long(c) => expiresAt + MaxLatency <= c.until
  BY <1>1, <1>4, AuthAssumption, LatencyAssumption
<1>8. Suits(w)
  BY <1>1, <1>3 DEF Suits
<1> HIDE DEF w, c, i, expiresAt
<1>9. Sound(w)
  <2>1. Carries(w)
    BY <1>1, <1>3, <1>5, <1>6, <1>8 DEF Carries
  <2>2. clock - w.since <= MaxLatency
    BY <1>1, <1>3, Bounds
  <2>3. QED
    BY <1>3, <2>1, <2>2 DEF Sound
<1>10. \A x \in DOMAIN tokenCache' :
         \/ tokenCache'[x] = [cred |-> c, expiresAt |-> expiresAt]
         \/ x \in DOMAIN tokenCache /\ tokenCache'[x] = tokenCache[x]
  BY <1>2 DEF Put
<1>11. DOMAIN tokenCache' = DOMAIN tokenCache \cup {i}
  BY <1>2 DEF Put
<1>12. CacheTypes'
  BY <1>1, <1>2, <1>4, <1>10, <1>11 DEF CacheTypes, Inv, TypeOK, Entry
<1>13. TokensSound' /\ EcrSound'
  BY <1>1, <1>2, <1>7, <1>10 DEF TokensSound, EcrSound, Inv
<1>14. QED
  BY <1>2, <1>9, <1>12, <1>13, AnyStep

LEMMA MarkBasicKeepsInv ==
  ASSUME Inv, NEW p \in Proc, MarkBasic(p)
  PROVE  Inv'
<1> USE LocalsType DEF At
<1> DEFINE w == [proc[p] EXCEPT !.pc = "send"]
<1>1. /\ proc[p].pc = "mark" /\ UNCHANGED <<world, tokenCache, ecrCache, ecrLock>>
      /\ basicHosts' = basicHosts \cup {HostOf(p)} /\ Locals(p, w)
  BY DEF MarkBasic, Goto
<1>2. /\ w \in Frame /\ w.pc = "send" /\ w.cred = proc[p].cred /\ w.since = proc[p].since
      /\ w.retry = proc[p].retry /\ w.image = proc[p].image
  BY DEF Frame, PC
<1>3. proc[p].retry /\ Suits(proc[p]) /\ clock - proc[p].since <= MaxLatency
  BY <1>1 DEF Carries, Inv, Timely, UnderWay
<1> HIDE DEF w
<1>4. Suits(w)
  BY <1>2, <1>3 DEF Suits
<1>5. Carries(w)
  BY <1>1, <1>2, <1>4 DEF Carries
<1>6. Sound(w)
  BY <1>2, <1>3, <1>5 DEF Sound
<1>7. CacheTypes' /\ TokensSound' /\ EcrSound'
  BY <1>1 DEF CacheTypes, Inv, TypeOK, TokensSound, EcrSound
<1>8. QED
  BY <1>1, <1>6, <1>7, AnyStep

(* A retry is refused only with a credential that was withdrawn, or that   *)
(* did not live for long enough to arrive.                                 *)
LEMMA RefusalExplained ==
  ASSUME Inv, NEW p \in Proc, At(p, "send"), proc[p].retry,
         ~Accepts(HostOf(p), proc[p].cred)
  PROVE  \/ proc[p].cred.withdrawn
         \/ proc[p].cred.type \in {"token", "ecr"} /\ proc[p].cred.life <= 2 * MaxLatency
<1> USE LocalsType DEF At
<1> DEFINE c == proc[p].cred
<1>1. /\ c \in Credential /\ clock \in Nat /\ proc[p].since \in Nat
      /\ clock - proc[p].since <= MaxLatency
      /\ Suits(proc[p]) /\ (c.type \notin {"token", "ecr"} => ~c.withdrawn)
      /\ (c.type = "ecr" => Outlasts(c, proc[p].since))
      /\ (c.type = "token" /\ c.life > 2 * MaxLatency => Outlasts(c, proc[p].since))
  BY DEF Carries, Inv, Timely, UnderWay, Frame
<1>2. ~Good(c)
  BY <1>1 DEF Accepts, Suits, HostOf
<1>3. c.withdrawn \/ (c.type \in {"token", "ecr"} /\ ~(clock < c.until))
  BY <1>2 DEF Good
<1>4. c.until \in Nat /\ c.life \in Nat
  BY <1>1 DEF Credential
<1>5. Outlasts(c, proc[p].since) => clock < c.until
  BY <1>1, <1>4, Bounds DEF Outlasts
<1> HIDE DEF c
<1>6. ~c.withdrawn => c.type = "token" /\ ~(c.life > 2 * MaxLatency)
  BY <1>1, <1>3, <1>5
<1>7. ~(c.life > 2 * MaxLatency) => c.life <= 2 * MaxLatency
  BY <1>4, Bounds
<1>8. QED
  BY <1>6, <1>7 DEF c

LEMMA SendKeepsInv ==
  ASSUME Inv, NEW p \in Proc, Send(p)
  PROVE  Inv'
<1> USE LocalsType
<1>1. At(p, "send") /\ UNCHANGED <<world, caches>> /\ ecrLock' \in Proc \cup {Nobody}
  BY DEF Send, world, caches
<1>2. CASE Reply(p, "served") \/ Reply(p, "failed")
  BY <1>1, <1>2, ReplyKeepsInv
<1>3. CASE ~Accepts(HostOf(p), proc[p].cred) /\ proc[p].retry /\ Reply(p, "unauthorized")
  <2> DEFINE w == [Idle EXCEPT !.pc = "done", !.answer = "unauthorized",
                               !.image = proc[p].image, !.cred = proc[p].cred]
  <2>1. Locals(p, w)
    BY <1>3 DEF Reply
  <2>2. w \in Frame /\ w.pc = "done" /\ w.cred = proc[p].cred
    BY IdleType DEF PC, Frame
  <2> HIDE DEF w
  <2>3. Carries(w)
    BY <2>2 DEF Carries
  <2>4. QED
    BY <1>1, <1>3, <2>1, <2>2, <2>3, RefusalExplained, OwnStep
<1>4. CASE /\ ~Accepts(HostOf(p), proc[p].cred) /\ ~proc[p].retry
           /\ Locals(p, [proc[p] EXCEPT !.pc = "creds", !.retry = TRUE,
                                  !.cred = Anonymous, !.since = 0,
                !.then = IF Asks[HostOf(p)] = "bearer" THEN "token" ELSE "mark"])
  <2> DEFINE then == IF Asks[HostOf(p)] = "bearer" THEN "token" ELSE "mark"
             w == [proc[p] EXCEPT !.pc = "creds", !.retry = TRUE,
                                  !.cred = Anonymous, !.since = 0, !.then = then]
  <2>1. /\ HostOf(p) = proc[p].image[1]
        /\ \/ then = "token" /\ Asks[proc[p].image[1]] = "bearer"
           \/ then = "mark" /\ Asks[proc[p].image[1]] = "basic"
    <3>1. Asks[HostOf(p)] \in {"nothing", "bearer", "basic"}
      BY AuthAssumption
    <3>2. Asks[HostOf(p)] # "nothing"
      BY <1>4 DEF Accepts
    <3>3. HostOf(p) = proc[p].image[1]
      BY DEF HostOf
    <3>4. QED
      BY <3>1, <3>2, <3>3
  <2>2. Locals(p, w)
    BY <1>4
  <2> HIDE DEF then
  <2>3. /\ w \in Frame /\ w.pc = "creds" /\ w.retry /\ w.then = then
        /\ w.image = proc[p].image
    BY <2>1, Types, Bounds DEF Frame, PC
  <2> HIDE DEF w
  <2>4. Seeks(w)
    BY <2>1, <2>3 DEF Seeks
  <2>5. Carries(w)
    BY <2>3, <2>4 DEF Carries
  <2>6. QED
    BY <1>1, <2>2, <2>3, <2>5, OwnStep
<1>5. QED
  BY <1>2, <1>3, <1>4 DEF Send

LEMMA TickKeepsInv ==
  ASSUME Inv, Tick
  PROVE  Inv'
<1>1. /\ clock < MaxClock /\ clock' = clock + 1 /\ UNCHANGED <<images, caches, ecrLock, proc>>
      /\ \A p \in Proc : UnderWay(p) => clock - proc[p].since < MaxLatency
  BY DEF Tick
<1>2. TypeOK'
  BY <1>1, AuthAssumption DEF Inv, TypeOK, caches
<1>3. Timely'
  <2> SUFFICES ASSUME NEW p \in Proc, UnderWay(p)' PROVE clock' - proc'[p].since <= MaxLatency
    BY DEF Timely
  <2>1. UnderWay(p) /\ clock \in Int /\ proc[p].since \in Int
    BY <1>1, LocalsType DEF UnderWay, Frame
  <2>2. QED
    BY <1>1, <2>1, Bounds
<1>4. TokensSound' /\ EcrSound'
  BY <1>1 DEF Inv, TokensSound, EcrSound, caches
<1>5. (\A p \in Proc : Carries(proc[p]))' /\ RefusedOnlyIfWithdrawn'
  BY <1>1 DEF Inv, RefusedOnlyIfWithdrawn, At
<1>6. QED
  BY <1>2, <1>3, <1>4, <1>5 DEF Inv

(* A withdrawn credential differs in nothing else. *)
LEMMA Withdrawn ==
  ASSUME NEW cred \in Credential
  PROVE  LET c == Withdraw(cred) IN
         /\ c \in Credential /\ c.type = cred.type /\ c.until = cred.until
         /\ c.life = cred.life /\ (cred.withdrawn => c.withdrawn)
         /\ (cred.type \notin {"token", "ecr"} /\ ~cred.withdrawn => ~c.withdrawn)
  BY DEF Withdraw, Credential

LEMMA RevokeKeepsInv ==
  ASSUME Inv, NEW h \in Host, Revoke(h)
  PROVE  Inv'
<1>1. UNCHANGED <<world, basicHosts, ecrLock>> /\ clock' = clock
  BY DEF Revoke, world
<1>2. /\ DOMAIN tokenCache' = DOMAIN tokenCache
      /\ \A i \in DOMAIN tokenCache :
           /\ tokenCache'[i] \in Entry /\ tokenCache'[i].expiresAt = tokenCache[i].expiresAt
           /\ tokenCache'[i].cred.type = tokenCache[i].cred.type
           /\ tokenCache'[i].cred.until = tokenCache[i].cred.until
           /\ tokenCache'[i].cred.life = tokenCache[i].cred.life
  BY Withdrawn DEF Revoke, Inv, TypeOK, Entry
<1>3. /\ DOMAIN ecrCache' = DOMAIN ecrCache
      /\ \A x \in DOMAIN ecrCache :
           /\ ecrCache'[x] \in Entry /\ ecrCache'[x].expiresAt = ecrCache[x].expiresAt
           /\ ecrCache'[x].cred.type = ecrCache[x].cred.type
           /\ ecrCache'[x].cred.until = ecrCache[x].cred.until
  BY Withdrawn DEF Revoke, Inv, TypeOK, Entry
<1>4. proc' = [p \in Proc |-> proc'[p]]
  BY DEF Revoke
<1>5. ASSUME NEW p \in Proc
      PROVE  /\ proc'[p] \in Frame /\ Carries(proc'[p])
             /\ proc'[p].pc = proc[p].pc /\ proc'[p].since = proc[p].since
             /\ proc'[p].answer = proc[p].answer
             /\ proc'[p].cred.type = proc[p].cred.type
             /\ proc'[p].cred.life = proc[p].cred.life
             /\ proc[p].cred.withdrawn => proc'[p].cred.withdrawn
  <2>1. proc[p] \in Frame /\ Carries(proc[p])
    BY LocalsType
  <2>2. CASE proc'[p] = proc[p]
    BY <2>1, <2>2
  <2>3. CASE proc'[p] = [proc[p] EXCEPT !.cred = Withdraw(@)]
    <3> DEFINE c == Withdraw(proc[p].cred)
               w == [proc[p] EXCEPT !.cred = c]
    <3>1. proc'[p] = w
      BY <2>1, <2>3 DEF Frame
    <3>2. /\ c \in Credential /\ c.type = proc[p].cred.type
          /\ c.until = proc[p].cred.until /\ c.life = proc[p].cred.life
          /\ (proc[p].cred.withdrawn => c.withdrawn)
          /\ (proc[p].cred.type \notin {"token", "ecr"} /\ ~proc[p].cred.withdrawn => ~c.withdrawn)
      BY <2>1, Withdrawn DEF Frame
    <3> HIDE DEF c
    <3>3. /\ w \in Frame /\ w.cred = c /\ w.pc = proc[p].pc /\ w.retry = proc[p].retry
          /\ w.then = proc[p].then /\ w.image = proc[p].image /\ w.since = proc[p].since
          /\ w.ttl = proc[p].ttl /\ w.answer = proc[p].answer
      BY <2>1, <3>2 DEF Frame
    <3> HIDE DEF w
    <3>4. Carries(w)
      BY <2>1, <3>2, <3>3 DEF Carries, Seeks, Suits, Long, Outlasts
    <3>5. QED
      BY <3>1, <3>2, <3>3, <3>4
  <2>4. QED
    BY <2>2, <2>3 DEF Revoke
<1>6. proc' \in [Proc -> Frame]
  BY <1>4, <1>5
<1>7. TypeOK'
  BY <1>1, <1>2, <1>3, <1>6 DEF Inv, TypeOK, world
<1>8. Timely'
  BY <1>1, <1>5 DEF Inv, Timely, UnderWay
<1>9. TokensSound'
  BY <1>2 DEF Inv, TokensSound, Long
<1>10. EcrSound'
  BY <1>3 DEF Inv, EcrSound
<1>11. RefusedOnlyIfWithdrawn'
  BY <1>5 DEF Inv, RefusedOnlyIfWithdrawn, At
<1>12. QED
  BY <1>5, <1>7, <1>8, <1>9, <1>10, <1>11 DEF Inv

LEMMA StutterKeepsInv ==
  ASSUME Inv, UNCHANGED vars
  PROVE  Inv'
<1>1. CacheTypes' /\ TypeOK'
  BY DEF Inv, TypeOK, CacheTypes, vars
<1>2. Timely' /\ TokensSound' /\ EcrSound' /\ RefusedOnlyIfWithdrawn'
  BY DEF Inv, Timely, UnderWay, TokensSound, EcrSound, RefusedOnlyIfWithdrawn, At, vars
<1>3. QED
  BY <1>1, <1>2 DEF Inv, vars

LEMMA NextKeepsInv == Inv /\ [Next]_vars => Inv'
<1> SUFFICES ASSUME Inv, [Next]_vars PROVE Inv'
  OBVIOUS
<1>1. CASE UNCHANGED vars
  BY <1>1, StutterKeepsInv
<1>2. CASE Tick
  BY <1>2, TickKeepsInv
<1>3. ASSUME NEW h \in Host, Revoke(h) PROVE Inv'
  BY <1>3, RevokeKeepsInv
<1>4. ASSUME NEW p \in Proc, Arrive(p) \/ Step(p) PROVE Inv'
  BY <1>4, ArriveKeepsInv, ApplyKeepsInv, CredentialsForKeepsInv, GetEcrKeepsInv,
     AskAwsKeepsInv, KeepEcrKeepsInv, AskTokenKeepsInv, StoreTokenKeepsInv,
     MarkBasicKeepsInv, SendKeepsInv, DoneKeepsInv DEF Step
<1>5. QED
  BY <1>1, <1>2, <1>3, <1>4 DEF Next

LEMMA SpecKeepsInv == Spec => []Inv
  BY InitInv, NextKeepsInv, PTL DEF Spec

(* The caches, the mutex and the locals keep their types, for any          *)
(* goroutines and registries.                                              *)
THEOREM AuthTypes == Spec => []TypeOK
<1>1. Inv => TypeOK
  BY DEF Inv
<1>2. QED
  BY <1>1, SpecKeepsInv, PTL

(* Whatever was cached, and whoever else replaces it, a 401 that reaches a *)
(* client comes from a credential that was withdrawn, or that lives no     *)
(* longer than two answers take.                                           *)
THEOREM RefusalsExplained == Spec => []RefusedOnlyIfWithdrawn
<1>1. Inv => RefusedOnlyIfWithdrawn
  BY DEF Inv
<1>2. QED
  BY <1>1, SpecKeepsInv, PTL

(* The margin and the floor of fetchToken are enough, for any lifetimes    *)
(* that reach their sum.                                                   *)
THEOREM TokensAlive == Spec => []TokensArriveAlive
<1>1. Inv => TokensArriveAlive
  <2> SUFFICES ASSUME Inv, NEW p \in Proc, At(p, "send"), proc[p].cred.type = "token",
                      Long(proc[p].cred)
               PROVE  clock < proc[p].cred.until
    BY DEF TokensArriveAlive, Long
  <2>1. Outlasts(proc[p].cred, proc[p].since) /\ clock - proc[p].since <= MaxLatency
    BY LocalsType DEF Carries, Inv, Timely, UnderWay, At
  <2>2. clock \in Nat /\ proc[p].since \in Nat /\ proc[p].cred.until \in Nat
    BY LocalsType DEF Frame, Credential
  <2>3. QED
    BY <2>1, <2>2, Bounds DEF Outlasts
<1>2. QED
  BY <1>1, SpecKeepsInv, PTL

(* So is the half hour of the ECR cache, however long the mutex was waited *)
(* for.                                                                    *)
THEOREM EcrAlive == Spec => []EcrArrivesAlive
<1>1. Inv => EcrArrivesAlive
  <2> SUFFICES ASSUME Inv, NEW p \in Proc, At(p, "send"), proc[p].cred.type = "ecr"
               PROVE  clock < proc[p].cred.until
    BY DEF EcrArrivesAlive
  <2>1. Outlasts(proc[p].cred, proc[p].since) /\ clock - proc[p].since <= MaxLatency
    BY LocalsType DEF Carries, Inv, Timely, UnderWay, At
  <2>2. clock \in Nat /\ proc[p].since \in Nat /\ proc[p].cred.until \in Nat
    BY LocalsType DEF Frame, Credential
  <2>3. QED
    BY <2>1, <2>2, Bounds DEF Outlasts
<1>2. QED
  BY <1>1, SpecKeepsInv, PTL

-----------------------------------------------------------------------------
(* One refresh at a time. *)

Fetching(w) == w.pc \in {"aws", "keep"}

(* Who asks AWS holds the mutex, and since it was taken the credential of  *)
(* the host has not been replaced: it is due still.                        *)
OneFetch == \A p \in Proc : Fetching(proc[p]) => ecrLock = p /\ Due(HostOf(p))

(* A step of p that leaves the ECR cache alone, fetches no more and gives  *)
(* back no mutex but its own.                                              *)
LEMMA QuietKeepsFetch ==
  ASSUME Inv, OneFetch, NEW p \in Proc, NEW w, Locals(p, w), ~Fetching(w),
         clock' = clock, ecrCache' = ecrCache,
         ecrLock' = ecrLock \/ Fetching(proc[p])
  PROVE  OneFetch'
<1>1. proc \in [Proc -> Frame] /\ proc' = [proc EXCEPT ![p] = w]
  BY DEF Inv, TypeOK, Locals
<1>2. ASSUME NEW q \in Proc, Fetching(proc'[q]) PROVE ecrLock' = q /\ Due(HostOf(q))'
  <2>1. q # p /\ proc'[q] = proc[q] /\ Fetching(proc[q])
    BY <1>1, <1>2
  <2>2. ecrLock = q /\ Due(HostOf(q)) /\ ~Fetching(proc[p])
    BY <2>1 DEF OneFetch
  <2>3. QED BY <2>1, <2>2 DEF Due, HostOf
<1>3. QED BY <1>2 DEF OneFetch

(* What p does with an answer, with credentials or without. *)
LEMMA ReplyIsQuiet ==
  ASSUME NEW p, NEW answer, Reply(p, answer)
  PROVE  \E w : Locals(p, w) /\ ~Fetching(w)
<1> DEFINE r == [Idle EXCEPT !.pc = "done", !.answer = answer]
           w == IF answer = "unauthorized"
                  THEN [r EXCEPT !.image = proc[p].image, !.cred = proc[p].cred] ELSE r
<1>1. w.pc = "done"
  BY DEF Idle
<1>2. Locals(p, w)
  BY DEF Reply
<1>3. QED BY <1>1, <1>2 DEF Fetching

LEMMA WithIsQuiet ==
  ASSUME Inv, NEW p \in Proc, NEW pc \in {"send", "token", "mark"}, NEW cred,
         With(p, pc, cred)
  PROVE  \E w : Locals(p, w) /\ ~Fetching(w)
<1> DEFINE w == [proc[p] EXCEPT !.pc = pc, !.cred = cred,
                                !.since = IF pc = "token" THEN 0 ELSE clock]
<1>1. w.pc = pc
  BY LocalsType DEF Frame
<1>2. Locals(p, w)
  BY DEF With
<1>3. QED BY <1>1, <1>2 DEF Fetching

(* Steps that have nothing to do with AWS. *)
LEMMA OthersAreQuiet ==
  ASSUME Inv, NEW p \in Proc,
         \/ Arrive(p) \/ ApplyCachedAuth(p) \/ CredentialsFor(p) \/ AskToken(p)
         \/ StoreToken(p) \/ MarkBasic(p) \/ Send(p) \/ Done(p)
  PROVE  \E w : Locals(p, w) /\ ~Fetching(w)
<1>1. proc[p] \in Frame
  BY LocalsType
<1>2. CASE Arrive(p)
  <2>1. PICK i \in images : Locals(p, [Idle EXCEPT !.pc = "apply", !.image = i])
    BY <1>2 DEF Arrive
  <2> DEFINE w == [Idle EXCEPT !.pc = "apply", !.image = i]
  <2>2. Locals(p, w) /\ w.pc = "apply"
    BY <2>1 DEF Idle
  <2>3. QED BY <2>2 DEF Fetching
<1>3. CASE Done(p)
  <2>1. Locals(p, Idle) /\ Idle.pc = "idle"
    BY <1>3 DEF Done, Idle
  <2>2. QED BY <2>1 DEF Fetching
<1>4. CASE ApplyCachedAuth(p)
  <2>1. CASE Seek(p, "send")
    <3> DEFINE w == [proc[p] EXCEPT !.pc = "creds", !.then = "send",
                                    !.cred = Anonymous, !.since = 0]
    <3>1. Locals(p, w) /\ w.pc = "creds"
      BY <1>1, <2>1 DEF Seek, Frame
    <3>2. QED BY <3>1 DEF Fetching
  <2>2. QED BY <1>4, <2>1, WithIsQuiet DEF ApplyCachedAuth
<1>5. CASE CredentialsFor(p)
  <2>1. proc[p].then \in {"send", "token", "mark"}
    BY <1>5, LocalsType DEF CredentialsFor, At, Carries, Seeks
  <2>2. QED BY <1>5, <2>1, WithIsQuiet, ReplyIsQuiet DEF CredentialsFor
<1>6. CASE AskToken(p)
  <2>1. ASSUME NEW g \in Grants,
               Locals(p, [proc[p] EXCEPT !.pc = "store", !.cred = Issued("token", g.life),
                                    !.since = clock, !.ttl = Lifetime(g.announced)])
        PROVE  \E w : Locals(p, w) /\ ~Fetching(w)
    <3> DEFINE w == [proc[p] EXCEPT !.pc = "store", !.cred = Issued("token", g.life),
                                    !.since = clock, !.ttl = Lifetime(g.announced)]
    <3>1. Locals(p, w) /\ w.pc = "store"
      BY <1>1, <2>1 DEF Frame
    <3>2. QED BY <3>1 DEF Fetching
  <2>2. QED BY <1>6, <2>1, ReplyIsQuiet DEF AskToken
<1>7. CASE StoreToken(p)
  <2> DEFINE w == [proc[p] EXCEPT !.pc = "send", !.since = clock, !.ttl = 0]
  <2>1. Locals(p, w) /\ w.pc = "send"
    BY <1>1, <1>7 DEF StoreToken, Frame
  <2>2. QED BY <2>1 DEF Fetching
<1>8. CASE MarkBasic(p)
  <2> DEFINE w == [proc[p] EXCEPT !.pc = "send"]
  <2>1. Locals(p, w) /\ w.pc = "send"
    BY <1>1, <1>8 DEF MarkBasic, Goto, Frame
  <2>2. QED BY <2>1 DEF Fetching
<1>9. CASE Send(p)
  <2>1. ASSUME NEW then,
               Locals(p, [proc[p] EXCEPT !.pc = "creds", !.retry = TRUE,
                                    !.cred = Anonymous, !.since = 0, !.then = then])
        PROVE  \E w : Locals(p, w) /\ ~Fetching(w)
    <3> DEFINE w == [proc[p] EXCEPT !.pc = "creds", !.retry = TRUE,
                                    !.cred = Anonymous, !.since = 0, !.then = then]
    <3>1. Locals(p, w) /\ w.pc = "creds"
      BY <1>1, <2>1 DEF Frame
    <3>2. QED BY <3>1 DEF Fetching
  <2>2. QED BY <1>9, <2>1, ReplyIsQuiet DEF Send
<1>10. QED BY <1>2, <1>4, <1>5, <1>6, <1>7, <1>9, <1>3, <1>8

(* The mutex is taken with the credential due, and nobody else fetches. *)
LEMMA GetEcrKeepsFetch ==
  ASSUME Inv, OneFetch, NEW p \in Proc, GetEcr(p)
  PROVE  OneFetch'
<1>1. /\ proc[p] \in Frame /\ proc \in [Proc -> Frame] /\ proc[p].pc = "creds"
      /\ proc[p].then \in {"send", "token", "mark"}
      /\ clock' = clock /\ ecrCache' = ecrCache /\ ecrLock = Nobody
  BY LocalsType DEF GetEcr, At, Carries, Seeks, Inv, TypeOK, world, caches
<1>2. CASE Due(HostOf(p)) /\ Goto(p, "aws") /\ ecrLock' = p
  <2>1. proc' = [proc EXCEPT ![p] = [proc[p] EXCEPT !.pc = "aws"]]
    BY <1>2 DEF Goto, Locals
  <2>2. proc'[p].image = proc[p].image
    BY <1>1, <2>1 DEF Frame
  <2>3. \A q \in Proc \ {p} : proc'[q] = proc[q] /\ ~Fetching(proc[q])
    BY <1>1, <2>1, AuthAssumption DEF OneFetch
  <2>4. QED BY <1>1, <1>2, <2>2, <2>3 DEF OneFetch, Due, HostOf
<1>3. CASE With(p, proc[p].then, ecrCache[HostOf(p)].cred) /\ ecrLock' = ecrLock
  <2>1. PICK w : Locals(p, w) /\ ~Fetching(w)
    BY <1>1, <1>3, WithIsQuiet
  <2>2. QED BY <1>1, <1>3, <2>1, QuietKeepsFetch
<1>4. QED BY <1>2, <1>3 DEF GetEcr

LEMMA AskAwsKeepsFetch ==
  ASSUME Inv, OneFetch, NEW p \in Proc, AskAws(p)
  PROVE  OneFetch'
<1>1. /\ proc[p] \in Frame /\ proc \in [Proc -> Frame] /\ Fetching(proc[p])
      /\ clock' = clock /\ ecrCache' = ecrCache
  BY LocalsType DEF AskAws, At, Inv, TypeOK, world, caches, Fetching
<1>2. CASE AwsFails(p)
  <2>1. PICK w : Locals(p, w) /\ ~Fetching(w)
    BY <1>2, ReplyIsQuiet DEF AwsFails
  <2>2. QED BY <1>1, <2>1, QuietKeepsFetch
<1>3. ASSUME NEW life \in EcrLives, With(p, "keep", Issued("ecr", life)), ecrLock' = ecrLock
      PROVE  OneFetch'
  <2>1. /\ proc'[p].image = proc[p].image
        /\ \A q \in Proc \ {p} : proc'[q] = proc[q]
    BY <1>1, <1>3 DEF With, Locals, Frame
  <2>2. QED BY <1>1, <1>3, <2>1 DEF OneFetch, Due, HostOf
<1>4. QED BY <1>2, <1>3 DEF AskAws

(* Once the credential is replaced nobody fetches. *)
LEMMA KeepEcrKeepsFetch ==
  ASSUME Inv, OneFetch, NEW p \in Proc, KeepEcr(p)
  PROVE  OneFetch'
<1>1. /\ Fetching(proc[p]) /\ proc[p].then \in {"send", "token", "mark"}
      /\ proc \in [Proc -> Frame]
  BY LocalsType DEF KeepEcr, At, Carries, Seeks, Fetching, Inv, TypeOK
<1>2. PICK w : Locals(p, w) /\ ~Fetching(w)
  BY <1>1, WithIsQuiet DEF KeepEcr
<1>3. \A q \in Proc \ {p} : ~Fetching(proc[q]) /\ proc'[q] = proc[q]
  BY <1>1, <1>2 DEF OneFetch, Locals
<1>4. ~Fetching(proc'[p])
  BY <1>1, <1>2 DEF Locals
<1>5. QED BY <1>3, <1>4 DEF OneFetch

LEMMA TickKeepsFetch ==
  ASSUME Inv, OneFetch, Tick
  PROVE  OneFetch'
<1>1. /\ clock' = clock + 1 /\ UNCHANGED <<ecrCache, ecrLock, proc>> /\ clock \in Nat
      /\ \A h \in DOMAIN ecrCache : ecrCache[h].expiresAt \in Nat
  BY DEF Tick, caches, Inv, TypeOK, Entry
<1>2. ASSUME NEW h, Due(h) PROVE Due(h)'
  BY <1>1, <1>2, AuthAssumption DEF Due
<1>3. QED BY <1>1, <1>2 DEF OneFetch, HostOf

(* Revocation changes nothing of a credential that a refresh looks at. *)
LEMMA RevokeLeaves ==
  ASSUME Inv, NEW h \in Host, Revoke(h)
  PROVE  /\ clock' = clock /\ ecrLock' = ecrLock
         /\ DOMAIN ecrCache' = DOMAIN ecrCache
         /\ \A x \in DOMAIN ecrCache :
              /\ ecrCache'[x].expiresAt = ecrCache[x].expiresAt
              /\ ecrCache'[x].cred.until = ecrCache[x].cred.until
         /\ \A p \in Proc : proc'[p].pc = proc[p].pc /\ proc'[p].image = proc[p].image
<1>1. clock' = clock /\ ecrLock' = ecrLock
  BY DEF Revoke, world
<1>2. /\ DOMAIN ecrCache' = DOMAIN ecrCache
      /\ \A x \in DOMAIN ecrCache :
           /\ ecrCache'[x].expiresAt = ecrCache[x].expiresAt
           /\ ecrCache'[x].cred.until = ecrCache[x].cred.until
  BY Withdrawn DEF Revoke, Inv, TypeOK, Entry
<1>3. ASSUME NEW p \in Proc PROVE proc'[p].pc = proc[p].pc /\ proc'[p].image = proc[p].image
  <2>1. proc[p] \in Frame
    BY LocalsType
  <2>2. QED BY <2>1 DEF Revoke, Frame
<1>4. QED BY <1>1, <1>2, <1>3

LEMMA NextKeepsFetch == Inv /\ OneFetch /\ [Next]_vars => OneFetch'
<1> SUFFICES ASSUME Inv, OneFetch, [Next]_vars PROVE OneFetch'
  OBVIOUS
<1>1. CASE UNCHANGED vars
  BY <1>1 DEF vars, OneFetch, Due, HostOf
<1>2. CASE Tick
  BY <1>2, TickKeepsFetch
<1>3. ASSUME NEW h \in Host, Revoke(h) PROVE OneFetch'
  BY <1>3, RevokeLeaves DEF OneFetch, Fetching, Due, HostOf
<1>4. ASSUME NEW p \in Proc,
             \/ Arrive(p) \/ ApplyCachedAuth(p) \/ CredentialsFor(p) \/ AskToken(p)
             \/ StoreToken(p) \/ MarkBasic(p) \/ Send(p) \/ Done(p)
      PROVE  OneFetch'
  <2>1. PICK w : Locals(p, w) /\ ~Fetching(w)
    BY <1>4, OthersAreQuiet
  <2>2. clock' = clock /\ ecrCache' = ecrCache /\ ecrLock' = ecrLock
    BY <1>4 DEF Arrive, ApplyCachedAuth, CredentialsFor, AskToken, StoreToken, MarkBasic,
                Send, Done, world, caches
  <2>3. QED BY <2>1, <2>2, QuietKeepsFetch
<1>5. ASSUME NEW p \in Proc, GetEcr(p) \/ AskAws(p) \/ KeepEcr(p) PROVE OneFetch'
  BY <1>5, GetEcrKeepsFetch, AskAwsKeepsFetch, KeepEcrKeepsFetch
<1>6. QED
  BY <1>1, <1>2, <1>3, <1>4, <1>5 DEF Next, Step

(* However many goroutines find a credential due together, one call to AWS *)
(* replaces it: a credential is replaced only while it is due, whatever    *)
(* was revoked and however long the mutex was waited for.                  *)
THEOREM OneRefreshPerExpiry == Spec => EcrRefreshedWhenDue
<1> DEFINE A == \A h \in DOMAIN ecrCache :
                  ecrCache'[h].cred.until # ecrCache[h].cred.until => Due(h)
<1>1. Init => OneFetch
  BY DEF Init, OneFetch, Fetching, Idle
<1>2. Inv /\ OneFetch /\ [Next]_vars => [A]_vars
  <2> SUFFICES ASSUME Inv, OneFetch, Next, NEW h \in DOMAIN ecrCache,
                      ecrCache'[h].cred.until # ecrCache[h].cred.until
               PROVE  Due(h)
    OBVIOUS
  <2>1. PICK p \in Proc : KeepEcr(p)
    <3>1. ecrCache' # ecrCache /\ ~\E x \in Host : Revoke(x)
      BY RevokeLeaves
    <3>2. QED
      BY <3>1 DEF Next, Step, Tick, Arrive, ApplyCachedAuth, CredentialsFor, GetEcr, AskAws,
                  AskToken, StoreToken, MarkBasic, Send, Done, caches
  <2>2. h = HostOf(p) /\ Fetching(proc[p])
    BY <2>1 DEF KeepEcr, Put, At, Fetching
  <2>3. QED BY <2>2 DEF OneFetch
<1> HIDE DEF A
<1>3. Spec => [][A]_vars
  BY <1>1, <1>2, SpecKeepsInv, NextKeepsFetch, PTL DEF Spec
<1>4. QED BY <1>3 DEF A, EcrRefreshedWhenDue
=============================================================================
