--------------------------- MODULE RoutingProofs ----------------------------
(***************************************************************************)
(* What the start makes of any environment: whatever is gathered for an    *)
(* alias is what some variable said that has been looked at, in any order; *)
(* and the headroom stays below the cap for any width of the integers.     *)
(* A request changes none of it.                                           *)
(***************************************************************************)
EXTENDS Routing, SequenceTheorems, TLAPS

Looked == environ.variables \ pending

Said(a, f, seen) ==
  {v.value : v \in {w \in seen : w.key = f /\ w.alias # "" /\ Lower[w.alias] = a}}

SaidOf(raws, seen) ==
  /\ DOMAIN raws = {a \in Alias : \E f \in Field : Said(a, f, seen) # {}}
  /\ \A a \in DOMAIN raws : \A f \in Field :
       raws[a][f] \in IF Said(a, f, seen) = {} THEN {""} ELSE Said(a, f, seen)

Found ==
  /\ \A a \in DOMAIN upstreams : Complete(upstreams[a])
  /\ mirror # "" => mirror \in DOMAIN upstreams

ConfiguredHosts == {upstreams[a]["host"] : a \in DOMAIN upstreams}

(* ByHost knows the hosts of the aliases it has come to, by one of each.   *)
IndexedSoFar ==
  \A a \in DOMAIN upstreams \ unindexed :
    LET h == upstreams[a]["host"]
    IN /\ h \in DOMAIN byHost /\ byHost[h] \in DOMAIN upstreams
       /\ upstreams[byHost[h]]["host"] = h

Inv ==
  /\ SettingsTypes
  /\ pending \subseteq environ.variables
  /\ phase # "process" => IsPercent(environ.percent) \/ phase = "refused"
  /\ phase = "process" => pending = environ.variables
  /\ SaidOf(byAlias, Looked)
  /\ phase \in {"run", "index", "up"} => /\ pending = {} /\ upstreams = byAlias /\ Found
  /\ phase \in {"index", "up"} =>
       /\ IndexedSoFar
       /\ cap > 0 => headroom = Of(environ.percent.value, cap)
  /\ phase # "index" => unindexed = {}

(* Arithmetic that the headroom needs. *)
LEMMA SmallRemainder == ASSUME NEW n \in Nat \ {0}, NEW x \in 0..(n - 1) PROVE x % n = x
  BY SMTT(30)

LEMMA PercentBound == ASSUME NEW c \in Nat, NEW p \in 0..99 PROVE c * p \in 0..(c * 99)
  BY SMTT(30)

LEMMA HundredthBound ==
  ASSUME NEW c \in Nat \ {0}, NEW t \in 0..(c * 99) PROVE t \div 100 \in 0..(c - 1)
  BY SMTT(30)

LEMMA ProductType == ASSUME NEW c \in Nat, NEW p \in Nat PROVE c * p \in Nat
  BY SMTT(30)

LEMMA HalfType == Half \in Nat \ {0}
  BY SettingsAssumption

(* Percent.Of does not overflow, and is less than its argument.            *)
LEMMA OfBound ==
  ASSUME NEW c \in Nat \ {0}, c * 99 < Half, NEW p \in 0..99
  PROVE  Of(p, c) \in 0..(c - 1)
<1> DEFINE t == c * p
<1>1. t \in 0..(c * 99) /\ c * 99 \in Nat /\ Half \in Nat
  <2>1. c \in Nat
    OBVIOUS
  <2>2. t \in 0..(c * 99)
    BY <2>1, PercentBound
  <2>3. c * 99 \in Nat /\ Half \in Nat
    BY <2>1, HalfType
  <2>4. QED
    BY <2>2, <2>3
<1>2. t \in Nat /\ t < Half
  BY <1>1
<1> HIDE DEF t
<1>3. 2 * Half \in Nat \ {0} /\ t + Half \in 0..(2 * Half - 1)
  BY <1>1, <1>2
<1>4. (t + Half) % (2 * Half) = t + Half
  BY <1>3, SmallRemainder
<1>5. Wrapped(t) = t
  BY <1>1, <1>2, <1>4 DEF Wrapped
<1>6. t \div 100 \in 0..(c - 1)
  BY <1>1, HundredthBound
<1>7. Wrapped(c * p) = t
  BY <1>5 DEF t
<1>8. Of(p, c) = t \div 100
  BY <1>2, <1>7 DEF Of
<1>9. QED
  BY <1>6, <1>8

(* It is an int64 in any case. *)
LEMMA OfType ==
  ASSUME NEW c \in Nat, NEW p \in Nat
  PROVE  Of(p, c) \in (-Half)..(Half - 1)
<1> DEFINE n == c * p
           t == Wrapped(n)
<1>1. n \in Nat /\ Half \in Nat \ {0}
  BY ProductType, HalfType
<1> HIDE DEF n
<1>2. (n + Half) % (2 * Half) \in 0..(2 * Half - 1)
  BY <1>1
<1>3. t \in (-Half)..(Half - 1)
  BY <1>1, <1>2 DEF Wrapped
<1>4. t = Wrapped(c * p)
  BY DEF n
<1> HIDE DEF t
<1>5. Of(p, c) = IF t < 0 THEN -((-t) \div 100) ELSE t \div 100
  BY <1>4 DEF Of
<1>6. QED
  BY <1>1, <1>3, <1>5

-----------------------------------------------------------------------------
LEMMA VariableTypes ==
  ASSUME NEW v \in Variable
  PROVE  /\ v.key \in Field \cup {"mirror", "other"}
         /\ v.alias \in Spelling \cup {""} /\ v.value \in Value \cup {""}
         /\ v.alias # "" => Lower[v.alias] \in Alias
<1>1. /\ v.key \in Field \cup {"mirror", "other"}
      /\ v.alias \in Spelling \cup {""} /\ v.value \in Value \cup {""}
  BY DEF Variable
<1>2. \A s \in Spelling : Lower[s] \in Alias
  BY DEF Alias
<1>3. QED
  BY <1>1, <1>2

(* One more variable is looked at. *)
Says(v, a, f) == v.key = f /\ v.alias # "" /\ Lower[v.alias] = a

LEMMA SaidGrows ==
  ASSUME NEW seen, NEW v, NEW a, NEW f
  PROVE  /\ Says(v, a, f) => Said(a, f, seen \cup {v}) = Said(a, f, seen) \cup {v.value}
         /\ ~Says(v, a, f) => Said(a, f, seen \cup {v}) = Said(a, f, seen)
  BY DEF Said, Says

LEMMA GatherKeepsSaid ==
  ASSUME NEW seen, SaidOf(byAlias, seen), \A a \in DOMAIN byAlias : byAlias[a] \in Upstream,
         NEW v \in Variable, v.key \in Field, v.alias # "", Gather(v)
  PROVE  SaidOf(byAlias', seen \cup {v}) /\ \A a \in DOMAIN byAlias' : byAlias'[a] \in Upstream
<1> DEFINE a0 == Lower[v.alias]
           raw == [Raw(a0) EXCEPT ![v.key] = v.value]
           value == v.value
           key == v.key
<1>1. a0 \in Alias /\ value \in Value \cup {""} /\ key \in Field
  BY VariableTypes
<1>2. Raw(a0) \in [Field -> Value \cup {""}]
  BY DEF Raw, Unset, Upstream
<1>3. /\ DOMAIN byAlias' = DOMAIN byAlias \cup {a0}
      /\ \A x \in DOMAIN byAlias' : byAlias'[x] = IF x = a0 THEN raw ELSE byAlias[x]
  BY DEF Gather
<1>4. raw \in [Field -> Value \cup {""}] /\ raw = [Raw(a0) EXCEPT ![key] = value]
  BY <1>1, <1>2
<1>5. \A f \in Field : raw[f] = IF f = key THEN value ELSE Raw(a0)[f]
  BY <1>1, <1>2, <1>4
<1>6. ASSUME NEW a, NEW f
      PROVE  /\ key = f /\ a0 = a =>
                  Said(a, f, seen \cup {v}) = Said(a, f, seen) \cup {value}
             /\ ~(key = f /\ a0 = a) => Said(a, f, seen \cup {v}) = Said(a, f, seen)
  <2>1. Says(v, a, f) <=> key = f /\ a0 = a
    BY DEF Says
  <2>2. QED
    BY ONLY <2>1, SaidGrows
<1> HIDE DEF a0, raw, value, key
<1>7. Said(a0, key, seen \cup {v}) = Said(a0, key, seen) \cup {value}
  BY ONLY <1>6
<1>8. value \in Said(a0, key, seen \cup {v}) /\ Said(a0, key, seen \cup {v}) # {}
  BY ONLY <1>7
<1>9. DOMAIN byAlias' = {a \in Alias : \E f \in Field : Said(a, f, seen \cup {v}) # {}}
  <2>1. ASSUME NEW a \in Alias
        PROVE  a \in DOMAIN byAlias' <=> \E f \in Field : Said(a, f, seen \cup {v}) # {}
    <3>1. CASE a = a0
      BY <1>1, <1>3, <1>8, <3>1
    <3>2. CASE a # a0
      <4>1. \A f : Said(a, f, seen \cup {v}) = Said(a, f, seen)
        BY <1>6, <3>2
      <4>2. QED
        BY <1>3, <3>2, <4>1 DEF SaidOf
    <3>3. QED
      BY <3>1, <3>2
  <2>2. DOMAIN byAlias' \subseteq Alias
    BY <1>1, <1>3 DEF SaidOf
  <2>3. QED
    BY <2>1, <2>2
<1>10. ASSUME NEW a \in DOMAIN byAlias', NEW f \in Field
      PROVE  byAlias'[a][f] \in IF Said(a, f, seen \cup {v}) = {} THEN {""}
                                 ELSE Said(a, f, seen \cup {v})
  <2>1. CASE a # a0
    <3>1. Said(a, f, seen \cup {v}) = Said(a, f, seen) /\ byAlias'[a] = byAlias[a]
          /\ a \in DOMAIN byAlias
      BY <1>3, <1>6, <2>1
    <3>2. QED
      BY <3>1 DEF SaidOf
  <2>2. CASE a = a0 /\ f = key
    <3>1. byAlias'[a][f] = value
      BY <1>3, <1>5, <2>2
    <3>2. QED
      BY <1>8, <2>2, <3>1
  <2>3. CASE a = a0 /\ f # key
    <3>1. Said(a, f, seen \cup {v}) = Said(a, f, seen)
      BY <1>6, <2>3
    <3>5. byAlias'[a][f] = Raw(a0)[f]
      BY <1>3, <1>5, <2>3
    <3>2. CASE a0 \in DOMAIN byAlias
      BY <2>3, <3>1, <3>5, <3>2 DEF SaidOf, Raw
    <3>3. CASE a0 \notin DOMAIN byAlias
      <4>1. Raw(a0)[f] = ""
        BY <3>3 DEF Raw, Unset
      <4>2. Said(a0, f, seen) = {}
        BY <1>1, <3>3 DEF SaidOf
      <4>3. QED
        BY <2>3, <3>1, <3>5, <4>1, <4>2
    <3>4. QED
      BY <3>2, <3>3
  <2>4. QED
    BY <2>1, <2>2, <2>3
<1>11. \A a \in DOMAIN byAlias' : byAlias'[a] \in Upstream
  BY <1>3, <1>4 DEF Upstream
<1>12. QED
  BY <1>9, <1>10, <1>11 DEF SaidOf

(* A variable that says nothing of an upstream. *)
LEMMA NothingSaid ==
  ASSUME NEW raws, NEW seen, SaidOf(raws, seen),
         NEW v, v.key \notin Field \/ v.alias = ""
  PROVE  SaidOf(raws, seen \cup {v})
<1>1. \A a : \A f \in Field : Said(a, f, seen \cup {v}) = Said(a, f, seen)
  <2> TAKE a
  <2> TAKE f \in Field
  <2>1. ~Says(v, a, f)
    BY DEF Says
  <2>2. QED
    BY ONLY <2>1, SaidGrows
<1>2. QED
  BY <1>1 DEF SaidOf

-----------------------------------------------------------------------------
LEMMA EnvironTypes ==
  ASSUME environ \in Environ
  PROVE  environ.variables \subseteq Variable /\ environ.size \in SizeText
         /\ environ.percent \in PercentText
  BY SettingsAssumption

LEMMA CapType == ASSUME SettingsTypes PROVE cap \in 0..(Half - 1) /\ cap \in Nat
<1>1. cap \in 0..(Half - 1)
  BY DEF SettingsTypes
<1>2. QED
  BY ONLY <1>1, HalfType

LEMMA HostTypes ==
  ASSUME SettingsTypes, \A a \in DOMAIN upstreams : Complete(upstreams[a])
  PROVE  ConfiguredHosts \subseteq Value
<1>1. \A a \in DOMAIN upstreams : upstreams[a]["host"] \in Value
  <2> TAKE a \in DOMAIN upstreams
  <2>1. upstreams[a] \in [Field -> Value \cup {""}] /\ "host" \in Field
    BY DEF SettingsTypes, Upstream, Field
  <2>2. upstreams[a]["host"] # ""
    BY DEF Complete
  <2>3. QED
    BY ONLY <2>1, <2>2
<1>2. QED
  BY ONLY <1>1 DEF ConfiguredHosts

LEMMA InitInv == InitSettings => Inv
<1> SUFFICES ASSUME InitSettings PROVE Inv
  OBVIOUS
<1>1. environ.variables \subseteq Variable
  BY EnvironTypes DEF InitSettings
<1>2. SettingsTypes
  <2>1. environ \in Environ /\ phase \in Phase /\ pending \subseteq Variable /\ mirror = ""
    BY <1>1 DEF InitSettings, Phase
  <2>2. DOMAIN byAlias = {} /\ DOMAIN upstreams = {} /\ DOMAIN byHost = {} /\ unindexed = {}
    BY DEF InitSettings
  <2>3. cap \in 0..(Half - 1) /\ headroom \in (-Half)..(Half - 1)
    <3>1. cap = 0 /\ headroom = 0
      BY DEF InitSettings
    <3>2. QED
      BY ONLY <3>1, HalfType
  <2>4. QED
    BY ONLY <2>1, <2>2, <2>3 DEF SettingsTypes
<1>3. Looked = {}
  BY DEF InitSettings, Looked
<1>4. \A a, f : Said(a, f, {}) = {}
  BY DEF Said
<1>5. SaidOf(byAlias, Looked)
  BY <1>3, <1>4 DEF SaidOf, InitSettings
<1>6. QED
  BY <1>2, <1>5 DEF Inv, InitSettings

LEMMA ProcessKeepsInv == ASSUME Inv, Process PROVE Inv'
<1>1. /\ phase = "process" /\ phase' \in {"parse", "refused"}
      /\ UNCHANGED <<environ, pending, byAlias, mirror, upstreams, unindexed, byHost, headroom>>
      /\ phase' = "parse" => IsPercent(environ.percent)
      /\ cap' \in {cap, 0} \cup {b \in ByteSizes(environ.size) : b > 0}
  BY DEF Process
<1>2. environ.size \in SizeText
  BY EnvironTypes DEF Inv, SettingsTypes
<1>3. \A b \in ByteSizes(environ.size) : b > 0 => b \in 0..(Half - 1)
  <2> DEFINE bytes == (environ.size.num * Unit[environ.size.unit]) \div environ.size.den
  <2>1. CASE environ.size.den = 0 \/ environ.size.unit \notin DOMAIN Unit
    BY <2>1 DEF ByteSizes
  <2>2. CASE ~(environ.size.den = 0 \/ environ.size.unit \notin DOMAIN Unit)
    <3> DEFINE n == environ.size.num
               u == Unit[environ.size.unit]
               d == environ.size.den
    <3>1. n \in Nat /\ d \in Nat \ {0} /\ u \in Nat
      BY <1>2, <2>2, SettingsAssumption DEF SizeText
    <3> HIDE DEF n, u, d
    <3>2. n * u \in Nat
      BY <3>1, ProductType
    <3>3. (n * u) \div d \in Int
      BY <3>1, <3>2
    <3>4. bytes \in Int
      BY <3>3 DEF n, u, d
    <3>5. \A b \in ByteSizes(environ.size) : (b = bytes /\ bytes < Half) \/ b \in {Half - 1, -Half}
      BY <2>2 DEF ByteSizes
    <3> HIDE DEF bytes
    <3>6. QED
      BY <3>4, <3>5, HalfType
  <2>3. QED
    BY <2>1, <2>2
<1>4. cap' \in 0..(Half - 1)
  <2>1. cap \in 0..(Half - 1) /\ 0 \in 0..(Half - 1)
    BY CapType, HalfType DEF Inv
  <2>2. QED
    BY ONLY <1>1, <1>3, <2>1
<1>5. SettingsTypes'
  BY <1>1, <1>4 DEF Inv, SettingsTypes, Phase
<1>6. Looked' = Looked
  BY <1>1 DEF Looked
<1>7. SaidOf(byAlias, Looked)'
  BY <1>1, <1>6 DEF Inv, SaidOf
<1>8. QED
  BY <1>1, <1>5, <1>7 DEF Inv

LEMMA LookKeepsInv == ASSUME Inv, NEW v \in pending, Look(v) PROVE Inv'
<1>1. /\ phase = "parse" /\ pending' = pending \ {v}
      /\ UNCHANGED <<environ, phase, upstreams, unindexed, byHost, cap, headroom>>
  BY DEF Look
<1>2. v \in Variable /\ v \in environ.variables /\ pending \subseteq environ.variables
  BY DEF Inv, SettingsTypes
<1>3. Looked' = Looked \cup {v}
  BY <1>1, <1>2 DEF Looked
<1>4. SaidOf(byAlias, Looked) /\ \A a \in DOMAIN byAlias : byAlias[a] \in Upstream
  BY DEF Inv, SettingsTypes
<1>5. /\ SaidOf(byAlias', Looked \cup {v})
      /\ \A a \in DOMAIN byAlias' : byAlias'[a] \in Upstream
      /\ mirror' \in Alias \cup {""}
  <2>1. CASE v.key = "mirror"
    <3>1. byAlias' = byAlias /\ mirror' \in Alias \cup {""}
      BY <1>2, <2>1, VariableTypes DEF Look, Field
    <3>2. v.key \notin Field
      BY <2>1 DEF Field
    <3>3. QED
      BY <1>4, <3>1, <3>2, NothingSaid
  <2>2. CASE v.key \in Field /\ v.alias # ""
    <3>1. Gather(v) /\ mirror' = mirror
      BY <2>2 DEF Look, Field
    <3>2. QED
      BY <1>2, <1>4, <2>2, <3>1, GatherKeepsSaid DEF Inv, SettingsTypes
  <2>3. CASE v.key = "other" \/ (v.key \in Field /\ v.alias = "")
    <3>1. byAlias' = byAlias /\ mirror' = mirror
      BY <2>3 DEF Look, Field
    <3>2. v.key \notin Field \/ v.alias = ""
      BY <2>3 DEF Field
    <3>3. SaidOf(byAlias, Looked \cup {v})
      BY <1>4, <3>2, NothingSaid
    <3>4. QED
      BY <1>4, <3>1, <3>3 DEF Inv, SettingsTypes
  <2>4. QED
    BY <2>1, <2>2, <2>3 DEF Look
<1>6. DOMAIN byAlias' \subseteq Alias
  BY <1>5 DEF SaidOf
<1>7. SettingsTypes'
  BY <1>1, <1>5, <1>6 DEF Inv, SettingsTypes
<1>8. SaidOf(byAlias, Looked)'
  BY <1>3, <1>5 DEF SaidOf
<1>9. QED
  BY <1>1, <1>2, <1>7, <1>8 DEF Inv

LEMMA ValidateKeepsInv == ASSUME Inv, Validate PROVE Inv'
<1>1. /\ phase = "parse" /\ pending = {}
      /\ UNCHANGED <<environ, pending, byAlias, mirror, unindexed, byHost, cap, headroom>>
  BY DEF Validate
<1>2. Looked' = Looked /\ SaidOf(byAlias, Looked)'
  BY <1>1 DEF Looked, Inv, SaidOf
<1>3. CASE phase' = "refused" /\ UNCHANGED upstreams
  <2>1. SettingsTypes'
    BY <1>1, <1>3 DEF Inv, SettingsTypes, Phase
  <2>2. QED
    BY <1>1, <1>2, <1>3, <2>1 DEF Inv
<1>4. CASE /\ \A a \in DOMAIN byAlias : Complete(byAlias[a])
           /\ mirror # "" => mirror \in DOMAIN byAlias
           /\ upstreams' = byAlias /\ phase' = "run"
  <2>1. SettingsTypes'
    <3>1. unindexed = {} /\ DOMAIN upstreams' \subseteq Alias
      BY <1>1, <1>4 DEF Inv, SettingsTypes
    <3>2. QED
      BY <1>1, <1>4, <3>1 DEF Inv, SettingsTypes, Phase
  <2>2. Found'
    BY <1>1, <1>4 DEF Found
  <2>3. QED
    BY <1>1, <1>2, <1>4, <2>1, <2>2 DEF Inv
<1>5. QED
  BY <1>3, <1>4 DEF Validate

LEMMA RunRouterKeepsInv == ASSUME Inv, RunRouter PROVE Inv'
<1>1. /\ phase = "run"
      /\ UNCHANGED <<environ, pending, byAlias, mirror, upstreams, byHost, cap>>
  BY DEF RunRouter
<1>2. Looked' = Looked /\ SaidOf(byAlias, Looked)'
  BY <1>1 DEF Looked, Inv, SaidOf
<1>3. CASE phase' = "refused" /\ UNCHANGED <<unindexed, headroom>>
  <2>1. SettingsTypes'
    BY <1>1, <1>3 DEF Inv, SettingsTypes, Phase
  <2>2. QED
    BY <1>1, <1>2, <1>3, <2>1 DEF Inv
<1>4. CASE /\ headroom' = IF cap > 0 THEN Of(environ.percent.value, cap) ELSE 0
           /\ unindexed' = DOMAIN upstreams /\ phase' = "index"
  <2>1. IsPercent(environ.percent) /\ Found /\ upstreams = byAlias /\ pending = {}
    BY <1>1 DEF Inv
  <2>2. environ.percent.value \in Nat /\ cap \in Nat
    BY <2>1, CapType DEF IsPercent, Inv
  <2>3. headroom' \in (-Half)..(Half - 1)
    BY <1>4, <2>2, OfType, HalfType
  <2>4. SettingsTypes'
    BY <1>1, <1>4, <2>3 DEF Inv, SettingsTypes, Phase
  <2>5. Found' /\ IndexedSoFar'
    BY <1>1, <1>4, <2>1 DEF Found, IndexedSoFar
  <2>6. QED
    BY <1>1, <1>2, <1>4, <2>1, <2>4, <2>5 DEF Inv
<1>5. QED
  BY <1>3, <1>4 DEF RunRouter

LEMMA ByHostKeepsInv == ASSUME Inv, NEW a \in unindexed, ByHost(a) PROVE Inv'
<1> DEFINE host == upstreams[a]["host"]
<1>1. /\ phase = "index" /\ phase' \in {"index", "up"} /\ (phase' = "up" => unindexed' = {})
      /\ unindexed' = unindexed \ {a}
      /\ UNCHANGED <<environ, pending, byAlias, mirror, upstreams, cap, headroom>>
  BY DEF ByHost
<1>2. /\ DOMAIN byHost' = DOMAIN byHost \cup {host}
      /\ \A h \in DOMAIN byHost' : byHost'[h] = IF h = host THEN a ELSE byHost[h]
  BY DEF ByHost
<1>3. Looked' = Looked /\ SaidOf(byAlias, Looked)'
  BY <1>1 DEF Looked, Inv, SaidOf
<1>4. a \in DOMAIN upstreams /\ unindexed \subseteq DOMAIN upstreams /\ Found
  BY <1>1 DEF Inv, SettingsTypes
<1>5. host \in Value
  <2>1. ConfiguredHosts \subseteq Value
    BY <1>4, HostTypes DEF Found, Inv
  <2>2. QED
    BY <1>4, <2>1 DEF ConfiguredHosts
<1>6. a \in Alias /\ DOMAIN byHost \subseteq Value /\ \A h \in DOMAIN byHost : byHost[h] \in Alias
  BY <1>4 DEF Inv, SettingsTypes
<1>7. IndexedSoFar'
  <2> SUFFICES ASSUME NEW b \in DOMAIN upstreams \ (unindexed \ {a})
               PROVE  LET h == upstreams[b]["host"]
                      IN /\ h \in DOMAIN byHost' /\ byHost'[h] \in DOMAIN upstreams
                         /\ upstreams[byHost'[h]]["host"] = h
    BY <1>1 DEF IndexedSoFar
  <2>1. CASE upstreams[b]["host"] = host
    BY <1>2, <1>4, <2>1
  <2>2. CASE upstreams[b]["host"] # host
    <3>1. b \in DOMAIN upstreams \ unindexed
      BY <2>2
    <3>2. IndexedSoFar
      BY <1>1 DEF Inv
    <3>3. QED
      BY <1>2, <2>2, <3>1, <3>2 DEF IndexedSoFar
  <2>3. QED
    BY <2>1, <2>2
<1> HIDE DEF host
<1>8. SettingsTypes'
  <2>1. DOMAIN byHost' \subseteq Value /\ \A h \in DOMAIN byHost' : byHost'[h] \in Alias
    BY <1>2, <1>5, <1>6
  <2>2. phase' \in Phase /\ unindexed' \subseteq DOMAIN upstreams'
    BY <1>1, <1>4 DEF Phase
  <2>3. QED
    BY <1>1, <2>1, <2>2 DEF Inv, SettingsTypes
<1>9. Found'
  BY <1>1, <1>4 DEF Found
<1>10. QED
  BY <1>1, <1>3, <1>7, <1>8, <1>9 DEF Inv

LEMMA SettingsKept == ASSUME Inv, UNCHANGED settings PROVE Inv'
<1>1. SettingsTypes' /\ Looked' = Looked
  BY DEF Inv, SettingsTypes, Looked, settings
<1>2. SaidOf(byAlias, Looked)' /\ (Found <=> Found') /\ (IndexedSoFar <=> IndexedSoFar')
  BY <1>1 DEF Inv, SaidOf, Found, IndexedSoFar, settings
<1>3. QED
  BY <1>1, <1>2 DEF Inv, settings

LEMMA NextKeepsInv == Inv /\ [Next]_vars => Inv'
<1> SUFFICES ASSUME Inv, [Next]_vars PROVE Inv'
  OBVIOUS
<1>1. CASE UNCHANGED settings
  BY <1>1, SettingsKept
<1>2. CASE Start
  BY <1>2, ProcessKeepsInv, LookKeepsInv, ValidateKeepsInv, RunRouterKeepsInv, ByHostKeepsInv
     DEF Start
<1>3. UNCHANGED settings \/ Start
  BY DEF Next, vars, Dispatch, Resolve, Lock, HeadExisting, Unlock, Answer
<1>4. QED
  BY <1>1, <1>2, <1>3

LEMMA SpecKeepsInv == Spec => []Inv
<1>1. Init => Inv
  BY InitInv DEF Init
<1>2. QED
  BY <1>1, NextKeepsInv, PTL DEF Spec

(* Whatever the order of the environment, a server that is up has the      *)
(* upstreams, logins and mirror that its variables set, and finds for the  *)
(* host of each of them one that has this host.                            *)
THEOREM UpstreamsSet == Spec => []UpstreamsAsSet
<1>1. Inv => UpstreamsAsSet
  <2> SUFFICES ASSUME Inv, phase = "up" PROVE UpstreamsAsSet
    BY DEF UpstreamsAsSet
  <2>1. Looked = environ.variables /\ upstreams = byAlias /\ Found
    BY DEF Inv, Looked
  <2>2. \A a, f : Said(a, f, Looked) = Set(a, f)
    BY <2>1 DEF Said, Set
  <2>3. SaidOf(upstreams, Looked)
    BY <2>1 DEF Inv
  <2>5. \A a \in DOMAIN upstreams :
          LET h == upstreams[a]["host"]
          IN h \in DOMAIN byHost /\ upstreams[byHost[h]]["host"] = h
    BY DEF Inv, IndexedSoFar
  <2>6. DOMAIN upstreams = {a \in Alias : \E f \in Field : Set(a, f) # {}}
    BY ONLY <2>2, <2>3 DEF SaidOf
  <2>7. \A a \in DOMAIN upstreams : \A f \in Field :
          upstreams[a][f] \in IF Set(a, f) = {} THEN {""} ELSE Set(a, f)
    BY ONLY <2>2, <2>3 DEF SaidOf
  <2>8. QED
    BY ONLY <2>1, <2>5, <2>6, <2>7 DEF UpstreamsAsSet, Found
<1>2. QED
  BY <1>1, SpecKeepsInv, PTL

(* Percent.Of leaves an eviction something to keep, for any width of the   *)
(* integers and any cap that its percents do not overflow.                 *)
THEOREM HeadroomBounded == Spec => []HeadroomWithinCap
<1>1. Inv => HeadroomWithinCap
  <2> SUFFICES ASSUME Inv, phase = "up", 0 < cap, cap * 99 < Half
               PROVE  headroom \in 0..(cap - 1)
    BY DEF HeadroomWithinCap
  <2>1. headroom = Of(environ.percent.value, cap) /\ environ.percent.value \in 0..99
    BY DEF Inv, IsPercent
  <2>2. cap \in Nat \ {0}
    BY CapType DEF Inv
  <2>3. QED
    BY <2>1, <2>2, OfBound
<1>2. QED
  BY <1>1, SpecKeepsInv, PTL
=============================================================================
