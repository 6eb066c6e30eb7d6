------------------------------ MODULE Settings ------------------------------
(***************************************************************************)
(* From the environment to a running server: the upstreams are gathered    *)
(* from the variables, in whatever order the environment lists them, and   *)
(* validated; the cap and its headroom are parsed with the width of Go's   *)
(* int64; the upstreams are indexed by host for the registry client.       *)
(***************************************************************************)
EXTENDS Integers

CONSTANTS Environ,   \* the environments the server may be started in
          Spelling,  \* aliases as variables spell them
          Lower,     \* a spelling in lower case: the alias
          Value,     \* hosts, user names and passwords
          Unit,      \* what a unit multiplies a number by
          Half       \* 2^63: an int64 is in -Half..Half - 1

Alias == {Lower[s] : s \in Spelling}
Field == {"host", "username", "password"}

(* UPSTREAM_<alias>_<FIELD>=<value>; no alias in UPSTREAM_HOST and the     *)
(* like.  MIRROR_UPSTREAM names an alias; anything else is not looked at.  *)
Variable ==
  [key : Field, alias : Spelling \cup {""}, value : Value \cup {""}]
    \cup [key : {"mirror"}, alias : Spelling \cup {""}, value : {""}]
    \cup [key : {"other"}, alias : {""}, value : {""}]

(* MAX_STORAGE: a decimal number, not one if den is 0, and a unit.         *)
SizeText == [blank : BOOLEAN, num : Nat, den : Nat, unit : STRING]

(* MAX_STORAGE_HEADROOM. *)
PercentText == [whole : BOOLEAN, value : Int]

ASSUME SettingsAssumption ==
  /\ DOMAIN Lower = Spelling
  /\ "" \notin Alias /\ "" \notin Value /\ "" \notin Spelling
  /\ Environ \subseteq [variables : SUBSET Variable, size : SizeText, percent : PercentText]
  /\ Half \in Nat \ {0}
  /\ \A u \in DOMAIN Unit : Unit[u] \in Nat \ {0}

VARIABLES environ,    \* the environment of this start
          phase,      \* how far the start has come
          pending,    \* variables ParseUpstreams has not looked at yet
          byAlias,    \* what was gathered for an alias
          mirror,     \* mirrorAlias, "" if there is none
          upstreams,  \* Registries.Upstreams
          unindexed,  \* aliases ByHost has not come to yet
          byHost,     \* the alias whose upstream the client finds for a host
          cap,        \* MaxStorage, 0 if there is none
          headroom    \* what SetMaxStorage is called with

settings == <<environ, phase, pending, byAlias, mirror, upstreams, unindexed, byHost, cap, headroom>>

Upstream == [Field -> Value \cup {""}]
Unset == [f \in Field |-> ""]

Phase == {"process", "parse", "run", "index", "up", "refused"}

InitSettings ==
  /\ environ \in Environ
  /\ phase = "process" /\ pending = environ.variables
  /\ byAlias = [a \in {} |-> Unset] /\ mirror = ""
  /\ upstreams = [a \in {} |-> Unset] /\ unindexed = {} /\ byHost = [h \in {} |-> ""]
  /\ cap = 0 /\ headroom = 0

-----------------------------------------------------------------------------
(* ParseByteSize: the integers the text may be read as.  A conversion of a *)
(* float out of range yields what the processor makes of it; what is no    *)
(* size at all is no bytes, and refused as that.                           *)
ByteSizes(s) ==
  IF s.den = 0 \/ s.unit \notin DOMAIN Unit THEN {0}
  ELSE LET bytes == (s.num * Unit[s.unit]) \div s.den IN
       IF bytes < Half THEN {bytes} ELSE {Half - 1, -Half}

(* Mutant of IsPercent: everything may be headroom. *)
IsPercentOrAll(p) == p.whole /\ p.value \in 0..100

(* ParsePercent. *)
IsPercent(p) == p.whole /\ p.value \in 0..99

(* An int64 product. *)
Wrapped(n) == ((n + Half) % (2 * Half)) - Half

(* Percent.Of; Go's division truncates. *)
Of(p, total) ==
  LET product == Wrapped(total * p) IN
  IF product < 0 THEN -((-product) \div 100) ELSE product \div 100

(* envconfig.Process, as far as the cap and the headroom go. *)
Process ==
  /\ phase = "process"
  /\ \E bytes \in IF environ.size.blank THEN {0} ELSE ByteSizes(environ.size) :
       IF (bytes > 0 \/ environ.size.blank) /\ IsPercent(environ.percent)
         THEN cap' = bytes /\ phase' = "parse"
         ELSE phase' = "refused" /\ UNCHANGED cap
  /\ UNCHANGED <<environ, pending, byAlias, mirror, upstreams, unindexed, byHost, headroom>>

(* Mutant of Raw: every variable starts from nothing. *)
RawAnew(a) == Unset

(* What get(alias) finds, or makes. *)
Raw(a) == IF a \in DOMAIN byAlias THEN byAlias[a] ELSE Unset

Gather(v) ==
  LET a == Lower[v.alias]
      raw == [Raw(a) EXCEPT ![v.key] = v.value]
  IN byAlias' = [x \in DOMAIN byAlias \cup {a} |-> IF x = a THEN raw ELSE byAlias[x]]

(* ParseUpstreams looks at one variable. *)
Look(v) ==
  /\ phase = "parse"
  /\ pending' = pending \ {v}
  /\ \/ /\ v.key = "mirror"
        /\ mirror' = IF v.alias = "" THEN "" ELSE Lower[v.alias]
        /\ UNCHANGED byAlias
     \/ /\ v.key \in Field /\ v.alias # ""
        /\ Gather(v)
        /\ UNCHANGED mirror
     \/ /\ v.key = "other" \/ (v.key \in Field /\ v.alias = "")
        /\ UNCHANGED <<byAlias, mirror>>
  /\ UNCHANGED <<environ, phase, upstreams, unindexed, byHost, cap, headroom>>

(* ParseUpstreams has looked at all: the upstreams are complete, or the    *)
(* server does not start.                                                  *)
Complete(raw) == raw["host"] # "" /\ (raw["username"] = "" <=> raw["password"] = "")

Validate ==
  /\ phase = "parse" /\ pending = {}
  /\ IF /\ \A a \in DOMAIN byAlias : Complete(byAlias[a])
        /\ DOMAIN byAlias # {}
        /\ mirror # "" => mirror \in DOMAIN byAlias
       THEN upstreams' = byAlias /\ phase' = "run"
       ELSE phase' = "refused" /\ UNCHANGED upstreams
  /\ UNCHANGED <<environ, pending, byAlias, mirror, unindexed, byHost, cap, headroom>>

(* RunRouter: the storage is indexed under the cap, if that can be done.   *)
RunRouter ==
  /\ phase = "run"
  /\ \/ cap > 0 /\ phase' = "refused" /\ UNCHANGED <<unindexed, headroom>>
     \/ /\ headroom' = IF cap > 0 THEN Of(environ.percent.value, cap) ELSE 0
        /\ unindexed' = DOMAIN upstreams /\ phase' = "index"
  /\ UNCHANGED <<environ, pending, byAlias, mirror, upstreams, byHost, cap>>

(* The loop of ByHost comes to an alias, in any order: it takes the place  *)
(* of one that came before it with the same host.                          *)
ByHost(a) ==
  LET host == upstreams[a]["host"] IN
  /\ phase = "index"
  /\ byHost' = [h \in DOMAIN byHost \cup {host} |-> IF h = host THEN a ELSE byHost[h]]
  /\ unindexed' = unindexed \ {a}
  /\ phase' = IF unindexed' = {} THEN "up" ELSE "index"
  /\ UNCHANGED <<environ, pending, byAlias, mirror, upstreams, cap, headroom>>

Start ==
  \/ Process
  \/ \E v \in pending : Look(v)
  \/ Validate
  \/ RunRouter
  \/ \E a \in unindexed : ByHost(a)

-----------------------------------------------------------------------------
SettingsTypes ==
  /\ environ \in Environ /\ phase \in Phase /\ pending \subseteq Variable
  /\ DOMAIN byAlias \subseteq Alias
  /\ \A a \in DOMAIN byAlias : byAlias[a] \in Upstream
  /\ mirror \in Alias \cup {""}
  /\ DOMAIN upstreams \subseteq Alias
  /\ \A a \in DOMAIN upstreams : upstreams[a] \in Upstream
  /\ unindexed \subseteq DOMAIN upstreams
  /\ DOMAIN byHost \subseteq Value
  /\ \A h \in DOMAIN byHost : byHost[h] \in Alias
  /\ cap \in 0..(Half - 1) /\ headroom \in (-Half)..(Half - 1)

Set(a, field) ==
  {v.value : v \in {w \in environ.variables :
                      w.key = field /\ w.alias # "" /\ Lower[w.alias] = a}}

(* Whatever the order of the variables, a server that is up has for every  *)
(* alias what some variable says, nothing for what none says, a host, and  *)
(* a login or none; its mirror is configured; and for the host of every    *)
(* alias it finds an upstream, which is one configured for that host.      *)
(* Which of several variables for one field it was is left open.           *)
UpstreamsAsSet ==
  phase = "up" =>
    /\ DOMAIN upstreams = {a \in Alias : \E f \in Field : Set(a, f) # {}}
    /\ \A a \in DOMAIN upstreams :
         /\ \A f \in Field : upstreams[a][f] \in IF Set(a, f) = {} THEN {""} ELSE Set(a, f)
         /\ Complete(upstreams[a])
    /\ mirror # "" => mirror \in DOMAIN upstreams
    /\ \A a \in DOMAIN upstreams :
         LET h == upstreams[a]["host"]
         IN h \in DOMAIN byHost /\ upstreams[byHost[h]]["host"] = h

(* For any cap whose percents fit an int64, what an eviction leaves is     *)
(* positive and at most the cap.                                           *)
HeadroomWithinCap == phase = "up" /\ 0 < cap /\ cap * 99 < Half => headroom \in 0..(cap - 1)
=============================================================================
