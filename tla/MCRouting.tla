----------------------------- MODULE MCRouting ------------------------------
EXTENDS Routing, TLC

Spellings == {"HUB", "hub", "GHCR", "MIR"}
LowerCase == [s \in Spellings |-> CASE s \in {"HUB", "hub"} -> "hub"
                                    [] s = "GHCR" -> "ghcr" [] s = "MIR" -> "mir"]
Values == {"docker.io", "ghcr.io", "other.io", "user", "secret"}

Var(key, alias, value) == [key |-> key, alias |-> alias, value |-> value]
Host(alias, host) == Var("host", alias, host)
Login(alias) == {Var("username", alias, "user"), Var("password", alias, "secret")}
Mirror(alias) == Var("mirror", alias, "")
Hub == Host("HUB", "docker.io")
Ghcr == Host("GHCR", "ghcr.io")
Other == {Var("other", "", ""), Var("host", "", "other.io")}

(* Two upstreams, one of them private and mirrored; two aliases of one     *)
(* host; two upstreams without a mirror; an alias spelled twice, once with *)
(* a login; and what must not start, in some order or in any.              *)
Serving == {{Hub, Ghcr, Mirror("HUB")} \cup Login("HUB") \cup Other,
            {Hub, Host("MIR", "docker.io"), Mirror("MIR")},
            {Hub, Ghcr},
            {Hub, Host("hub", "other.io")} \cup Login("HUB")}
Faulty == {{Hub, Host("hub", "")},
           {Hub} \cup Login("GHCR"),
           {Hub, Var("username", "HUB", "user")},
           {Hub, Mirror("GHCR")},
           {Mirror("HUB")} \cup Other}

(* With an int64 of twelve bits.                                           *)
Units == [b |-> 1, kb |-> 4, mb |-> 16]
MaxInt == 2048
Text(num, den, unit) == [blank |-> FALSE, num |-> num, den |-> den, unit |-> unit]
Unlimited == [blank |-> TRUE, num |-> 0, den |-> 1, unit |-> "b"]
Caps == {Unlimited, Text(3, 2, "kb"), Text(19, 1, "b"), Text(20, 1, "b"), Text(100, 1, "mb"),
         Text(128, 1, "mb"), Text(0, 1, "kb"), Text(1, 2, "b"), Text(1, 1, "gib"), Text(1, 0, "b")}
Whole(n) == [whole |-> TRUE, value |-> n]
Percents == {Whole(n) : n \in {-1, 0, 10, 99, 100}} \cup {[whole |-> FALSE, value |-> 0]}

Environment(set, size, percent) == [variables |-> set, size |-> size, percent |-> percent]
Environments ==
  {Environment(v, Unlimited, Whole(10)) : v \in Serving \cup Faulty}
    \cup {Environment({Ghcr}, s, p) : s \in Caps, p \in Percents}

Digests == {"sha256:a", "sha512:a"}
AlgoOf == [d \in Digests |-> IF d = "sha256:a" THEN "sha256" ELSE "sha512"]
HashOf == [d \in Digests |-> "a"]
DotMetas == [t \in {"v1.meta", "a.meta"} |-> IF t = "a.meta" THEN "a" ELSE "v1"]
DotBodies == [t \in {"v1.body"} |-> "v1"]
Dotted == {".v1", ".", ".."}

(* Names with and without an alias, repositories called like parts of the  *)
(* layout, and what is no name.                                            *)
Names == {<<"hub", "pg">>, <<"pg">>, <<"mir", "pg">>, <<"ghcr", "pg">>,
          <<"ghcr", "manifests">>, <<"manifests">>, <<"manifests", "tags">>,
          <<"hub", "blobs", "sha256">>, <<"hub", "">>, <<"">>}
Ask(method, path) == [method |-> method, path |-> path]
Pulls(tags) ==
  {Ask("GET", n \o <<"manifests", r>>) : n \in Names, r \in tags \cup Digests}
    \cup {Ask("GET", n \o <<"blobs", r>>) : n \in Names, r \in {"a"} \cup Digests}
Odd == {Ask("GET", <<"">>), Ask("GET", <<"hub", "pg", "tags", "list">>),
        Ask("HEAD", <<"hub", "pg", "blobs", "sha256:a">>),
        Ask("GET", <<"hub", "", "pg", "manifests", "v1">>),
        Ask("GET", <<"hub", "..", "ghcr.io", "pg", "manifests", "v1">>),
        Ask("GET", <<"hub", "pg", "manifests", ".v1">>),
        Ask("GET", <<"hub", "pg", "blobs", "a.meta">>)}
Requests == Pulls({"v1", "v1.meta"}) \cup Odd

ASSUME MCPlainDigests == PlainDigests

(* Join: what is clean stays, and what is not comes to a name that is.     *)
Paths == UNION {[1..n -> {"", ".", "..", "a", "b"}] : n \in 1..4}
ASSUME MCJoin ==
  /\ \A p \in Paths : \A n \in 0..Len(p) : Clean(p, n) => Cleaned(p, n) = p
  /\ \A p \in Paths : LET q == Join(p, Len(p)) IN
       /\ Join(q, Len(q)) = q
       /\ \A i \in DOMAIN q : q[i] \in {"a", "b"} \/ \A h \in 1..i : q[h] = ".."
  /\ Join(<<"docker.io", "", "pg">>, 3) = <<"docker.io", "pg">>
  /\ Join(<<"docker.io", "..", "ghcr.io", "pg", "..">>, 4) = <<"ghcr.io", "pg", "..">>

(* Docker allows a tag to end in anything. *)
BodyTags == {Ask("GET", <<"hub", "pg", "manifests", t>>) : t \in {"v1", "v1.body"}}

Clients == Permutations(Client)
=============================================================================
