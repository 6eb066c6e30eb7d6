------------------------------ MODULE Routing -------------------------------
(***************************************************************************)
(* What a request path is taken for: a manifest or a blob, of an image of  *)
(* one of the upstreams, by the alias in front of its name or through the  *)
(* mirror; the lock the request then waits for, the files it reads and     *)
(* writes, and the index entry a restart makes of those files.  A path is  *)
(* a sequence of segments; joining them with "/" keeps them apart.         *)
(***************************************************************************)
EXTENDS Settings, Sequences

CONSTANTS Client,     \* connections with a request
          Request,    \* what they may ask for: a method and a path
          Algo, Hash, \* of a segment "<algo>:<hash>", what is on either side
          DotMeta,    \* of a segment "<stem>.meta", its stem
          DotBody,    \* of a segment "<stem>.body", its stem
          Hidden,     \* segments that begin with a dot
          NoRoute

ASSUME RoutingAssumption ==
  /\ Request \subseteq [method : {"GET", "HEAD"}, path : Seq(STRING) \ {<<>>}]
  /\ DOMAIN Algo = DOMAIN Hash
  /\ \A d \in DOMAIN Algo :
       /\ d \in STRING /\ Algo[d] \in STRING /\ Hash[d] \in STRING
       /\ Algo[d] \notin DOMAIN Algo
  /\ \A d, e \in DOMAIN Algo : Algo[d] = Algo[e] /\ Hash[d] = Hash[e] => d = e

VARIABLE job  \* of each client: where its request is, and what became of it

vars == <<settings, job>>

Idle == [pc |-> "idle", method |-> "GET", path |-> <<>>, kind |-> "none",
         name |-> <<>>, ref |-> <<>>, host |-> "", repo |-> <<>>]

Init == InitSettings /\ job = [c \in Client |-> Idle]

-----------------------------------------------------------------------------
(* Mutant of LastIndex: the first occurrence counts. *)
FirstIndex(path, segment) ==
  LET at == {i \in 2..(Len(path) - 1) : path[i] = segment} IN
  IF at = {} THEN 0 ELSE CHOOSE i \in at : \A j \in at : i <= j

(* strings.LastIndex of "/<segment>/", 0 if there is none.                 *)
LastIndex(path, segment) ==
  LET at == {i \in 2..(Len(path) - 1) : path[i] = segment} IN
  IF at = {} THEN 0 ELSE CHOOSE i \in at : \A j \in at : j <= i

Kind(path) ==
  CASE LastIndex(path, "manifests") # 0 -> "manifests"
    [] LastIndex(path, "manifests") = 0 /\ LastIndex(path, "blobs") # 0 -> "blobs"
    [] OTHER -> "none"

(* DispatchHandler.Handle.  Only a path with a name and a reference comes  *)
(* to a handler: the version check and the errors answer at once.          *)
Dispatch(c) ==
  /\ phase = "up" /\ job[c].pc = "idle"
  /\ \E r \in Request :
       LET kind == Kind(r.path)
           at == LastIndex(r.path, kind)
           name == SubSeq(r.path, 1, at - 1)
           ref == SubSeq(r.path, at + 1, Len(r.path))
       IN IF kind = "none" \/ name = <<"">> \/ ref = <<"">>
            THEN job' = [job EXCEPT ![c] = [Idle EXCEPT !.pc = "done", !.path = r.path]]
            ELSE job' = [job EXCEPT ![c] =
                   [Idle EXCEPT !.pc = "resolve", !.method = r.method, !.path = r.path,
                                !.kind = kind, !.name = name, !.ref = ref]]
  /\ UNCHANGED settings

Prefixed(name) == Len(name) > 1 /\ Tail(name) # <<"">>

(* Mutant of ResolveImage: the mirror is asked first. *)
ResolveMirrorFirst(name) ==
  CASE mirror # "" /\ name # <<"">> /\ name[Len(name)] # "" -> <<mirror, name>>
    [] mirror = "" /\ Prefixed(name) /\ Head(name) \in DOMAIN upstreams -> <<Head(name), Tail(name)>>
    [] OTHER -> NoRoute

(* ResolveImage: an alias in front of a repository, else the mirror.       *)
ResolveImage(name) ==
  CASE Prefixed(name) /\ Head(name) \in DOMAIN upstreams -> <<Head(name), Tail(name)>>
    [] /\ ~(Prefixed(name) /\ Head(name) \in DOMAIN upstreams)
       /\ mirror # "" /\ name # <<"">> /\ name[Len(name)] # "" -> <<mirror, name>>
    [] OTHER -> NoRoute

(* The interactors resolve the name first; an error is the answer.         *)
Resolve(c) ==
  LET route == ResolveImage(job[c].name) IN
  /\ job[c].pc = "resolve"
  /\ IF route = NoRoute
       THEN job' = [job EXCEPT ![c].pc = "done"]
       ELSE job' = [job EXCEPT ![c].pc = "wait", ![c].host = upstreams[route[1]]["host"],
                               ![c].repo = route[2]]
  /\ UNCHANGED settings

(* Mutant of LockKey: by the name that was asked for. *)
LockKeyByName(j) ==
  j.name \o (IF j.kind = "blobs" THEN <<"blob">> ELSE <<>>) \o j.ref

LockKey(j) ==
  <<j.host>> \o j.repo \o (IF j.kind = "blobs" THEN <<"blob">> ELSE <<>>) \o j.ref

(* The interactor's lock; a HEAD of a blob that is there does without.     *)
Lock(c) ==
  /\ job[c].pc = "wait"
  /\ \A d \in Client : job[d].pc = "inside" => LockKey(job[d]) # LockKey(job[c])
  /\ job' = [job EXCEPT ![c].pc = "inside"]
  /\ UNCHANGED settings

HeadExisting(c) ==
  /\ job[c].pc = "wait" /\ job[c].kind = "blobs" /\ job[c].method = "HEAD"
  /\ job' = [job EXCEPT ![c].pc = "done"]
  /\ UNCHANGED settings

Unlock(c) ==
  /\ job[c].pc = "inside"
  /\ job' = [job EXCEPT ![c].pc = "done"]
  /\ UNCHANGED settings

Answer(c) ==
  /\ job[c].pc = "done"
  /\ job' = [job EXCEPT ![c] = Idle]
  /\ UNCHANGED settings

Next ==
  \/ Start /\ UNCHANGED job
  \/ \E c \in Client : Dispatch(c) \/ Resolve(c) \/ Lock(c) \/ HeadExisting(c)
                         \/ Unlock(c) \/ Answer(c)

Spec == Init /\ [][Next]_vars

-----------------------------------------------------------------------------
Colons(ref) == {i \in DOMAIN ref : ref[i] \in DOMAIN Algo}
IsDigest(ref) == Colons(ref) # {}

(* Mutant of SplitDigest: the algorithm is not told apart. *)
SplitHash(ref) ==
  IF ~IsDigest(ref) THEN ref
  ELSE LET i == CHOOSE i \in Colons(ref) : \A j \in Colons(ref) : i <= j IN
       <<Hash[ref[i]]>> \o SubSeq(ref, i + 1, Len(ref))

(* splitDigest: <algo>/<hash>, split at the first colon.                   *)
SplitDigest(ref) ==
  IF ~IsDigest(ref) THEN <<"sha256">> \o ref
  ELSE LET i == CHOOSE i \in Colons(ref) : \A j \in Colons(ref) : i <= j IN
       SubSeq(ref, 1, i - 1) \o <<Algo[ref[i]], Hash[ref[i]]>> \o SubSeq(ref, i + 1, Len(ref))

(* What manifestDir and blobDir put together, to be joined.                *)
EntryPath(j) ==
  <<j.host>> \o j.repo \o
    CASE j.kind = "blobs" -> <<"blobs">> \o SplitDigest(j.ref)
      [] j.kind = "manifests" /\ IsDigest(j.ref) -> <<"manifests", "digests">> \o SplitDigest(j.ref)
      [] j.kind = "manifests" /\ ~IsDigest(j.ref) -> <<"manifests", "tags">> \o j.ref

(* filepath.Join, of a path to the last segments of which something is put *)
(* after the first n are joined: empty segments and dots are dropped, two  *)
(* dots take back what is before them, and what is clean stays as it is.   *)
Back(path) ==
  IF path = <<>> \/ path[Len(path)] = ".." THEN Append(path, "..")
  ELSE SubSeq(path, 1, Len(path) - 1)

Cleaned(path, n) ==
  LET upTo[i \in 0..n] ==
        CASE i = 0 -> <<>>
          [] i > 0 /\ path[i] \in {"", "."} -> upTo[i - 1]
          [] i > 0 /\ path[i] = ".." -> Back(upTo[i - 1])
          [] OTHER -> Append(upTo[i - 1], path[i])
  IN upTo[n] \o SubSeq(path, n + 1, Len(path))

Clean(path, n) == \A i \in 1..n : path[i] \notin {"", ".", ".."}

Join(path, n) == IF Clean(path, n) THEN path ELSE Cleaned(path, n)

(* The key under which the index knows the entry.                          *)
EntryKey(j) == Join(EntryPath(j), Len(EntryPath(j)))

(* A file is its path without the ending, and the ending: "meta", "body"   *)
(* or none.                                                                *)
File(path) ==
  LET last == path[Len(path)] IN
  CASE last \in DOMAIN DotMeta -> <<[path EXCEPT ![Len(path)] = DotMeta[last]], "meta">>
    [] last \in DOMAIN DotBody -> <<[path EXCEPT ![Len(path)] = DotBody[last]], "body">>
    [] OTHER -> <<path, "">>

(* The files of what is asked for.  Those of a manifest get their ending   *)
(* before the last segment is joined.                                      *)
OwnFiles(j) ==
  IF j.kind = "blobs" THEN {File(EntryKey(j))}
  ELSE {<<Join(EntryPath(j), Len(EntryPath(j)) - 1), part>> : part \in {"meta", "body"}}

(* PutManifest of a tag also stores the digest upstream gave, whichever.   *)
Entries(j) ==
  {j} \cup IF j.kind = "manifests" /\ ~IsDigest(j.ref)
            THEN {[j EXCEPT !.ref = <<d>>] : d \in DOMAIN Algo} ELSE {}

Files(j) == UNION {OwnFiles(k) : k \in Entries(j)}

(* scanEntries, of one file: ".meta" is cut off, and ".body" after it.     *)
ScanKey(file) ==
  LET key == file[1] IN
  IF file[2] = "meta" /\ key[Len(key)] \in DOMAIN DotBody
    THEN [key EXCEPT ![Len(key)] = DotBody[key[Len(key)]]] ELSE key

IsHidden(file) == file[1][Len(file[1])] \in Hidden \cup {""}
UnderBlobs(file) == \E i \in 1..(Len(file[1]) - 1) : file[1][i] = "blobs"

(* Mutant of ScanKind: what is under a "blobs" is a blob. *)
ScanKindBlobsFirst(file) ==
  CASE IsHidden(file) -> "none"
    [] ~IsHidden(file) /\ UnderBlobs(file) -> "blobs"
    [] OTHER -> "manifests"

ScanKind(file) ==
  CASE ~IsHidden(file) /\ file[2] # "" -> "manifests"
    [] ~IsHidden(file) /\ file[2] = "" /\ UnderBlobs(file) -> "blobs"
    [] OTHER -> "none"

-----------------------------------------------------------------------------
Routed(c) == job[c].pc \in {"wait", "inside"}

(* What registries and their clients keep to in a reference, unchecked     *)
(* here: no part of a digest is named like a directory of the layout, and  *)
(* the name of an algorithm comes only in front of a colon.                *)
PlainDigests ==
  \A d \in DOMAIN Algo :
    /\ {Algo[d], Hash[d]} \cap {"manifests", "blobs"} = {}
    /\ \A r \in Request : \A i \in DOMAIN r.path :
         Kind(r.path) # "none" /\ r.path[i] = Algo[d] =>
           \E j \in (i + 1)..(Len(r.path) - 1) : r.path[j] = Kind(r.path)

(* No tag ends in ".body", the ending scanEntries cuts off too much of.    *)
NoDotBody ==
  /\ \A d \in DOMAIN Hash : {d, Hash[d]} \cap DOMAIN DotBody = {}
  /\ \A r \in Request : r.path[Len(r.path)] \notin DOMAIN DotBody

(* As registries name repositories, tags and digests: nothing in the path  *)
(* is for filepath.Join to clean, and no blob's name ends like a           *)
(* manifest's file.                                                        *)
Plain(j) ==
  LET path == EntryPath(j) IN
  /\ Clean(path, Len(path))
  /\ j.kind = "blobs" => path[Len(path)] \notin DOMAIN DotMeta \cup DOMAIN DotBody

Job == [pc : {"idle", "resolve", "wait", "inside", "done"}, method : {"GET", "HEAD"},
        path : Seq(STRING), kind : {"none", "manifests", "blobs"},
        name : Seq(STRING), ref : Seq(STRING),
        host : Value \cup {""}, repo : Seq(STRING)]

TypeOK == SettingsTypes /\ job \in [Client -> Job]

(* A path that ends in a kind and a reference reaches the handler of that  *)
(* kind with all before it as the name, whatever the repository is called; *)
(* only a blob of a repository with a "manifests" component does not.      *)
RoutedAsAsked ==
  \A c \in Client :
    LET j == job[c]
        n == Len(j.path)
        name == SubSeq(j.path, 1, n - 2)
    IN j.pc = "resolve" /\ n > 2 /\ j.path[n - 1] \in {"manifests", "blobs"}
         /\ ~(j.path[n - 1] = "blobs" /\ \E i \in 2..(n - 2) : j.path[i] = "manifests")
       => j.kind = j.path[n - 1] /\ j.name = name /\ j.ref = <<j.path[n]>>

(* No two images meet in a file, a digest's that is stored for a tag       *)
(* included: those that do are one manifest or one blob of one repository  *)
(* of one host, up to the default algorithm.  Of plain names only: Join    *)
(* brings hub/../ghcr.io/pg to what is ghcr.io's.                          *)
OneImagePerFile ==
  \A c, d \in Client :
    Routed(c) /\ Routed(d) =>
      \A j \in Entries(job[c]), k \in Entries(job[d]) :
        Plain(j) /\ Plain(k) /\ OwnFiles(j) \cap OwnFiles(k) # {} =>
          /\ j.host = k.host /\ j.repo = k.repo /\ j.kind = k.kind
          /\ IsDigest(j.ref) /\ IsDigest(k.ref) => j.ref = k.ref

(* While a request is inside, no other works on the files of what it asks  *)
(* for, by whatever name that was: "both forms share one cache".  Three    *)
(* kinds of requests do not wait for each other: the one for a digest and  *)
(* the one for a tag that stores that digest, two for one blob of which    *)
(* one leaves out the algorithm, and those by a name that Join cleans.     *)
FilesGuarded ==
  \A c, d \in Client :
    /\ c # d /\ job[c].pc = "inside" /\ job[d].pc = "inside"
    /\ \/ IsDigest(job[c].ref) <=> IsDigest(job[d].ref)
       \/ job[c].kind = "manifests" /\ ~IsDigest(job[c].ref)
    => \A k \in Entries(job[d]) :
         Plain(job[c]) /\ Plain(k) => OwnFiles(job[c]) \cap OwnFiles(k) = {}

(* An image of the mirrored upstream has the same files with and without   *)
(* the alias in front, unless its name begins with another alias.          *)
BothFormsShareOneCache ==
  \A c, d \in Client :
    /\ Routed(c) /\ Routed(d) /\ mirror # ""
    /\ job[c].name = <<mirror>> \o job[d].name
    /\ ~(Len(job[d].name) > 1 /\ Head(job[d].name) \in DOMAIN upstreams)
    /\ job[c].kind = job[d].kind /\ job[c].ref = job[d].ref
    => Files(job[c]) = Files(job[d]) /\ LockKey(job[c]) = LockKey(job[d])

(* After a restart the index knows what was stored: the scan puts a file   *)
(* under the entry it was written for, so that a request touches, and an   *)
(* eviction removes, what belongs together.  Not so of a file whose name   *)
(* begins with a dot, which the scan passes over.                          *)
ScanFindsFiles ==
  \A c \in Client :
    Routed(c) => \A j \in Entries(job[c]) : \A f \in OwnFiles(j) :
      Plain(j) /\ ~IsHidden(f) => ScanKind(f) = j.kind /\ ScanKey(f) = EntryKey(j)
=============================================================================
