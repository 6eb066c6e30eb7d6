# TLA+ models of stashito

stashito is a pull-through cache for OCI registries, written in Go. A client
asks it for a manifest or a blob; it answers from files under one cache root,
or downloads from the upstream registry, stores and answers. This directory
models the parts of it that several requests share, how its settings are read and a
path is turned into files, checks them with TLC, and proves with TLAPS
every safety property that a run checks: invariants and action properties of the
evictor, of the blob and the manifest cache, of the registry client's caches, of
the mtimes that carry the order of last use over a restart, of the settings and
of the routing, and that the blob cache implements the evictor.

Paths below are relative to `server/internal/app/server/` unless they start with
`docs/` or `server/`.

## 1. The system

| component | code | state | operations |
|---|---|---|---|
| Evictor | `interface/storage/fs/evictor.go` | `lru`, `entries`, `used`, `inflight` under `evictor.mu`; mtimes of the files | `touch` and its flush, `add`, `reserve`, `release`, `evictIfNeeded`, `freeDisk`, start-up scan |
| Blob cache-through | `interactor/blob.go`, `interface/storage/fs/cache.go`, `interface/handler/blob.go` | key locks, `diskLedger.pending`, temp files, blob files, each writer's locals | GET and HEAD: open, download, reserve, write, `Close` or `Abort`, reopen, serve |
| Manifest cache-through | `interactor/manifest.go`, `cache.go`, `interface/handler/manifest.go` | `.meta` and `.body` files per tag and digest, key locks | GET and HEAD: read, TTL test, HEAD upstream, refresh, fetch, store, stale fallback |
| Registry client | `interface/upstream/registry.go` | token cache, set of hosts that want basic credentials | request, challenge, token, retry |
| ECR credentials | `interface/upstream/ecr.go` | authorization token per host and its expiry | `get` |
| Names and upstreams | `domain/entity/registry.go`, `config/upstreams.go`, `interface/handler/dispatch.go` | none | parse a name, choose an upstream |
| Sizes and percents | `config/size.go`, `config/percent.go` | none | parse, `total * percent` |
| Storage collector | `metrics/storage.go` | last scan and its time | `Collect` |
| Router, health, request metrics | `http/rest/router.go`, `metrics/metrics.go` | counters | wiring |
| Command line | `server/cmd`, `config/config.go` | none | start-up |

**How they interact.** Every request is a goroutine. The handler calls an
interactor, which holds the mutex of the request's lock key for as long as it
reads, downloads and stores, and gives it back before the content is sent to the
client. The interactor reads and writes through the cache repository; a
repository writer reports to the evictor (`reserve`, `release`, `add`) and to
the disk ledger (`claim`, `release`), both shared by all requests. The evictor
deletes files of any key without taking that key's lock. The ledger's `claim`
holds the ledger's mutex across `freeDisk`, which takes `evictor.mu` and unlinks
files; every byte written by every other download needs that same mutex.
Nothing but files survives a restart: the index is rebuilt from them.

**What is hard.** Several structures under several kinds of mutex, and much done
between the critical sections: eviction happens after the `add` that made it
necessary; an unlink happens after `evictor.mu` is released; `Close` renames,
settles, adds and evicts in separate critical sections; a manifest is two files,
and storing a tag is four writes under the tag's lock alone. Downloads can fail,
break off or lack a Content-Length; writes, unlinks and `statfs` can fail; the
process can die at any step.

**What makes each part correct.**

- *Evictor*: the counter never drifts from the entries; the cap is kept by
  whatever can be kept; oversized blobs are evicted first, the others in order of
  last use.
- *Blob cache*: index and files agree; no reservation is leaked or returned
  twice; no prefix of a blob is committed; one download per blob; concurrent
  downloads do not fill the disk together; every request is answered.
- *Manifest cache*: a digest's body never changes; metadata and body belong
  together in every answer; a tag served as current is no older than its TTL and
  the latencies; cached content is served when upstream fails.
- *Order of last use*: what a restart makes of the mtimes is the order in which
  entries were used, up to a minute and the time calls are under way.
- *Registry client, ECR*: nothing stale in a cache fails a request by itself; a
  credential that is taken from a cache is alive when it reaches the registry;
  AWS is asked once for a credential, not once by each goroutine; every request
  is answered.
- *Settings*: whatever the order of the environment, the upstreams are as set, a
  host gets only credentials that were set for it, and percents of a cap stay
  below it.
- *Names and paths*: each path reaches the handler of its kind; images never meet
  in a file; requests that work on one file exclude each other; both names of a
  mirrored image have one cache entry; a restart finds every file again.

`PROJECT.json` lists 40 hazards at their lines with the properties that cover
them, and says of the others why none does yet.

## 2. Modules

```
EvictorIndex ── Evictor ── MCEvictor                     (TLC)
     │                         └── EvictorProofs         (TLAPS, with EvictorIndexProofs)
     ├── EvictorIndexProofs                              (TLAPS: lemmas on the operators)
     └── BlobCache ── MCBlobCache                        (TLC; Evictor by INSTANCE)
             └─────── BlobCacheProofs                    (TLAPS, with EvictorIndexProofs)
ManifestCache ── MCManifestCache ── MCManifestHistory    (TLC)
                                         └── ManifestCacheProofs (TLAPS)
RegistryAuth ── MCRegistryAuth                           (TLC)
     └───────── RegistryAuthProofs                       (TLAPS)
Recency ── MCRecency                                     (TLC)
                └── RecencyProofs                        (TLAPS)
Settings ── Routing ── MCRouting                         (TLC)
                └───── RoutingProofs ── PathProofs       (TLAPS)
```

Where a property is about the past, the MC module adds the history variable it
needs and `MCSpec`, the specification with it; the proofs about these properties
extend the MC module.

**EvictorIndex** has the index as a record and one operator for the body of each
critical section of `evictor.mu`: `Touched`, `Added`, `Reserved`, `Released`,
`Popped`. It has no state of its own, so that both the abstract evictor and the
blob cache are built from the same definitions. `Evicts(ix, n)` says how many
entries `evictIfNeeded`'s loop pops; popping happens in one critical section in
the code, hence in one step here. `Total` writes a sum as the size of a set: no
recursion, so the proofs can use it.

**Evictor** is the evictor as its callers see it, and the abstract specification
of what the blob cache must do with it. `owed` counts goroutines that have left
`evictor.mu` after an `add` or a `reserve` and have still to run
`evictIfNeeded`, which is a separate step that other calls may come before.
A cold (oversized) add owes none: `evictor.add` calls `evictIfNeeded` only for
entries that fit.

**BlobCache** has the requests. A goroutine's `pc` names the critical section
or system call that it makes next:

| pc | code | next |
|---|---|---|
| `stat`, `head` | `BlobExists` before the lock (HEAD) | answer, or `lock` |
| `lock` | `locks.Lock(key)` | `open` |
| `open`, `touch`, `serve` | `OpenBlob`, `evictor.touch`, unlock and send | idle |
| `put`, `fetch` | `CreateTemp`, response of upstream | `reserve`, `copy`, or fail |
| `reserve`, `claim`, `measure`, `free` | `ReserveSize`: `book`, then `diskLedger.claim` and `freeDisk` | `copy`, or refuse with 507 |
| `copy`, `landed`, `book` | one turn of `io.Copy`: the write, `ledger.release`, `book` | `copy`, `close`, or fail |
| `close`, `settle`, `settleDisk`, `add`, `reopen` | `Close`, and `OpenBlob` again | `touch`, or 404 |
| `settle`, `settleDisk`, `remove` | `Abort` | unlocked |
| `evict`, `unlink` | `evictIfNeeded`: pop, then one `os.Remove` at a time | `then` |

`DrivesEvictor` is the refinement: with `owed` taken as the number of goroutines
at `evict`, every step of the blob cache is a step of `Evictor` or leaves its
variables alone. It is proved, and so are `Evictor`'s invariants, for every
instance: what the blob cache does with the index inherits them.

**ManifestCache** has one tag and the digests it may point at, each a `.meta` and
a `.body` file. `stage` says which of the interactors' reads of the cache a
goroutine is at (`trusted`: is the entry fresh; `current`: read it; `matching`:
compare with upstream's HEAD; `refresh`: read and stamp anew; `stale`,
`fallback`: upstream failed; `digest`, `known`: by digest). `Found` and `Missed`
say where each leads. Storing a manifest is up to four `Write` steps, metadata
before body and tag before digest, and a failing one ends the sequence. Evictors
are processes of their own that strike any key that has a file, and unlink its
two files in two steps. `Spec` is one life of the process: a crash between two
writes parts them as a failing write does. `MCManifestHistory` adds crashes and
restarts, and two history variables, when
the tag last pointed at each manifest and whether a write was cut short between
a `.meta` and its `.body`, for two properties about the past.

**RegistryAuth** has the goroutines of the registry client. Its variables are the
token cache (`registryClient.tokenCache`, by host and repository), the hosts
marked as basic, the ECR cache and `ecrCredentials.mu`.

| pc | code | next |
|---|---|---|
| `apply` | `applyCachedAuth`: a cached token, or a host known as basic | `send`, `creds` |
| `creds` | `credentialsFor`: none, static, or `ecrCredentials.get` up to the call | `send`, `token`, `mark`, `aws`, or fail |
| `aws`, `keep` | `GetAuthorizationToken` with the mutex held, and its answer cached | as `creds` |
| `token`, `store` | `fetchToken`: the request, and the token cached with `expires_in - 30`, at least 30 | `send`, or fail |
| `mark` | `basicHosts` | `send` |
| `send` | the request; a first 401 is a challenge, a second one the answer | `creds`, or answered |

A credential is what upstream knows of it: the time until which it is good, the
life it was issued with, whether it was withdrawn. What the caches think of it is
the separate `expiresAt`. Time passes between the reading of a cache and the
judgement of upstream: `Tick` may come anywhere, as long as no answer has been
under way for `MaxLatency`. Waiting for the mutex is not bounded.

**Recency** has what `Evictor` leaves out: the mtimes. `touch` reads the clock
before it waits for `evictor.mu` (`Touch`), marks the entry as flushed if its last
flush is an interval ago and it is not cold (`Bump`), and calls `Chtimes` after the
mutex is released (`Flush`). In between, the entry may be evicted, unlinked,
downloaded, renamed into place and added again, or the process may die. A download
is three steps: the last write to its temp file, which gives it its mtime (`Write`),
the rename, which keeps that mtime (`Store`), and the `add`, which stamps
`persistedAt` (`Add`). `Restart` indexes what is on disk with `persistedAt` from the
mtimes, and nothing as cold. `lastUse` is history. `Settled(k)` excludes what a
crash takes with it, a rename not yet added and a flush not yet made, and cold
entries, of whose uses `touch` flushes none. A manifest is one file here; in the
code its `.body` gets the flush and a scan takes the later of both mtimes.
`MCRecency` adds the last flush of each file.

**Settings** is the start: `Process` parses the cap and the percent, `Look` is one
turn of the loop of `ParseUpstreams`, in any order, as `os.Environ` promises none,
`Validate` its checks, `RunRouter` the headroom, `ByHost` one turn of the loop that
fills the registry client's map from hosts to upstreams, in any order, as Go's
`range` over a map promises none: of two aliases of one host the later one stays. An
int64 is `-Half..Half - 1`, and the product in `Percent.Of` wraps.

**Routing** extends it with clients: `Dispatch` splits a path at the last
`manifests` or `blobs`, `Resolve` finds the upstream, `Lock` and `Unlock` hold the
interactor's lock key. Operators say which files a request works on and what the
scan would make of each:

| operator | what it is |
|---|---|
| `EntryPath` | the segments that `manifestDir` and `blobDir` put together |
| `Join` | `filepath.Join` of them: empty segments and dots dropped, two dots taking back the segment before |
| `OwnFiles` | the blob's file, or the `.meta` and the `.body` of a manifest |
| `Entries` | what is asked for and, for a tag, every digest `PutManifest` may store it under |
| `IsHidden`, `ScanKind`, `ScanKey` | `scanEntries`: files that begin with a dot are skipped, `.meta` and `.body` cut off |

A path is a sequence of segments, and a segment with a colon or with the ending
`.meta` or `.body` is one of which `Algo`, `Hash`, `DotMeta` or `DotBody` say what
its parts are, and `Hidden` holds those that begin with a dot; no string is taken
apart. The lock key is made of the words of the request, before `Join` cleans
them: names with empty or dot segments come to files of other names, without their
lock. `Plain` is the premise that leaves such names out of the properties about
files, and each property's comment says so.

Definitions named in comments as *mutants* stand beside the definition they
alter. They are used by no specification: replacing the original by its mutant
must make a run report its property, which shows that the property watches that
code.

## 3. Runs

| run | what it asks | distinct states |
|---|---|---|
| `evictor` | any interleaving of touches, adds, replacements, reservations, releases, evictions, restarts | 11,052 |
| `blob_capped` | three requests with a cap, failing upstream, chunked bodies, failing `statfs` | 630,680 |
| `blob_faults` | two requests under every fault, crashes included, with and without a cap, fairly scheduled | 278,603 |
| `manifest_races` | two requests and an evictor over a moving tag | 2,580,950 |
| `manifest_faults` | one request and an evictor under failing writes, failing unlinks, failing upstream and crashes, with a clock | 2,255,898 |
| `registry` | two requests to a bearer, a basic or an ECR host, with expiring, short and withdrawn credentials, fairly scheduled | 212,213 |
| `recency` | two goroutines that touch, write, rename, add and evict two keys, restarts, a clock | 3,221,059 |
| `routing` | starts from many environments, and two requests for any of the paths | 435,931 |

The type invariant of each module is proved; TLC checks it as well in `BlobCache`
and `ManifestCache`.

The properties of `evictor` say that `used` is exact (`Accounting`), that cold entries stay at the
back (`ColdLast`), that the cap holds once no eviction is owed (`WarmWithinCap`),
and that warm entries lie in order of last use (`LeastRecentlyUsedLast`, by a
history variable); `ColdGoesFirst` is an action property.

The blob runs check that each index entry has its file and size
(`IndexedFilesExist`), that no committed file escapes the index
(`FilesIndexed`), that each blob has one writer (`OneDownload`), that `used +
inflight` covers the committed files and the bytes of the downloads under way
(`DiskCounted`, with the exceptions below), that the reservations add up (`BooksBalance`), that committed blobs are whole (`OnlyWholeBlobs`), that
what granted downloads have yet to write is free on disk (`AnnouncedBytesFit`),
the refinement (`DrivesEvictor`), and that every request is answered
(`EveryRequestAnswered`).

`DiskCounted` counts a download to the byte, and a commit until it settles. What the
code leaves uncounted, and the property too, is: popped files not yet unlinked;
blobs larger than the cap, until they are added; the file of a commit between
`settle` and `add`, and the temp file of a failed download between `settle` and
`os.Remove`; the one byte that a chunked response has written and `book` has not seen
yet; temp files abandoned by a crash or a failing `Close`; and unlinked files that
are still being read.

The manifest runs check one fetch per reference (`OneFetch`), that a digest's
body is its own (`DigestsImmutable`), that answers are of one piece
(`ServedWhole`), the freshness of tags (`TagsFresh`), and that under faults only
a write cut short between the two files can part them (`WholeUnlessTorn`).

`registry` checks that a 401 reaches a client only for a credential that was
withdrawn or that lives no longer than two answers take
(`RefusedOnlyIfWithdrawn`), that a token which lives for the margin and the floor
of `fetchToken`, and every ECR credential, is alive whenever it arrives upstream
(`TokensArriveAlive`, `EcrArrivesAlive`), that AWS is asked again only when a
credential is due (`EcrRefreshedWhenDue`), and that every request is answered
though the ECR mutex is held over a call (`RequestsAnswered`).

`recency` checks that of two settled entries the one used later, by an interval
and two delays, has the younger file (`OrderSurvives`), that no file looks used
later than it was (`NeverYounger`), and that the times written to one file are an
interval apart, less the delay of a rename (`FlushesSpaced`): after a restart the
last write of a download passes for the last flush. An entry larger than the cap
keeps the mtime of its download however often it is served, so the first of the
three is not about it.

`routing` checks the settings (`UpstreamsAsSet`, `HeadroomWithinCap`), that a path
reaches its handler whatever the repository is called (`RoutedAsAsked`; a blob of a
repository with a `manifests` component does not, and is left out), that the two
names of a mirrored image have one entry (`BothFormsShareOneCache`), and, of names
that `Join` leaves as they are:

- that images never share a file, a digest's that is stored for a tag included
  (`OneImagePerFile`);
- that no other request works on the files of what a request inside its lock asks for
  (`FilesGuarded`), but for two kinds of pairs that the code lets in together: a tag's
  request, which stores the digest's files under the tag's lock, next to one for that
  digest (what this may do is `ServedWhole` and `DigestsImmutable`); and requests for
  a blob of which one leaves the algorithm out;
- that the scan puts a file under the entry it was written for (`ScanFindsFiles`),
  files that begin with a dot excepted, which it skips. A tag cannot begin with one.

`UpstreamsAsSet` says that each field is what one of the variables for it says, and a
host's login one that was configured for it. Which of several it is, the last in
the environment or the last in the map, is left open.

### Runs that end in a counterexample

Each states one sentence of the documentation that the code does not keep.

- `blob_overshoot` (`PullsWithinCap`). `docs/configuration.md:26-27`: eviction
  "counts bytes still downloading, so concurrent pulls do not overshoot the cap".
  Bytes in flight cannot be evicted, and a reservation is never refused for the
  cap: two downloads, each smaller than it, exceed it together.
- `blob_oversized` (`OversizedStillServed`). An oversized blob "is still served"
  (`docs/configuration.md:30-31`), unless another request evicts between its
  `Close` and the second `OpenBlob`: then the answer is 404.
- `manifest_torn` (`DigestsImmutable`). A write that fails between a tag's `.meta`
  and its `.body` leaves new metadata over an old body. The next revalidation
  finds the digest unchanged and stores the old body under the new digest, where
  nothing ever revalidates it.
- `routing_dot_body` (`ScanFindsFiles`). The evictor "keeps an LRU index of
  everything under the cache root" (`interface/storage/fs/evictor.go:48`). The scan
  cuts `.meta` and then `.body` off one path, so the metadata of a tag `v1.body`
  are indexed under the tag `v1`, and no entry would ever delete them.

Three more sentences of the documentation are stronger than the code, and no run
states them: "a pull can never fill the disk" (`docs/configuration.md:32-34`; a
response without a Content-Length is not checked), "refused only if evicting
everything would still not make room" (36-37; a file that another request has
renamed but not yet added is out of `freeDisk`'s sight), and "If upstream is
unreachable, cached content is served stale" (24; not when upstream answers the
HEAD and then fails the GET). All three are behaviours of the models.

### Bounds, and why they are enough

- *Evictor*: three keys, entries of 0 to 3 bytes, a cap of 2 and a headroom of 1.
  Three keys are the least with something in front of, between and behind; 3 is
  larger than the cap, so cold entries exist; the low mark differs from the cap,
  so an eviction may pop one entry or several. `Threads = 2` goroutines may owe an
  eviction and `MaxInflight = 3` bytes may be booked, so bytes in flight alone
  can exceed the cap. The proofs hold for all values.
- *Blobs*: sizes 1, 2 and 3 under a cap of 2: two that fit, not together, and one
  that does not. The disk holds 4 or 5 bytes, less than all three, so `freeDisk`
  runs; in `blob_overshoot` and `blob_oversized` it holds 9, so that the disk
  plays no part. Two requests meet in every pair of steps; three are used where
  one may unlink, a second add and a third decide on the counters. A read of the body is one
  byte, the finest grain: `io.Copy`'s chunks are runs of such steps. Crashes and
  failures of `Close` and `os.Remove` stop once `MaxLeaked = 2` bytes of
  abandoned temp files are on disk.
- *Manifests*: two digests and one tag; a third digest would be a copy of either.
  `TTL = 1` tick; `MaxClock = 2` lets an entry be stored, be fresh and expire;
  `MaxLatency` is how many ticks may pass between upstream's answer and the use
  of `time.Now()` that follows.
- *Symmetry*: goroutines and, for manifests, digests are interchangeable; the
  runs that check liveness use none. The blob names are strings, since their sizes differ.
- *Registry*: a tick is fifteen seconds, so the margin and the floor of
  `fetchToken` are 2. Tokens live 5, 4 (with no `expires_in`) and 3 ticks: longer
  than, exactly, and less than margin and floor. An answer is under way for at
  most one tick. `MaxClock = 5` lets an entry be cached, expire and be replaced.
  One image is asked for at a time, since images share nothing but the ECR mutex
  and goroutines of one host already compete for that. `EcrLives = 4` with a
  margin of 2: AWS grants twelve hours and the margin is thirty minutes; what
  matters is that entries become due before they expire.
- *Recency*: two keys are what the property compares; two goroutines meet in
  every pair of steps, and a restart forgets both. `Interval = 3`, one tick of
  lateness and five ticks: a slack of five, reached by a use at the last tick, and
  time for a flush, a restart and another flush of one key.
- *Routing*: an int64 of twelve bits, with units of 1, 4 and 16: caps of 20 and
  below are those whose percents cannot overflow, 1600 is one whose do, 2048 the
  first that is no int64. Environments and paths are listed in `MCRouting`: those
  that are refused, aliases in two spellings, two aliases of one host;
  repositories called `manifests` and `blobs`, tags that end in `.meta` or begin with
  a dot, digests with and without their algorithm, names with an empty segment and
  with two dots. `MCJoin` has TLC evaluate `Join` on all short paths. Tags that end in `.body` are in
  `routing_dot_body` only.

Deadlock is checked in every run but those of `Routing`, where a server that
refuses to start stops; elsewhere an idle goroutine can always receive a request
or a clock tick.

### Fairness

`blob_faults` assumes `SF_vars(Step(p))` for each goroutine: one that can step again
and again does. For steps that take no mutex it is what Go's scheduler does.
For a wait on a mutex it is `sync.Mutex`'s starvation mode, which hands the mutex
to a waiter that has failed to get it for a millisecond. Upstream answers or
fails: the client has a timeout of five minutes. `Serve` stands for the reader
of the content, who finishes or leaves; it holds no mutex, so nobody waits for
him. No fairness is assumed of arrivals or crashes. The run has announced sizes only: with
chunked bodies of unlimited supply `freeDisk` may lose each byte that it frees to
a download that is not checked, and go on for as long as there are entries and
new ones being stored.

`registry` assumes the same of its goroutines. The call to AWS, made with the
mutex held, ends because the SDK is given the request's context and its own
retries are bounded. Nothing is assumed of the clock, of arrivals and of
revocations.

## 4. Proofs

For all values of the constants:

| module | theorem | statement |
|---|---|---|
| `EvictorProofs` | `TypeCorrect` | `Spec => []TypeOK` |
| | `UsedIsExact` | `Spec => []Accounting` |
| | `ColdStaysLast` | `Spec => []ColdLast` |
| | `CapIsKept` | `Spec => []WarmWithinCap` |
| | `ColdIsEvictedFirst` | `Spec => ColdGoesFirst` |
| | `EvictsLeastRecent` | `MCSpec => []LeastRecentlyUsedLast` |
| `BlobCacheProofs` | `BlobTypes` | `Spec => []TypeOK` |
| | `OneDownloadAtATime` | `Spec => []OneDownload` |
| | `OnlyWhole` | `Spec => []OnlyWholeBlobs` |
| | `BooksAreBalanced` | `Spec => []BooksBalance` |
| | `IndexedFilesStay` | `Spec => []IndexedFilesExist` |
| | `NoFileEscapes` | `"unlink" \notin Faults`: `Spec => []FilesIndexed` |
| | `CacheDrivesEvictor` | `Spec => DrivesEvictor` |
| | `RequestsKeepCap` | `Spec => [](E!Accounting /\ E!ColdLast /\ E!WarmWithinCap)` |
| | `RequestsEvictColdFirst` | `Spec => E!ColdGoesFirst` |
| | `DiskIsCounted` | `"unlink" \notin Faults`: `Spec => []DiskCounted` |
| | `GrantedBytesFit` | `FALSE \notin Announce`, `FALSE \notin StatfsOk`: `Spec => []AnnouncedBytesFit` |
| `RegistryAuthProofs` | `AuthTypes` | `Spec => []TypeOK` |
| | `RefusalsExplained` | `Spec => []RefusedOnlyIfWithdrawn` |
| | `TokensAlive` | `Spec => []TokensArriveAlive` |
| | `EcrAlive` | `Spec => []EcrArrivesAlive` |
| | `OneRefreshPerExpiry` | `Spec => EcrRefreshedWhenDue` |
| `RecencyProofs` | `RecencyTypes` | `Spec => []TypeOK` |
| | `FilesNeverYounger` | `Spec => []NeverYounger` |
| | `LastAccessSurvives` | `Spec => []OrderSurvives` |
| | `FlushesAreSpaced` | `MaxLate < Interval`: `MCSpec => FlushesSpaced` |
| `RoutingProofs` | `UpstreamsSet` | `Spec => []UpstreamsAsSet` |
| | `HeadroomBounded` | `Spec => []HeadroomWithinCap` |
| `ManifestCacheProofs` | `ManifestTypes` | `Spec => []TypeOK` |
| | `OneFetchAtATime` | `Spec => []OneFetch` |
| | `DigestsKeepTheirBodies` | `Spec => [](WritesSucceed => DigestsImmutable)` |
| | `AnswersWhole` | `Spec => [](WritesSucceed => ServedWhole)` |
| | `WholeUntilTorn` | `MCSpec => []WholeUnlessTorn` |
| | `TagsStayFresh` | `0 < TTL + MaxLatency`: `MCSpec => []TagsFresh` |
| `PathProofs` | `RoutingTypes` | `Spec => []TypeOK` |
| | `PathsRouted` | `Spec => []RoutedAsAsked` |
| | `OneCacheForBothForms` | `Spec => []BothFormsShareOneCache` |
| | `OneImageEach` | `PlainDigests`: `Spec => []OneImagePerFile` |
| | `FilesLocked` | `PlainDigests`: `Spec => []FilesGuarded` |
| | `ScannedFilesFound` | `NoDotBody`: `Spec => []ScanFindsFiles` |

### Assumptions

- `KeyAssumption` (finitely many keys), `SizeAssumption` (sizes and
  the cap are naturals, the headroom is at most the cap) and `BoundAssumption` (the
  bounds are naturals). The configuration refuses
  sizes that are not positive and percents outside 0 to 99. That the headroom is at
  most the cap is `HeadroomBounded`, for caps below 2^63 / 99 bytes.
- `BlobAssumption`: the types of the blob cache's constants; finitely many
  goroutines, at least one blob, none of a size beyond `MaxEntry`. `NoFileEscapes`
  and `DiskIsCounted` have the premise that no `os.Remove` of a victim fails: a
  failing one is only logged, and its file is out of the index until the next start.
  `GrantedBytesFit` has the premises that every download is announced and that
  `statfs` succeeds, as the code measures nothing otherwise: `ReserveSize` is not
  called for a response without a length, and a failing `statfs` grants the claim.
- `AuthAssumption`: the types of the registry client's constants.
  `LatencyAssumption` says what is taken of the network and of the registries: two
  answers take no longer than either margin (30 seconds, 30 minutes), `expires_in`
  does not exceed the token's life, AWS grants at least the twelve hours that are
  assumed when it does not say. Tokens shorter than margin and floor are not
  excluded; the theorems say what holds of them.
- `ManifestAssumption`: the types of the manifest cache's constants; a tag is no
  digest. `WritesSucceed` (`"write" \notin Faults`) is a premise of two theorems, not
  an assumption: `manifest_torn` shows what a failing write does to both.
  `WholeUntilTorn` needs no such premise. `TagsStayFresh` excludes a TTL and a
  latency that are both zero, when no answer could be younger than their sum.
- `RecencyAssumption`: there is a key, and the interval is positive. That
  `FlushesAreSpaced` needs `Chtimes` to come within an interval (a minute) of the
  clock that was read is no artefact: otherwise the entry may be touched again, or
  evicted, downloaded and touched, and its next flush overtake the late one. With
  `MaxLate = Interval` TLC finds that.
- `SettingsAssumption`, `RoutingAssumption`: types; no alias is the empty string;
  requests have a path; what is on either side of the colon tells one segment from
  another, and what is in front of it has no colon.
- `Plain`, a premise inside `OneImagePerFile`, `FilesGuarded` and `ScanFindsFiles`:
  no segment that goes into a path is empty, `.` or `..`, and no blob's name ends in
  `.meta` or `.body`. Nothing in the code refuses such names. The grammars of
  repositories, tags and digests have none of them, so a registry answers none; `hub//pg`
  and `hub/pg` are one file with two locks, `hub/../ghcr.io/pg` is asked of the one host
  and stored with the other's, and a blob `a.meta` would be scanned as a manifest.
  `MCRouting` has requests of each kind; without the premise TLC reports them.
- `PlainDigests`: no part of a digest is called `manifests` or `blobs`, and no segment
  of a reference is an algorithm without its colon. The code checks neither:
  `splitDigest` takes whatever follows `/manifests/` or `/blobs/`. References
  come from clients that speak the registry protocol, and a digest in another form is
  one no registry answers. Both halves are needed: `x:blobs` would put a directory of the
  layout into a key, and `sha256/sha256:a` and `sha256:sha256/a` have one file
  and two locks. `MCRouting` has TLC evaluate it.
- `NoDotBody`: no reference ends in `.body`. `routing_dot_body` is what happens
  otherwise.

TLC evaluates each of the named assumptions on the instance of each run.

### Arguments

*Evictor*. The inductive invariant is
`Inv == TypeOK /\ Accounting /\ ColdLast /\ WarmWithinCap`. None of the last three is
inductive alone. Counting needs the list and the map to hold the same keys, each
once (`WellFormed`), or the bytes subtracted by a replacement would not be those
of one entry. `WarmWithinCap` needs `Accounting`, as the evictor compares the
counter and the invariant is about the entries; and it needs `ColdLast`: an
eviction stops at the low mark with entries left, and only because the cold ones
are at the back does that mean that either no warm entry was touched or that none
but warm ones remain to be counted. `EvictorIndexProofs` proves what each operator
does to the list, the map and the counter (`Touched...`, `Added...`, `Popped...`)
after lemmas on `Total`, which is a cardinality: adding, removing or replacing one
key changes it by that key's bytes. `NextKeepsInv` has one step per action;
`ColdIsEvictedFirst` follows from the invariant, since the popped keys are a
suffix of a list with the cold ones last.

That the list is in order of last use is about two entries and the past, so the
history variable `younger` has the pairs that were used in that order. `Ranked` adds
to `Inv` that the list agrees with it for all warm entries (`Recent`). What each
operator does is then a question of where it puts an entry (`FrontInOrder`,
`BackInOrder`) and of what it takes away (`WithoutInOrder`, `PoppedInOrder`);
`ColdLast` is needed again, since a cold entry comes in at the back and must not
be one that the order is about.

*Blobs*. `Inv` has nine parts besides the types, and none stands alone. `Exclusive`
says that whoever is at a `pc` under the key lock holds it, so two requests for
one blob are never there together; with `Absent` (whoever downloads has found no
file) that is `OneDownload`. `Control` says of each goroutine alone what its `pc`
allows: a reservation only where a path to its return is left, `written` the whole
size from `close` on, victims exactly at `unlink`. `BooksBalance` is then kept
since each step changes one summand and the counter alike. `IndexedFilesExist`
needs `OnlyVictims`, that each popped key still has its file, is out of the index, and
is one goroutine's to unlink: nobody can have added it again, because whoever
wants to download it must first find the file gone. `Committed` is the same for a
file that is renamed and not yet added, and `Capping` lends the lemmas of
`EvictorIndexProofs` the soundness of the index they start from.

*The refinement* adds `Cold` (only what cannot fit is added behind all others).
`Debts` counts the goroutines at `evict`: a step of one goroutine changes it by one
or not at all, and it is at most the number of goroutines, which is the bound
`Threads` of the evictor's guards. The sum of reservations is at most `MayBook`, its
bound `MaxInflight`. Each action is then a step of the evictor (`TouchHead` and
`Touch`, `Reserve`, `BookWritten`, `Settle`, `Add`, `Evict`, `FreeOne`,
`CrashRestart`) or leaves its variables alone (`Quiet`). After a crash the files that are
left are scanned in some order, and evicted to the low mark in the same step
(`EvictedIsFresh`). `RequestsKeepCap` and `RequestsEvictColdFirst` draw the
consequence: the evictor's properties, with the goroutines at `evict` for its debts,
hold of the index that the requests share. They take the steps of `E!Next` through
the lemmas of `EvictorIndexProofs`, since a theorem about `Evictor` says nothing of an
instance of it until its steps are known to be the instance's. `NoFileEscapes` follows a file from its rename through the
index to its unlink (`Held`): what one step lets go of, the same step passes on.

*What is on disk*. `DiskIsCounted` adds two sums. Committed files are entries, by
`NoFileEscapes`, so their bytes are at most `used` (`FilesAreUsed`). A writer that
is counted has booked what it has written but for its last byte (`AllPaid`), up to
its `settle`, so the bytes of its file are at most `inflight` (`WrittenIsBooked`). `GrantedBytesFit` needs more, as its
bytes are yet to come. `AllPromised` says of each writer what it has been granted:
its booking is its whole blob, so no eviction comes in the middle of a download and
what the ledger holds for it is what it has still to write. `Fit` is the
inequality with everything else on the disk in it: what is outstanding, files, temp
files, files that are unlinked and still read, and what crashes have left. A grant adds
to the first and is given only when `Free`, less what is pending, covers it; a write
moves a byte from the first to the third; a rename, an unlink, the end of a read and a
crash move bytes between the others or off the disk.

*Registry client*. The invariant bounds what a cache says of a credential by what
upstream knows: a long token's `expiresAt` lies an answer's time before its end
(`TokensSound`: the answer that brought it took at most one such time, and the
margin is two), an ECR entry's at most that time after it (`EcrSound`: when AWS
does not say, the twelve hours count from the arrival; the refresh margin makes
up for it). `Carries` says for each `pc` what a goroutine's credential
is and that it outlasts the way upstream. `RefusedOnlyIfWithdrawn` is about the
retry, whose credential is of the type that was asked for and fresh, or from the
ECR cache and alive. `OneRefreshPerExpiry` has an invariant of its own (`OneFetch`):
whoever calls AWS, or holds its answer, has the mutex, and the credential of its
host is still due. Due it was when it looked, and nobody but the owner of the mutex
can have replaced it since.

*Recency*. Of entries that are not cold, `OrderSurvives` follows from `Recent`: the file of a settled entry lags
behind its last use by less than the slack. `Recent` needs `Flushed`: it lags behind
`persistedAt` by two delays at most, unless the flush that `persistedAt`
stands for is still to come; and that one is lost only with a crash or an
eviction. `Prompt` bounds how late a flush can be, `JustStored` what a late flush
can do to a new file of the same path. `FlushesAreSpaced` rests on `Spaced`: the last
flush, the file's mtime and the entry's `persistedAt` follow each other, and a
flush under way is an interval after the last one, counted by its entry already, and
alone for its file. A second one could only be due if the entry did not count the
first: if it had been evicted and stored again, with the time of a rename that is
later than the clock that the first has read.

*Manifests*. `Inv` has the types, the lock of a reference with whoever works on it
(`Locked`) and the reads that a reference allows (`Staged`); `OneFetch` follows, under
all faults. For the other two, metadata and body of the tag agree except while the
holder of the tag's lock is between the two writes (`TagWhole`, `Midway`), and
what a request has read of the one file agrees with the other if it is still there
(`Carries`): only the lock's holder writes the tag's files, so between its reads
they can disappear but not change. The files of a digest are written by
requests for the digest and for the tag, under different locks: they always hold
the same (`DigestsWhole`), so the order does not matter. `WritesSucceed` is needed
for `Midway` to end: a failing body write leaves the new metadata with the old body.
`WholeUntilTorn` is the same induction with crashes and failures, up to the first
that falls between the two writes (`TornOrWhole`). `TagsStayFresh` follows what is known
of the tag from upstream's answer to the client's (`Dated`): the answer, at most a
latency old when it is used; the entry that is written with it; what a request has
read of the entry, which is at least what the file says while the file is there;
and the test against the TTL. Each is compared with when the tag last pointed at
that very manifest, and that time only moves forward.

*Settings*. `SaidOf(byAlias, Looked)`: at any point of the loop, what is gathered
for an alias is what one of the variables looked at so far said, field by field.
When nothing is pending that is `UpstreamsAsSet`, whatever the order.
`HeadroomBounded` rests on `OfBound`: below `Half` the product does not wrap. A host
that is in the map names an alias of that host (`byHost` in `Inv`), and those not in
it are of aliases still to come.

*Paths*. `LastIndex` is a `CHOOSE` of a greatest element, which exists in a
bounded set of naturals because `<` is well founded (`Greatest`). A path that ends
in a kind and a reference has that kind at its last index but one, so nothing
after it can be chosen. `JobInv` says that a request that was resolved carries the
host and repository of `ResolveImage`, which gives the two names of an image the
same lock key and files.

*Files*. A key is host, repository, then a place: the kind, for manifests `digests`
or `tags`, and the reference. A repository may be called like any part of that, so
what separates two keys is that within a place the kind does not come again but as its last
segment (`Placed`): if one key had two readings, the kind of the longer prefix would lie
inside the place of the shorter (`NotShorter`). That the reference has no further kind is
because the path was split at the last one (`ReferenceShape`); that the parts of a
digest are none is `PlainDigests`. Two digests come to one directory only if they
are equal (`SplitApart`): the longer prefix would have an algorithm as a segment of
its own. `LocksApart` is the invariant: a request under way has its
reference from a path, and those inside have different lock keys. Equal files then
mean equal host, repository, kind and reference, hence equal lock keys. A tag's entries
include every digest, which is why the argument is about any two entries of the
requests and not about what they asked for (`EntryRefers`). For the scan, the kind is
a segment of every key before the last, and the last segment comes from the reference
or is the hash of a digest. `Plain` lets `Join` be left out of all three.

### Model-checked only

Liveness under fairness (`EveryRequestAnswered`, `RequestsAnswered`) is out of
TLAPS's reach. Every other property of a passing run is a theorem; the runs check
the same formulas on small instances, where the mutants show that they can fail.
The four runs that end in a counterexample refute theirs.

## 5. What the models leave out

- **Blobs** lie on one filesystem that holds nothing else; manifests take no
  space there. A transfer that ends early is reported as an error by `net/http`
  when the length is known or the body is chunked; bodies delimited by the end of
  the connection are left out.
- **Abandoned temp files** (a crash, a failing `Close`) are counted against the disk, as nothing
  removes them; nothing in the code promises that it does.
- **Order after a restart.** `Evictor` takes any order, as `Recency` says only which
  orders cannot be. Ties between mtimes, and clocks that are set back, are left out.
- **Manifests**: the index is abstracted, so an eviction may strike any key with
  files, in any order: more than the evictor does. What the index counts of a
  manifest whose files were unlinked late is a hazard without a property. A
  manifest's 404 and other failures are one answer, `failed`. `FetchedAt` is
  kept under the tag alone, as nobody reads it under a digest. A HEAD of upstream
  always has a digest.
- **The registry client**: what a request returns besides its status is part of
  `BlobCache` and `ManifestCache`. A challenge is understood or not: the grammar
  of the header is strings. Redirects, timeouts and TLS are `net/http`'s.
- **Settings**: digits are `strconv`'s, the form of `.env` files the library's.
  Aliases are lower-cased by `Lower`, taken from the constants.
- **Routing**: the characters of names; a segment is a whole. A `Docker-Content-Digest`
  without a colon, which would be stored as a tag. Two dots that climb above the cache
  root: `Join` is modelled on the segments below it.

### Not modelled

- **Storage collector** (`metrics/storage.go`): a scan of the cache root for two
  gauges, cached for a minute under its own mutex. It writes nothing, and nothing
  in the server reads it.
- **Health check, request metrics** (`http/rest/router.go`, `metrics/metrics.go`): a
  probe file that is written and removed, counters that nothing reads back.
- **Command line**: flags, port, logger; the order of the start and its refusals
  are in `Settings`.

## 6. Plan

Done: `EvictorIndex` and `Evictor`; `BlobCache` and the proof that it implements
`Evictor`; `ManifestCache`, `RegistryAuth`, `Recency`, `Settings` and `Routing`; each with
proofs.

Next, in this order:

1. What each answer promises beyond safety of the files: the status of a blob
   request as a function of what happened to it.
2. Manifests with the index, for entries without files.

Runs are few and long rather than many; a counterexample run whose question
another module asks better gives way to it.

## 7. Running

```
tlc -config BlobCapped.cfg MCBlobCache
tlapm EvictorProofs.tla
```

`PROJECT.json` names the module and the configuration of each run, the code each
definition stands for, and the mutant of each property.
