# ShardSeal: TLA+ models, checks and proofs

These modules model ShardSeal, an S3-compatible object store in Go: its storage
core, the background work around it, and the two listeners in front of it.  TLC
checks them on small instances; TLAPS proves for all instances every safety
property of them, and both refinements.
`PROJECT.json` ties every definition to the lines it models, every property to a
mutation of the model that breaks it, and every hazard to the properties that
would notice it.

Run a check with `tlc -workers 2 -config SealedObjectRace.cfg MCSealedObject.tla`,
a proof with `tlapm SealedObjectProofs.tla`; the other modules with proofs are
`PlainObjectProofs`, `ListingProofs`, `BucketsProofs`, `MultipartProofs`,
`RepairPipelineProofs`, `ScrubberProofs` and `GatewayProofs`.

## 1. Inventory

| Component | Source | State | Operations | Modelled in |
|---|---|---|---|---|
| Sealed objects | `storage/localfs.go`, `manifest.go`, `fsutil.go` | per key a directory with `data.ss1` (header, payload, footer) and `object.meta` (manifest) | Put, Get, Head, Delete, SaveManifest | `SealedObject` |
| Plain objects, mixed directories | `storage/localfs.go` | one file per key in a tree of directories | Put, Get, Head, Delete, removeEmptyParents, SetSealed | `PlainObject` |
| Listing | `localfs.go` List, `api/s3/server.go` | none (reads the tree) | ListObjectsV2, continuation tokens | `Listing` |
| Buckets | `server.go`, `metadata/store.go`, `localfs.go` | bucket table (memory), objects (disk), uploads (memory) | create, delete, IsBucketEmpty, RemoveBucket | `Buckets` |
| Multipart | `server.go`, `metadata/store.go`, `admin/gc.go` | upload table (memory), staged parts (disk) | initiate, upload part, complete, abort, collect | `Multipart` |
| Repair | `repair/queue.go`, `worker.go`, `rewriter.go` | bounded channel, worker counters and flags | enqueue, dequeue, repair, pause, resume, stop | `RepairPipeline`, `SealedObject` |
| Scrub passes | `repair/scrubber.go` | counters, running flag, per pass a job channel | loop, Stop, RunOnce, Stats | `Scrubber`; the checks of one shard in `SealedObject` |
| Shutdown | `cmd/shardseal/main.go` | position in the sequence, one deadline | stop servers, scrubber, worker; close queue | `RepairPipeline` |
| Transfer | `server.go` capReader, parseRange | bytes read so far | PUT under a cap, GET of a range | `Transfer` |
| SigV4 | `security/sigv4/verify.go` | none (credentials, clock) | VerifyRequest, Middleware | `SigV4`, in `Gateway` |
| OIDC, RBAC | `security/oidc/*.go`, wiring in `main.go` | none (configuration) | Middleware, policy table | `AdminAccess`, in `Gateway` |
| Admin API | `admin/*.go` | none of its own | GC pass, scrub pass, repair enqueue, pause, resume, stats | access in `AdminAccess`; what they do, as actions of the modules above |
| Shard format | `erasure/rs.go` | none | encode, decode | abstracted in `SealedObject` |
| Configuration, tracing, metrics, NoopScrubber | `config`, `obs/*`, `repair/scrubber.go` | none a handler reads back | | not modelled |

How they interact.  An S3 handler looks its bucket up in the metadata store (a
map behind a lock, in memory only) and then calls the object store, which takes
no lock at all: everything that requests, repair workers, scrubbers and the
collector do to the same files interleaves system call by system call.  A read
or a scrub that meets an integrity failure enqueues a repair item into a bounded
channel; a worker goroutine takes it and runs the rewriter on the files.
A scrub pass is a goroutine walking directories, a bounded channel of jobs, and
goroutines that verify objects and enqueue what is damaged; passes of the loop and
of `POST /admin/scrub/runonce` run side by side.  Requests come in through two
listeners: the S3 one behind the SigV4 middleware, the admin one behind OIDC and
RBAC.  `main` starts all of it and stops it in order under one deadline.

What is hard:

* every mutation is several system calls without a lock (Put: two renames;
  Delete: three removals; Repair: copy, rename, save), so the intermediate states
  are visible to all others and survive a kill;
* handlers hold what they read (a manifest, an upload pointer, the emptiness of
  a bucket or a directory) and act on it later;
* tables in memory and files on disk come apart at a restart;
* cleaning up (empty directories, staged parts, stale uploads) races with use;
* a bounded queue makes handlers and scrubbers wait for workers that may be
  paused or stopped; a closed channel panics;
* pages of a listing are cut from a tree that changes between and under them, and
  so are the passes of the scrubber;
* three bounded channels stand in a row (jobs of a pass, repair queue, workers), each
  waited for by the one before;
* a signed request may arrive late, twice or rewritten on its way, and the policy of
  the admin listener is a table kept apart from the handlers it protects.

## 2. Modules

| Module | Content | Instances |
|---|---|---|
| `SealedObject` | one sealed object under Put, Get, Head, Delete, rewriter, scrubber, rot, faults, kills | `MCSealedObject` |
| `ObjectRegister` | the abstract specification: a register whose calls take effect at one instant or fail | (used by `SealedObject`) |
| `SealedObjectProofs` | lemmas and theorems about `SealedObject` | |
| `PlainObject` | a tree of plain files and sealed directories, keys that are each other's directories, restarts that switch the mode | `MCPlainObject` |
| `PlainObjectProofs` | lemmas and theorems about `PlainObject` | |
| `Multipart` | the uploads of one object with their parts, and the collector | `MCMultipart` |
| `MultipartProofs` | lemmas and theorems about `Multipart` | |
| `RepairPipeline` | queue, producers, worker goroutines, scrubber loop, shutdown, in every configuration main can start | `MCRepairPipeline` |
| `WorkQueue` | the abstract specification: a bounded first-come-first-served queue of work | (used by `RepairPipeline`) |
| `RepairPipelineProofs` | lemmas and theorems about `RepairPipeline` | |
| `Scrubber` | passes of loop and RunOnce over a store that changes under them | `MCScrubber` |
| `ScrubberProofs` | lemmas and theorems about `Scrubber` | |
| `Buckets` | one bucket name in table, tree and uploads | `MCBuckets` |
| `BucketsProofs` | lemmas and theorems about `Buckets` | |
| `Listing` | a client that lists a bucket page by page | `MCListing` |
| `ListingProofs` | Go's order of strings, pages and common prefixes; theorems about `Listing` | |
| `Transfer` | capReader over every cut of a body; parseRange | (used by `Gateway`) |
| `SigV4` | the verification of a signed request as a function | (used by `Gateway`) |
| `AdminAccess` | routes, method checks, OIDC and RBAC of the admin listener as functions | (used by `Gateway`) |
| `Gateway` | the two listeners: a request on its way, the middleware, the transfer behind it | `MCGateway` |
| `GatewayProofs` | lemmas and theorems about `Gateway`, `SigV4`, `AdminAccess` and `Transfer` | |

The modules meet at their interfaces, each opening what the other takes as one
step: a queue item of `RepairPipeline` is one `Repair` of `SealedObject`; a Put of
`Buckets`, `Multipart` or `Listing` is a whole Put of `SealedObject` or
`PlainObject`; a sealed Put of `PlainObject` is one step because its inside is
`SealedObject`.  `Scrubber` takes what a verification finds as one outcome, which
`ScrubCheck` of `SealedObject` opens, and the queue as a length, which
`RepairPipeline` opens; a scan goroutine of `RepairPipeline` is any verifying
goroutine of `Scrubber`.  An operation that `Gateway` lets through is an action of
one of the others.

### SealedObject

`data` and `manifest` are the two files (or `None`), `dir` the directory,
`orphan` a temp file left by a kill, `queue` the repair items for this object,
`pr[p]` where process `p` is, the payload and the manifest it holds, and its
answer.  A step is one system call that others can see:

| Action | Code |
|---|---|
| `PutBegin`, `PutCreateTemp`, `PutRename` | `LocalFS.Put`: MkdirAll, CreateTemp, Rename of the shard |
| `SaveMkdir` ... `SaveDone`, `SaveFails` | `SaveManifest`, called by Put and by the rewriter |
| `PutBodyFails`, `PutRollback` | its error paths |
| `ReadLoad`, `GetOpen`, `HeadOpen` | LoadManifest, then open and verify the shard |
| `DeleteLoad` ... `DeleteParents` | `LocalFS.Delete` |
| `RepairLoad` ... `RepairSync` | `SingleShardRewriter.Repair` |
| `ScrubLoad`, `ScrubCheck` | `SealedScrubber.verifyObject` |
| `RotShard`, `Crash` | the medium; a kill of the process |

A digest is the pair of its name and what it digests, so equal digests mean equal
payloads; a CRC is whether it still checks.  An open file is a snapshot, since
files are replaced by rename only.  With `IOFaults` a write, rename or sync fails,
and a removal of a shard or manifest may leave the file where it is (`Unlinked`): the
code ignores the error of `os.Remove` in Delete and in the rollback of Put.

### PlainObject

`tree` maps each path to a version, a directory, or nothing; `sealed` says which
directories hold a sealed object; `acked` remembers what the last successful
request left.  `serial` is chosen at the start: one client that waits for its
answers, and whose server may be restarted in the other mode, or many clients
in plain mode.  `Ancestors` of a path are the directories above it, the least set
that `Parent` leads to.  The steps are MkdirAll, CreateTemp, Rename; Stat, Open and
md5File of a read; Remove and the climbing removal of empty directories.

### Multipart

`active` is the table, `parts` the recorded parts, `staged` the files, `object`
the final one.  `GetMultipartUpload` hands out a pointer to the live upload, so
`parts` is read afresh at each step, also after the upload left the table.  The
walk of the collector's listing is broken by a file that goes away under it
(`Disturbed`), as in `LocalFS.List`.  A Put that fails in a sealed store may take the
object it was to replace with it, or leave its new shard under the old manifest
(`FailedPut`); a failing removal may take half of an object: `Torn` is a part or an
object that can no longer be read.  `Overlap = FALSE` restricts the clients: they
do not complete or abort an upload while they upload its parts, and do not upload the
same part twice at once (`MayUpload`, `MayEnd`).  The collector asks nobody, and takes
a stale upload also while a part of it is on its way; `late` remembers the uploads to
which that happened.

### RepairPipeline

A step is one operation on a channel, an atomic or a wait group.

| Action | Code |
|---|---|
| `Begin`, `Finish` | a read, an admin's enqueue, an admin's scrub pass |
| `EnqueueCheck`, `EnqueueSend`, `EnqueueCancel`, `EnqueuePanic` | `MemQueue.Enqueue`: it reads the closed flag and sends afterwards |
| `LoopCheck`, `LoopTick`, `LoopTake`, `LoopExit` | `Worker.loop`: cancellation and pause are looked at before it blocks in `Dequeue` |
| `LoopBegin`, `LoopProcess`, `LoopEnd` | one item and its counters |
| `Pause`, `Resume` | the worker's flag |
| `ScrubEnd`, `ScrubTimer`, `ScrubStop`, `ScrubWait` | the scrubber's loop, and Stop, which signals without blocking |
| `Signal`, `HTTPShutdown`, `AdminShutdown`, `WorkerStop`, `WorkerWait`, `CloseFlag`, `CloseChannel`, `Expire` | `main` after a signal, and its deadline |

The two listeners are shut down one after the other: while S3 requests are
waited for, admin requests still come in and may start a scrub pass.  A panic in a
handler is recovered by net/http; one in a goroutine of a scrub pass ends the
process, whoever asked for the pass.

`QueueSpec` is `WorkQueue` under the mapping `place` := `Place(it)`, which reads off
an item's place from producers, channel and worker goroutines; `order` := the
channel's content; `cap` := the capacity; `shut` := is the channel closed.

### Scrubber

`obj[k]` is what a walk and a verification see of an object: absent, a directory
without manifest, a good one, a damaged one, a manifest that does not load.
`pass[p]` is one pass: is its context cancelled, where its walk is, the names it
has read and has still to visit, its job channel, its error slot; `vf[p][v]` is a
verifying goroutine of it; `loop` and `stop` are the loop and the call of Stop.
`WalkRead` reads the names of the directory at once, `WalkVisit` looks at each one
later, in their order (`NextName`), `WalkSend` waits for room among the jobs; `VerifyTake`, `VerifyShard`,
`VerifyEnqueue`, `VerifyCount` are `verifyObject`.  `Change` is everything others do
to an object; one that changes between load and check may pass or fail.

### Gateway, SigV4, AdminAccess, Transfer

`SigV4` is the verification as a function.  A signature is the record of what it
was computed from (HMAC and SHA-256 are injective), so the question is what the
canonical request keeps apart and what it makes equal.  `AdminAccess` composes
the routes, the checks in the handlers (method, component, the item of an enqueue and
what the queue says to it), the exemptions and the policy
table as `main` does.  `Transfer` lets the connection cut a body into reads in
every way, and enumerates ranges.  In `Gateway` a client signs a request (`Send`),
the way may reorder or pad it (`Harmless`) or alter it (`Changed`, any of the requests
that the constant `Altered` gives for it; `Rewrite`), time passes (`Tick`), it arrives any
number of times (`Arrive`, `Deny`) and is served once (`Serve`), body and all.

### Buckets, Listing

`Buckets` keeps what DELETE bucket checks and changes one after the other (entry,
objects, uploads) and the temp files that a kill leaves (`litter`), which count as
objects, with the histories `acked` and `held` the properties need.  A PUT or a
completion whose disk operation fails removes its own temp file (`PutFails`,
`CompleteFails`); a RemoveAll that fails leaves any part of the tree and the entry
(`RemoveTreeFails`).

`Listing` translates what the walk finds into set expressions over keys as nonempty
sequences of ordered characters (a request without a key is one for the bucket), of
which finitely many have an object.  The tree has three parts, since the walk tells no
more apart: the files of objects, the temp files of PUTs (`temps`), and the directories
(`dirs`), which a PUT makes first (`PutBegin`) and leaves behind when it fails
(`PutFails`); `PutEnd` renames the temp file, `DeleteKey` removes what lies under a
name and climbs (`Emptied`).  A listing may begin in a tree where earlier PUTs failed
or were killed.  A page is one step; what the walk of a page meets when a file it
opens goes away is in the step that takes the file away: it may break the listing off
(`MayBreak`).

## 3. Runs

| Run | Question | Instance | Distinct states |
|---|---|---|---|
| `SealedObjectRace` | can a verified GET lie, can a repair install what does not verify | 1 Put, 1 reader, 1 Delete, 1 worker, payload rot, faults, kills | 1.9 M |
| `SealedObjectRegister` | do the lock-free calls implement `ObjectRegister` | 2 Puts (one handler also deletes), 1 reader, header rot, faults, kills | 0.25 M |
| `SealedObjectHeal` | is there always a shard behind a manifest; is damage repaired in the end | 2 Puts, worker, scrubber, rot of the CRCs, kills | 0.7 M |
| `PlainObject` | do PUT and DELETE leave other keys alone; does one client read what it wrote | 2 handlers that put and delete, 1 reader, keys `a`, `a/b`, `a/c` | 0.6 M |
| `MultipartRace` | is an upload ended once; can its parts be read until then | each handler once, 2 parts, faults, kills | 3.6 M |
| `MultipartReclaim` | is everything cleaned up; does the ETag name the body | the same with 2 uploaders, clients that do not overlap, 2 part contents | 0.25 M |
| `RepairPipeline` | is each item handled once and in turn; how far are Stats and Pause off; does shutdown end, cleanly | 1 request, 1 scan goroutine, 2 worker goroutines, 2 items, every configuration of queue, worker and scrubber | 0.26 M |
| `Scrubber` | does a pass verify what stays, report what is damaged, and end | loop and 1 RunOnce, 1 verifier each, 2 keys, both channels of capacity 1, 2 events, 3 ways to wire repair | 0.35 M |
| `Buckets` | does DELETE bucket take objects or leave uploads | 2 creators, 2 removers (one handler is both), writer, initiator, ender, 2 keys (one internal), disk faults, kills | 4.8 M |
| `Listing` | do pages add up | 5 keys, 2 prefixes, 3 delimiters, 2 starts, pages of 1 and 2, 1 temp file or failed PUT at the start, 1 change | 0.2 M |
| `Gateway` | which requests pass the two listeners; is a body stored whole or refused; is a range what was asked for | 2 access keys, 1 signed request with 1 of 20 alterations, clock to 6, cap 4, bodies to 6, every admin path, method, role and configuration | 1.75 M |
| `SealedObjectPutPut` (violated) | do two Puts of one key end coherently | 2 Puts, 1 reader | |

What the properties say, and where they stop:

* **VerifiedReadSound**: with `verifyOnRead` a GET that answers 200 sends bytes some
  client uploaded, under their own ETag.  The two-rename Put can lose (a reader
  gets 500, see section 6), but never mislead a verified read.
* **RepairInstallsVerified**: what the rewriter renames over the shard verifies
  against the manifest it loaded, whatever it copied from.
* **ManifestHasData**: shard first, manifest second.  It needs that nothing is
  deleted and that the disk does not fail: the rollback of a failed overwrite
  removes the new shard while the old manifest stays.
* **RegisterSpec**: a refinement.  Put takes effect when its manifest is renamed, a
  read when it loads the manifest, Delete when the manifest is removed.  On a disk
  that fails, an acknowledged Delete may have had no effect (`Lossy` of
  `ObjectRegister`), an acknowledged Put never.  It holds without repair workers only:
  a rewriter that saves its old manifest is a write nobody asked for.
* **EventuallyHealed**: once Puts, rot and kills are over, a shard with an intact
  payload verifies again and stays so.
* **PutsStay**, **ReadsMatchAcks**: tidying up directories, failed overwrites and
  restarts in the other mode leave objects alone.  Two exceptions the code makes
  are in the statements: racing requests for a key that is also a directory of
  others, and reads beside writes, which may mix versions.
* **EndedOnce**, **RecordedPartsStaged**, **NoOrphanParts**, **ETagNamesBody**,
  **EventuallyReclaimed**: the life of an upload.  The last three are for
  clients that do not overlap their requests.  A recorded part is lost before its upload
  ends only to an upload of the same part that failed in the store; a part is
  orphaned only if it arrived after a collector had listed its upload (`late`).
* **QueueSpec**: a refinement.  All of the pipeline, with pause, cancellation,
  shutdown and the panics of a close in between, is a bounded first-come-first-served
  queue of work.
* **EachItemOnce**, **StatsNearlyExact**, **PauseLeaksOne**, **CleanShutdown**,
  **ShutdownEnds**, **EveryItemHandled**: the pipeline.  CleanShutdown includes that
  nobody meets the closed channel within the deadline; EveryItemHandled is about the
  time before a shutdown begins.
* **PassCovers**: a pass verifies every object that stays as it is exactly once, and
  no object twice, whatever happens around it.  **PassSound**: of those it reports
  exactly the damaged ones, each with a repair item however full the queue was, and
  it fails only if something changed under its walk.
* **ErrorsAreScanned**: two counters raised by goroutines of several passes agree up
  to the goroutines between them.  **StoppedIsQuiet**: when Stop says so, the loop is
  gone.  **PassEnds**: no pass waits for ever, given a worker; and, without one, a
  pass whose client goes away ends.
* **EarlierPutsSurvive**: an object acknowledged before DELETE bucket was asked for is
  not removed by it; the window for later ones is real.  **GoneMeansEmpty**: for
  one client nothing is left behind, until a restart empties the table of buckets.
* **PagesInOrder**, **StableKeysListed**, **ListingExact**, **ListingEnds**: pages.
  A listing of a tree that changes misses no key that stayed, unless a listed file went
  away under a page and broke it off; one of a quiet bucket is what S3 promises and the
  leavings of PUTs, which `Leavings` names: temp files, and directories no key is in.
* **CapExact**, **RangeServed**: transfers.  A body of exactly the cap may be stored or
  refused; of the ranges that name a byte, only `n-m` with an end past the object may be
  refused.
* **AuthExact**: accepted only if the holder of the secret signed what the request says
  and it arrives in its window; and such a request is accepted, in whatever order its
  query, however padded, and whatever unsigned header was added.  What counts and what
  does not are two lists beside the model, in `SaysTheSame` and `Harmless`.  A body
  under a hash that is given does not count, nor does an unhashed body without a
  declared length, nor further lines of a signed header: the server looks at none of
  them (section 6).
* **EffectNeedsRole**: an admin operation is called only by a POST, when its component
  runs and, where tokens are checked, the token has its role
  (README.md:342-360 of the repository).  Every such request calls it, except for an
  enqueue whose item is malformed or which the queue does not take.

Bounds.  Races here are between pairs: a Put against a Put, a reader, a Delete or
a repair; two worker goroutines; two removers; two passes.  Every such pair is in some run,
mostly with a third party that makes its damage visible.  Payloads `<<0>>` and
`<<0, 1>>` are a proper prefix of one another, which is what the rewriter's copy of
the first `size` bytes could get wrong.  Queues and job channels are small enough to
fill up.  Two parts are what the order of parts and "all but the last" need.  The
keys of `Listing` use `-` < `.` < `/` < `a`, the order that puts `a-b` before `a/` and
the temp file `.a-` of a PUT between them; `MaxLeft = 1` is what one failed or killed
PUT leaves, `MaxChurn = 1` one change at any point between or under the pages (a PUT
that is under way at the start and ends or fails, one that begins, a DELETE).
`MCConfigs` of the pipeline has the six combinations `main` can start with a queue of
one, where both producers wait, and one with a queue of two, where items overtake.
`MaxEvents = 2` of `Scrubber` is a change during a pass beside another pass, two
changes of one object, or two passes; a third party would repeat one of them.  In
`Gateway` one signed request is enough, since the server keeps nothing between
requests; `MCAltered` has one alteration for each part of a request and some of two
together, which shows for each part that it counts or does not; the clock passes the
end of the longest window (date 2, lifetime 2, skew 1), reads of 3 bytes meet the cap
of 4 in every alignment.
Symmetry is used in `PlainObject` only, over handlers that are interchangeable and
without liveness.

Fairness.  Go schedules a runnable goroutine eventually and a channel serves its
senders: weak fairness of the steps of handlers, workers, collector, walks and
verifying goroutines once they are under way; of the timers of scrubber and
collector and of the shutdown deadline; of `ListPage` for a client that goes on.
Nothing is assumed of what clients and admins may choose not to do (Put, enqueue,
pause, resume, cancel, ask for a pass, signal).

Deadlock is checked in every run but `Scrubber`; `Gone` and `Finished` are the
places where the program or the client really is at its end.  In `Scrubber` the loop
may be stopped and nobody may ask for another pass, and a pass may wait on a full
repair queue that no worker drains: it waits for its client to go away.

## 4. Proofs

`SealedObjectProofs` proves, for any sets of handlers, workers and scrubbers, any
payloads, capacity and switches:

| Theorem | Statement |
|---|---|
| `Soundness` | `Spec => []SoundInv` |
| `TypeCorrect` | `Spec => []TypeOK` |
| `VerifiedReads` | `Spec => []VerifiedReadSound` |
| `RepairVerified` | `Spec => RepairInstallsVerified` |
| `RegisterImplemented` | with `Workers = {}` and `VerifyOnRead`, `Spec => RegisterSpec` |
| `NoLostShard` | with `Deleters = {}` and no I/O faults, `Spec => []ManifestHasData` |

*Why VerifiedReadSound needs strengthening.*  The answer of a GET is put together
from a manifest loaded before and a shard opened now.  Verification shows that
the payload has the manifest's digest; that the bytes are ones a client uploaded
and the ETag theirs follows only if every manifest around, on disk or in the
hands of any process (a rewriter saves its copy again), is `ManifestOf` one
uploaded payload.  `SoundInv` says so (`Sound`), and what each process is about to
rename or save fits its manifest (`ProcessSound`).  The shard on disk needs no
such clause: it may rot into anything.  One lemma per group of actions shows
preservation; `SoundStep` puts them together.

*Why ManifestHasData needs strengthening.*  The rename of the manifest must find a
shard, so every process past the shard's rename must have one in place, and
nobody may be in Delete or rollback: `DataInv`.  Its proof uses `SoundInv`.

*RegisterSpec step by step.*  The register's value is what the manifest on disk
promises, and the request of a handler is read off its place (`RequestOf`).  There
is one lemma per handler: the step that renames or removes the manifest is the
register's write or delete, the one that loads it is the read, an answer is the
return of a call, a failure or a kill makes a call fail, and everything else, the
rename of the shard included, is a stutter.  A read answers with what it loaded
although the shard is opened later because a verified payload has the digest of
the loaded manifest, and by `SoundInv` that digest is the promised payload's.
`RegInv` adds that a handler saves the manifest of its own payload.  A Delete whose
removal of the manifest failed is an `EraseInVain`, which the register has only with
`IOFaults`.  The two hypotheses are needed: a repair saves the manifest it loaded once more, which
may undo a write, and without verification a GET sends whatever the shard holds.

The assumptions are the `ASSUME`s of `SealedObject`: payloads are sequences of
bytes, the process sets are disjoint where a process's role decides its step, and
"no file" is not a file.

`BucketsProofs` proves, for any sets of handlers, keys and uploads, with crashes or
without:

| Theorem | Statement |
|---|---|
| `BucketsHeld` | `Spec => []HeldInv` |
| `BucketsTypeCorrect` | `Spec => []TypeOK` |
| `EarlierPuts` | `Spec => EarlierPutsSurvive` |
| `GoneIsEmpty` | `Spec => []GoneMeansEmpty` |

*Why EarlierPutsSurvive needs strengthening.*  It speaks of the step of RemoveAll;
what makes it true happened at the emptiness check before.  `HeldInv` carries it
across: what a remover remembers stays a set of objects that are there, whoever
creates, writes, deletes or removes the tree meanwhile, so a check that finds
internal keys only finds that the remembered ones are internal, and they can only
become fewer until RemoveAll, also when it fails half-way.

*GoneMeansEmpty* is about the end of a deletion; `SerialInv` says what the one client's
handler knows at each step before (`Knows`: the entry is there, no upload is
open, no object but internal ones is left) and that the table and the tree agree in
between (`Consistent`).  It is about a client of one run of the server: a restart
empties the table, and `Crash` is an action of the other behaviours only.

`RepairPipelineProofs` proves, for any finite set of worker goroutines, any producers, number
of items, capacity and configurations, with pauses, cancellations and a deadline
that may pass:

| Theorem | Statement |
|---|---|
| `PipelineHeld` | `Spec => []PipelineInv` |
| `PipelineTypeCorrect` | `Spec => []TypeOK` |
| `PipelineItems` | `Spec => []EachItemOnce` |
| `PipelineStats` | `Spec => []StatsNearlyExact` |
| `PipelinePause` | `Spec => []PauseLeaksOne` |
| `PipelineShutdown` | `Spec => []CleanShutdown` |
| `PipelineIsQueue` | `Spec => QueueSpec` |

*Why they need strengthening.*  That an item is in one place only holds because
every actor that holds one holds it alone and because holding it and standing at
the step that uses it go together: `ProducerInv` says so of producers, `ItemInv` of
channel and worker goroutines, as disjoint sets that make up what was accepted.
`CountInv` turns the two counters into numbers of goroutines at given steps; a step
moves one goroutine, so each count changes by at most one.  `PauseInv` adds to
"at most one more" the reason: who stands in `Dequeue` has taken none since the
pause.  `CleanShutdown` is about the end; `StageInv` says for each stage of
`main` which goroutines it has waited for, so that nobody is left to meet the closed
channel, and `PartsInv` what stays true of a shutdown that missed its deadline.
`PipelineIsQueue` uses the invariant to show that an action changes the place of
one item at most, and names the step of `WorkQueue` it is.

`PlainObjectProofs` proves, for any tree of paths, keys, versions and handlers:

| Theorem | Statement |
|---|---|
| `PlainTypeCorrect` | `Spec => []TypeOK` |
| `TempsStayInPlace` | `Spec => []TempInv` |
| `PutsStayThere` | `Spec => []PutsStay` |
| `ReadsMatch` | `Spec => []ReadsMatchAcks` |

*The argument.*  Each role (Put, read, Delete) has one "effect": what its steps may do
to the disk, and with which record in hand.  `TreeInv` says that a path is used
inside directories only (`DiskInv`), what a handler holds (`HandlerInv`), and that
the directory of a temp file is there until the rename (`TempInv`): the file
itself keeps it from being removed as empty.  For many clients `PlainInv` says that
the climb of removeEmptyParents meets directories of keys only, so what it
removes is no object but where a key is a directory of others; for one client
`SoloInv` says that nobody else is under way, so what a read found at Stat is still
there at Open.  `PutsStay` is itself a conjunct of the induction.

`MultipartProofs` proves, for any uploads, number of parts, contents and handlers:

| Theorem | Statement |
|---|---|
| `MultipartShape` | `Spec => []ShapeInv` |
| `MultipartTypeCorrect` | `Spec => []TypeOK` |
| `UploadEndedOnce` | `Spec => []EndedOnce` |
| `RecordedAreStaged` | `Spec => []RecordedPartsStaged` |
| `ETagOfBody` | with `~Overlap` and no I/O faults, `Spec => []ETagNamesBody` |
| `NothingOrphaned` | with `~Overlap`, no I/O faults and no kills, `Spec => []NoOrphanParts` |

*Why they need strengthening.*  An answer tells of a step long past.  `EndInv` ties
who was told that it ended an upload to the table: such an upload has left it, and
nobody else was told so.  `StagedInv` adds to the recorded parts those about to be
recorded, and allows a part to be missing only while somebody ends the upload, and to
be torn only on a disk that fails.
When clients do not overlap, `CoopInv` says that no client ends an upload while a
part of it is under way; then what is staged is what is recorded, and what a
completion has read stays so until it answers (`ContentInv`): without that
restriction a part uploaded again between the assembly and the reading of the
ETags parts the two, and so does a failed upload of a part that leaves its shard under
the old manifest.  `CoverInv` says of an upload out of the table that some handler
still has every staged part before it, if no part came after a collector had listed
it (`late`); a failed removal or a kill leaves parts
behind that nobody looks for again, which is why the last theorem excludes both.

`ScrubberProofs` proves, for any keys, verifiers, capacities, wiring and number of
events, about the loop's pass and RunOnce's side by side:

| Theorem | Statement |
|---|---|
| `ScrubberShape` | `Spec => []ShapeInv` |
| `ScrubberTypeCorrect` | `Spec => []TypeOK` |
| `CountersAgree` | `Spec => []ErrorsAreScanned` |
| `StopIsFinal` | `Spec => []StoppedIsQuiet` |
| `PassesCover` | `Spec => []PassCovers` |
| `PassesAreSound` | `Spec => []PassSound` |

*Why they need strengthening.*  That a pass verified each object once is a statement
about its end; `OnceInv` follows every key on its way: still to be visited, among
the jobs, or verified, and never in two of these.  `FoundInv` does the same for
what was found: a damaged object that stays is with a verifier, or among the
failed, and a failed one has its repair asked for or about to be.  `CountInv` counts
the verifiers between the two counters, `LoopInv` ties the loop to its pass.

`ListingProofs` proves, for any set of keys, prefixes, delimiters, starts and page
sizes, any temp files and directories in the tree, and any number of PUTs and DELETEs
between and under the pages:

| Theorem | Statement |
|---|---|
| `PagesAscend` | `Spec => []PagesInOrder` |
| `StableKeysFound` | `Spec => []StableKeysListed` |
| `ListingIsExact` | `Spec => []ListingExact` |

*The argument* has three parts.  `Less` is a strict total order (`LessIsLessAt` says it
by the first place where two strings differ).  A page is the first `max` strings of a
finite set: it is not empty, has no gaps, and is all of a set that fits
(`PageNotEmpty`, `PageNoGap`, `PageIsAll`), and the token is its greatest item
(`TokenEndsPage`).  The walk finds what S3 lists: a directory that is not entered
hides no key, since it agrees with each key below it up to the first delimiter
and so is the common prefix of all of them (`ConsumedDir`, `FoundSound`,
`FoundComplete`); the exception is the directory of a sealed object under the
delimiter `/`.  That every file lies in directories of the tree is `TreeInv`, which a
PUT and the climb of a DELETE keep.  `ListInv` then says that nothing listed is
greater than the token, and that the entry of a key that was always there is listed or
behind the token; in a quiet bucket also that of every leaving.  Keys that
`filepath.Clean` leaves alone are an assumption (`KeyAssumption`).

`GatewayProofs` proves, for any credentials, requests, configurations, cap, bodies, ranges
and clock:

| Theorem | Statement |
|---|---|
| `CapIsExact` | `Spec => []CapExact` |
| `RangesServed` | `Spec => []RangeServed` |
| `OnlySignedAccepted` | `Spec => []AcceptedAsSigned` |
| `AuthIsExact` | `Spec => []AuthExact` |
| `EffectsNeedRoles` | `Spec => []EffectNeedsRole` |

`TransferInv` says that a body is read on only while there is room for one more byte.
`MsgInv` says that the request that arrives is the one that was signed, or an altered
one with a signature somebody made with a secret, and `VerdictInv` that the verdict is
`VerifyRequest` at the clock of the arrival.  `AcceptedAsSigned` follows by taking the
signature apart.  `AuthExact` needs both directions of what the canonical request
keeps apart.  Accepted implies signed, whatever was altered: the canonical query holds
each parameter as often as the query does (`CanonicalTimes`), so equal canonical
requests say the same.
Signed implies accepted, if nothing happened on the way but what is harmless: a
reversed query has the same canonical form (`CanonicalReverse`), and padding or a header that is not signed is not in it
(`HarmlessIsTheSame`).  The canonical query is defined by the rank of each parameter;
counting the lower ranks replaces an induction over its length.  The assumptions are
that the three markers differ from each other and from every value, that no
signature is the marker of a missing one, and that the header a proxy adds is not
among those a client signs.

Only model-checked: liveness (`EventuallyHealed`, `EventuallyReclaimed`, `ShutdownEnds`,
`EveryItemHandled`, `PassEnds`, `ListingEnds`), since fairness and ENABLED are beyond
the prover.  Induction over data is too: the one fold of the models, the sum of the
part sizes in `Multipart`, is left unexpanded by the proofs, none of which needs its
value.

## 5. Not modelled

* Configuration: read once at start; its switches are constants or variables of the
  modules that start with every value of them.  Metrics and tracing: no handler reads
  them back.  `NoopScrubber`, which main never starts, and the codec interface, which
  the server does not use.
* Bytes: header and footer layout, CRC arithmetic, XML, URL escaping, HMAC.  Of
  percent-encoding in the canonical request only what it keeps apart is modelled.
* The verification of a token (signature, issuer, audience, keys): a library's.
* Loss of power.  A kill loses processes and memory, not what was renamed.
* Failing removals of temp files, and failing reads of a disk: with `IOFaults` writes,
  syncs, renames and the removals of shards and manifests fail.  What a Put does when
  it fails is opened in `SealedObject`, kept as its outcomes in `Multipart`, and left
  out of `Buckets` and `Listing`, where a PUT that fails changes no object.
* A second `Start` of worker or scrubber: main starts each once.  (After Stop it
  would close the scrubber's `doneCh` twice.)  Further data directories: their
  walks follow the first.
* Listing's walk as a sequence of steps, except for its breaking off.  Keys that
  `filepath.Clean` changes, keys below `.multipart/` and keys whose last element is
  `object.meta` or `data.ss1`, which the walk takes for its own files; a data directory
  of both modes; a kill while a listing is under way (its client sees the connection
  break).
* The pages of a long listing of parts in the collector (more than 1000); they are one.
* Range headers that do not parse, which are refused, and lists of ranges, of which
  the first is served.  Requests that repeat a header on purpose, except for further
  lines of one that is signed (`more`).
* `Stats` of the worker as a reading over several steps: the sum is taken in one state.

## 6. Where code and documents part

`SealedObjectPutPut` shows one: two Puts of a key whose renames interleave leave the
shard of one under the manifest of the other (`objectstore.go:19-20`).  The others
were noticed while modelling.  The models do what the code does, and the
properties above exclude these cases explicitly:

| Code | What happens | What is said |
|---|---|---|
| `localfs.go:370` | without verifyOnRead a GET between the two renames sends one payload under the ETag of another | README.md:497 |
| `localfs.go:592` | a Delete between the two renames leaves a shard without manifest, or the reverse | `localfs.go:348` |
| `localfs.go:594` | DELETE is answered with 204 although neither shard nor manifest could be removed, and the object can still be read | `localfs.go:594` ("ignore error") |
| `localfs.go:549` | HEAD with verifyOnRead does not read the payload | README.md:472 |
| `server.go:247` | a shard header that does not decode is answered with 404, not 500 | README.md:473 |
| `rewriter.go:153` | a repair renames an older payload over the one of a Put acknowledged meanwhile | `rewriter.go:29` |
| `localfs.go:984` | removeEmptyParents unlinks a file that took the place of the directory it read | `objectstore.go:19-20` |
| `localfs.go:492` | a plain GET mixes length, body and ETag of different versions | `objectstore.go:19-20` |
| `localfs.go:178` | a PUT is refused because a DELETE removed the directory it had just made | `objectstore.go:19-20` |
| `server.go:663` | a part staged while its upload ends stays for good | README.md:516 |
| `gc.go:60` | so does a part that arrives after a collector listed its upload, or whose deletion fails: the collector waits for nobody and aborts all the same | README.md:516 |
| `localfs.go:349` | an upload of a part that fails in the store takes the part recorded before with it: the upload stays, and its completion answers 500 | `localfs.go:348` |
| `server.go:674` | of two uploads of the same part at once, one may be recorded and the other's body staged | README.md:111 |
| `server.go:815` | a completion answers with the MD5 of MD5s | README.md:514 |
| `server.go:767` | a completion assembles parts 1..N, listed or not | README.md:133 |
| `worker.go:173` | a goroutine that waits in Dequeue takes one more item after Pause | `worker.go:128` |
| `queue.go:85` | priorities are stored and not used | README.md:189 |
| `queue.go:85` | an Enqueue beside Close may panic | `queue.go:46` |
| `scrubber.go:265` | a stop signal during a pass is lost | `scrubber.go:49` |
| `main.go:280` | a GET of `/admin/health` or `/admin/version` that OIDC exempts has no subject, and RBAC answers 403 | `main.go:269`, README.md:238 |
| `main.go:267` | when the OIDC provider is not reached at start, that is logged and the admin listener serves without it | README.md:342 |
| `verify.go:329` | the canonical query sorts names regardless of case, leaves `/` in values as it is, and the path is escaped a second time; AWS's form differs, and the tests sign with the server's own | README.md:510 |
| `verify.go:120` | a presigned request whose lifetime is not positive is treated like a header-signed one | README.md:30 |
| `scrubber.go:401` | an object whose manifest does not load is neither counted nor reported | README.md:500 |
| `localfs.go:179` | the `.put-*` file of a PUT is listed as an object; one left by a kill stays, and keeps its bucket from being deleted until a client deletes it | README.md:105 |
| `localfs.go:966` | objects put after the last emptiness check go with the bucket | README.md:105 |
| `server.go:386` | an upload initiated after the check outlives the bucket | `server.go:385` |
| `localfs.go:704` | with delimiter `/` a sealed object is listed as a common prefix | README.md:24 |
| `localfs.go:803` | a listed file that goes away under the walk (a plain object that is deleted; in both modes the temp file of a PUT that ends or fails) empties the listing: 200, no keys, not truncated | `objectstore.go:19-20` |
| `localfs.go:704` | the directory a failed PUT made is listed as a common prefix, though no key is in it; so is `.multipart/` of a key below it | `localfs.go:716` ("never list these") |
| `server.go:84` | a body of exactly the cap may be refused | `server.go:63` |
| `verify.go:519` | an unhashed body that is sent in chunks, without a Content-Length, is taken for no body, and the request accepted | `verify.go:98` |
| `verify.go:530` | a hash given in hex is never compared with the body: another body under it is accepted | `verify.go:98` |
| `verify.go:365` | of a signed header with several lines only the first is signed, and more can be added | `verify.go:19` ("validates canonical requests") |

## 7. Plan

Done: all components of section 1 but the last two as models with runs, every safety
property proved, both refinements included.  In order of worth:

1. `PipelineInv` and `ScrubberShape` meet at the queue: prove that a verifier of
   `Scrubber` is a producer of `RepairPipeline`.
2. Extend the models: the walk of a listing as steps; two
   uploads of one object in `Multipart`; several data directories.
