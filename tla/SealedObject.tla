--------------------------- MODULE SealedObject ---------------------------
(***************************************************************************)
(* One sealed object of LocalFS: the directory objects/<bucket>/<key> with  *)
(* its shard data.ss1 and its manifest object.meta, under every process     *)
(* that touches it without a lock: S3 handlers running Put, Get, Head and   *)
(* Delete, repair workers running the single-shard rewriter, and scrubbers. *)
(*                                                                          *)
(* A step is one system call (or a run of them no other process can tell    *)
(* apart): mkdir, create temp, rename, remove, open.  An open file is a     *)
(* snapshot, because the shard and the manifest are only ever replaced by   *)
(* rename.  Media corruption (Rot) and a kill of the process (Crash) are     *)
(* environment steps that a configuration switches on.                      *)
(***************************************************************************)
EXTENDS Integers, Sequences, FiniteSets

CONSTANTS Putters,       \* handlers that PUT the object
          Readers,       \* handlers that GET and HEAD the object
          Deleters,      \* handlers that DELETE the object
          Workers,       \* goroutines of the repair worker
          Scrubbers,     \* goroutines of the sealed scrubber
          Byte,          \* the byte values a payload is made of
          Contents,      \* the payloads clients upload
          VerifyOnRead,  \* sealed.verifyOnRead
          VerifyPayload, \* scrubber.verifyPayload
          QueueCap,      \* bound on queued repair items of this object
          Rot,           \* which parts of a stored shard may rot
          Crashes,       \* may the process be killed and restarted
          IOFaults,      \* may a write, rename, sync or removal of a file fail
          None           \* no file, no value

ASSUME PayloadAssumption == Contents \subseteq Seq(Byte)
ASSUME QueueAssumption == QueueCap \in Nat
ASSUME SwitchAssumption ==
  /\ {VerifyOnRead, VerifyPayload, Crashes, IOFaults} \subseteq BOOLEAN
  /\ Rot \subseteq {"header", "payload", "footer"}

Clients == Putters \cup Readers \cup Deleters

ASSUME ProcsAssumption ==
  /\ Workers \cap Clients = {}
  /\ Scrubbers \cap (Clients \cup Workers) = {}

Procs == Clients \cup Workers \cup Scrubbers

VARIABLES dir,       \* does the object directory exist
          data,      \* the shard file data.ss1, or None
          manifest,  \* the manifest file object.meta, or None
          orphan,    \* does a temp file of a killed process remain in dir
          queue,     \* repair items queued for this object
          pr         \* what each process is doing

vars == <<dir, data, manifest, orphan, queue, pr>>

---------------------------------------------------------------------------
(* Values.  The digests are injective: two payloads have the same sha256,   *)
(* or the same MD5, only if they are the same payload.                      *)

Sha256(p) == <<"sha256", p>>
MD5(p) == <<"md5", p>>

(* The CRCs of header and footer are abstracted to whether they still check. *)
Shard == [hdrOK: BOOLEAN, payload: Seq(Byte), ftrOK: BOOLEAN,
          ftrHash: {"sha256"} \X Seq(Byte)]

Manifest == [hash: {"sha256"} \X Seq(Byte), etag: {"md5"} \X Seq(Byte),
             size: Nat]

(* "No such file" is neither a file's contents nor a payload. *)
ASSUME NoneAssumption ==
  None \notin Seq(Byte) /\ None \notin Shard /\ None \notin Manifest

(* EncodeShardHeader | payload | EncodeShardFooter *)
Sealed(p) == [hdrOK |-> TRUE, payload |-> p, ftrOK |-> TRUE,
              ftrHash |-> Sha256(p)]

(* NewSingleShardManifest *)
ManifestOf(p) == [hash |-> Sha256(p), etag |-> MD5(p), size |-> Len(p)]

(* The manifest after a rewrite: the rewriter stores the digest it computed. *)
Reseal(m, p) == [m EXCEPT !.hash = Sha256(p)]

Response == [op: {"put", "get", "head", "delete"},
             status: {200, 204, 404, 500},
             etag: ({"md5"} \X Seq(Byte)) \cup {None},
             body: Seq(Byte) \cup {None}]

Reply(op, status, etag, body) ==
  [op |-> op, status |-> status, etag |-> etag, body |-> body]

PutPCs == {"mkdir", "writing", "rollback"}
SavePCs == {"save", "saveDir", "saveTemp", "saveSync"}
ReadPCs == {"get", "head"}
DeletePCs == {"delData", "delManifest", "delParents"}
RepairPCs == {"loaded", "rewritten", "replaced"}
ScrubPCs == {"scrub"}

Process == [pc: {"idle", "done"} \cup PutPCs \cup SavePCs \cup ReadPCs
                  \cup DeletePCs \cup RepairPCs \cup ScrubPCs,
            payload: Seq(Byte) \cup {None},
            man: Manifest \cup {None},
            resp: Response \cup {None}]

Doing(pc, payload, man) ==
  [pc |-> pc, payload |-> payload, man |-> man, resp |-> None]
Idle == Doing("idle", None, None)
Done(r) == [pc |-> "done", payload |-> None, man |-> None, resp |-> r]

(* Temp files that live in the directory: .put-*.ss1.tmp, .repair-* and      *)
(* .object.meta.*.tmp.                                                      *)
HoldsTemp(p) == pr[p].pc \in {"writing", "rewritten", "saveTemp"}

DirEmpty ==
  /\ data = None /\ manifest = None /\ ~orphan
  /\ \A p \in Procs: ~HoldsTemp(p)

TypeOK ==
  /\ dir \in BOOLEAN
  /\ data \in Shard \cup {None}
  /\ manifest \in Manifest \cup {None}
  /\ orphan \in BOOLEAN
  /\ queue \in 0..QueueCap
  /\ pr \in [Procs -> Process]

Init ==
  /\ dir = FALSE
  /\ data = None
  /\ manifest = None
  /\ orphan = FALSE
  /\ queue = 0
  /\ pr = [p \in Procs |-> Idle]

At(p, pc) == pr[p].pc = pc
Goto(p, pc) == pr' = [pr EXCEPT ![p].pc = pc]
Finish(p, r) == pr' = [pr EXCEPT ![p] = Done(r)]
Quit(p) == pr' = [pr EXCEPT ![p] = Idle]
files == <<dir, data, manifest, orphan>>

(* Variant: an enqueue that ignores the capacity *)
EnqueueUnbounded == queue' = queue + 1

(* enqueueRepair: Enqueue under the request's context.  At the limit the     *)
(* handler blocks until the client goes away, and then nothing is queued.   *)
EnqueueRepair == queue' = IF queue < QueueCap THEN queue + 1 ELSE queue

(* os.Remove, its error ignored: the file is gone, or the disk kept it. *)
Unlinked(file) == {None} \cup (IF IOFaults THEN {file} ELSE {})

(* The handler has written its response. *)
Return(c) ==
  /\ At(c, "done")
  /\ Quit(c)
  /\ UNCHANGED <<files, queue>>

---------------------------------------------------------------------------
(* Put, sealed path *)

(* MkdirAll of the object directory. *)
PutBegin(c) ==
  /\ At(c, "idle")
  /\ \E p \in Contents:
       pr' = [pr EXCEPT ![c] = Doing("mkdir", p, None)]
  /\ dir' = TRUE
  /\ UNCHANGED <<data, manifest, orphan, queue>>

(* CreateTemp: fails when a Delete removed the empty directory again. *)
PutCreateTemp(c) ==
  /\ At(c, "mkdir")
  /\ IF dir THEN Goto(c, "writing")
            ELSE Finish(c, Reply("put", 500, None, None))
  /\ UNCHANGED <<files, queue>>

(* Variant: the clean-up after a failed upload removes data.ss1, not the temp file *)
BodyFailsRemovesFinal(c) ==
  /\ At(c, "writing")
  /\ data' = None
  /\ Finish(c, Reply("put", 500, None, None))
  /\ UNCHANGED <<dir, manifest, orphan, queue>>

(* Reading the body, or writing or syncing the temp file, fails: the temp    *)
(* file is removed, the directory stays.                                    *)
PutBodyFails(c) ==
  /\ At(c, "writing")
  /\ Finish(c, Reply("put", 500, None, None))
  /\ UNCHANGED <<files, queue>>

(* The complete temp file becomes data.ss1; the manifest is still the old one. *)
PutRename(c) ==
  /\ At(c, "writing")
  /\ data' = Sealed(pr[c].payload)
  /\ LET p == pr[c].payload
     IN pr' = [pr EXCEPT ![c] = Doing("save", p, ManifestOf(p))]
  /\ UNCHANGED <<dir, manifest, orphan, queue>>

(* Variant: a rollback that removes the manifest as well *)
RollbackBoth(c) ==
  /\ At(c, "rollback")
  /\ data' = None /\ manifest' = None
  /\ Finish(c, Reply("put", 500, None, None))
  /\ UNCHANGED <<dir, orphan, queue>>

(* os.Remove(finalPath) after a failed SaveManifest *)
PutRollback(c) ==
  /\ At(c, "rollback")
  /\ data' \in Unlinked(data)
  /\ Finish(c, Reply("put", 500, None, None))
  /\ UNCHANGED <<dir, manifest, orphan, queue>>

---------------------------------------------------------------------------
(* SaveManifest, called by Put and by the rewriter *)

(* MkdirAll *)
SaveMkdir(p) ==
  /\ At(p, "save")
  /\ dir' = TRUE
  /\ Goto(p, "saveDir")
  /\ UNCHANGED <<data, manifest, orphan, queue>>

SaveCreateTemp(p) ==
  /\ At(p, "saveDir")
  /\ dir
  /\ Goto(p, "saveTemp")
  /\ UNCHANGED <<files, queue>>

SaveRename(p) ==
  /\ At(p, "saveTemp")
  /\ manifest' = pr[p].man
  /\ Goto(p, "saveSync")
  /\ UNCHANGED <<dir, data, orphan, queue>>

(* SyncDir succeeded: Put acknowledges, Repair returns nil. *)
SaveDone(p) ==
  /\ At(p, "saveSync")
  /\ IF p \in Workers THEN Quit(p)
                      ELSE Finish(p, Reply("put", 200, pr[p].man.etag, None))
  /\ UNCHANGED <<files, queue>>

(* An error of any step: the directory vanished under CreateTemp or SyncDir, *)
(* or the disk failed.  Put rolls the data file back, Repair just returns.   *)
SaveFails(p) ==
  /\ pr[p].pc \in SavePCs
  /\ IOFaults \/ (pr[p].pc \in {"saveDir", "saveSync"} /\ ~dir)
  /\ IF p \in Workers THEN Quit(p) ELSE Goto(p, "rollback")
  /\ UNCHANGED <<files, queue>>

---------------------------------------------------------------------------
(* Get and Head *)

(* LoadManifest.  Without one the plain fallback finds a directory, or        *)
(* nothing, at the path: both are errors, which the handler maps to 404.     *)
ReadLoad(c, op) ==
  /\ At(c, "idle")
  /\ IF manifest = None
       THEN Finish(c, Reply(op, 404, None, None))
       ELSE pr' = [pr EXCEPT ![c] = Doing(op, None, manifest)]
  /\ UNCHANGED <<files, queue>>

(* Variant: the footer is decoded but not compared with the manifest *)
FooterDecodes(s, m) == s.ftrOK

(* The footer decodes, its hash is the manifest's *)
FooterMatches(s, m) == s.ftrOK /\ s.ftrHash = m.hash

(* ... and the payload hashes to it *)
PayloadMatches(s) == Sha256(s.payload) = s.ftrHash

(* Open data.ss1, decode the header, verify, answer.  A header that does not *)
(* decode is returned as a plain error (404), a failed verification as        *)
(* ErrIntegrity (500); both enqueue a repair.  A missing shard is 404 only.  *)
GetOpen(c) ==
  /\ At(c, "get")
  /\ LET m == pr[c].man IN
     \/ /\ data = None
        /\ Finish(c, Reply("get", 404, None, None))
        /\ UNCHANGED queue
     \/ /\ data # None /\ ~data.hdrOK
        /\ Finish(c, Reply("get", 404, None, None))
        /\ EnqueueRepair
     \/ /\ data # None /\ data.hdrOK
        /\ VerifyOnRead /\ ~(FooterMatches(data, m) /\ PayloadMatches(data))
        /\ Finish(c, Reply("get", 500, None, None))
        /\ EnqueueRepair
     \/ /\ data # None /\ data.hdrOK
        /\ VerifyOnRead => FooterMatches(data, m) /\ PayloadMatches(data)
        /\ Finish(c, Reply("get", 200, m.etag, data.payload))
        /\ UNCHANGED queue
  /\ UNCHANGED files

(* Head answers from the manifest; verification reads header and footer only. *)
HeadOpen(c) ==
  /\ At(c, "head")
  /\ LET m == pr[c].man IN
     \/ /\ VerifyOnRead /\ data = None
        /\ Finish(c, Reply("head", 404, None, None))
        /\ UNCHANGED queue
     \/ /\ VerifyOnRead /\ data # None
        /\ ~(data.hdrOK /\ FooterMatches(data, m))
        /\ Finish(c, Reply("head", 500, None, None))
        /\ EnqueueRepair
     \/ /\ VerifyOnRead => data # None /\ data.hdrOK /\ FooterMatches(data, m)
        /\ Finish(c, Reply("head", 200, m.etag, None))
        /\ UNCHANGED queue
  /\ UNCHANGED files

---------------------------------------------------------------------------
(* Delete *)

(* LoadManifest.  Without one, os.Remove of the path: it removes an empty     *)
(* directory and fails on anything else.                                    *)
DeleteLoad(c) ==
  /\ At(c, "idle")
  /\ \/ /\ manifest # None
        /\ pr' = [pr EXCEPT ![c] = Doing("delData", None, manifest)]
        /\ UNCHANGED dir
     \/ /\ manifest = None /\ dir /\ DirEmpty
        /\ dir' = FALSE
        /\ Finish(c, Reply("delete", 204, None, None))
     \/ /\ manifest = None /\ ~(dir /\ DirEmpty)
        /\ Finish(c, Reply("delete", 404, None, None))
        /\ UNCHANGED dir
  /\ UNCHANGED <<data, manifest, orphan, queue>>

(* Both removals count as done, whether they were or not: the answer is 204. *)
DeleteShard(c) ==
  /\ At(c, "delData")
  /\ data' \in Unlinked(data)
  /\ Goto(c, "delManifest")
  /\ UNCHANGED <<dir, manifest, orphan, queue>>

DeleteManifest(c) ==
  /\ At(c, "delManifest")
  /\ manifest' \in Unlinked(manifest)
  /\ Goto(c, "delParents")
  /\ UNCHANGED <<dir, data, orphan, queue>>

(* removeEmptyParents, and the answer *)
DeleteParents(c) ==
  /\ At(c, "delParents")
  /\ dir' = (dir /\ ~DirEmpty)
  /\ Finish(c, Reply("delete", 204, None, None))
  /\ UNCHANGED <<data, manifest, orphan, queue>>

---------------------------------------------------------------------------
(* SingleShardRewriter.Repair, run by a worker for a dequeued item *)

(* Dequeue and LoadManifest: no manifest is skipped, an empty payload is      *)
(* unsupported.                                                             *)
RepairLoad(w) ==
  /\ At(w, "idle")
  /\ queue > 0
  /\ queue' = queue - 1
  /\ IF manifest = None \/ manifest.size = 0
       THEN UNCHANGED pr
       ELSE pr' = [pr EXCEPT ![w] = Doing("loaded", None, manifest)]
  /\ UNCHANGED files

(* Variant: the copied bytes are not compared with the manifest's digest *)
RewriteUnchecked(w) ==
  /\ At(w, "loaded")
  /\ LET m == pr[w].man
         p == SubSeq(data.payload, 1, m.size)
     IN IF data # None /\ Len(data.payload) >= m.size
          THEN pr' = [pr EXCEPT ![w] = Doing("rewritten", p, m)]
          ELSE Quit(w)
  /\ UNCHANGED <<files, queue>>

(* Open the shard and copy the first size bytes of the payload to a temp      *)
(* file, whatever header and footer say.  A shard that is missing, too short *)
(* or whose bytes do not have the manifest's digest ends the repair.         *)
RepairRewrite(w) ==
  /\ At(w, "loaded")
  /\ LET m == pr[w].man
         p == SubSeq(data.payload, 1, m.size)
     IN IF data # None /\ Len(data.payload) >= m.size /\ Sha256(p) = m.hash
          THEN pr' = [pr EXCEPT ![w] = Doing("rewritten", p, m)]
          ELSE Quit(w)
  /\ UNCHANGED <<files, queue>>

(* Rename over data.ss1 *)
RepairReplace(w) ==
  /\ At(w, "rewritten")
  /\ data' = Sealed(pr[w].payload)
  /\ Goto(w, "replaced")
  /\ UNCHANGED <<dir, manifest, orphan, queue>>

(* Writing the temp file or renaming it fails; the temp file is removed. *)
RepairFails(w) ==
  /\ At(w, "rewritten")
  /\ IOFaults
  /\ Quit(w)
  /\ UNCHANGED <<files, queue>>

(* SyncDir of the shard's directory; then the manifest loaded at the start is *)
(* saved again with the digest just computed.                               *)
RepairSync(w) ==
  /\ At(w, "replaced")
  /\ LET p == pr[w].payload
     IN IF dir
          THEN pr' = [pr EXCEPT ![w] = Doing("save", p, Reseal(pr[w].man, p))]
          ELSE Quit(w)
  /\ UNCHANGED <<files, queue>>

(* POST /admin/repair/enqueue *)
AdminEnqueue ==
  /\ queue < QueueCap
  /\ queue' = queue + 1
  /\ UNCHANGED <<files, pr>>

---------------------------------------------------------------------------
(* SealedScrubber.verifyObject *)

ScrubLoad(s) ==
  /\ At(s, "idle")
  /\ manifest # None
  /\ pr' = [pr EXCEPT ![s] = Doing("scrub", None, manifest)]
  /\ UNCHANGED <<files, queue>>

(* Variant: a scrub that trusts a header that decodes *)
ScrubHeaderOnly(m) == data = None \/ ~data.hdrOK

ScrubFinds(m) ==
  \/ data = None
  \/ ~data.hdrOK
  \/ ~FooterMatches(data, m)
  \/ VerifyPayload /\ ~PayloadMatches(data)

(* A failure is enqueued under the scrubber's own context: at the limit the   *)
(* scrubber waits.                                                          *)
ScrubCheck(s) ==
  /\ At(s, "scrub")
  /\ IF ScrubFinds(pr[s].man)
       THEN queue < QueueCap /\ queue' = queue + 1
       ELSE UNCHANGED queue
  /\ Quit(s)
  /\ UNCHANGED files

---------------------------------------------------------------------------
(* The environment *)

(* Stored bytes rot in place: a CRC no longer checks, or a payload of the     *)
(* same length is not the one that was written.                             *)
RotShard ==
  /\ data # None
  /\ \/ "header" \in Rot /\ data' = [data EXCEPT !.hdrOK = FALSE]
     \/ "footer" \in Rot /\ data' = [data EXCEPT !.ftrOK = FALSE]
     \/ /\ "payload" \in Rot
        /\ \E q \in [1..Len(data.payload) -> Byte]:
             data' = [data EXCEPT !.payload = q]
  /\ UNCHANGED <<dir, manifest, orphan, queue, pr>>

(* The process is killed and started again: every goroutine and the queue are *)
(* gone, the files stay, and so do the temp files.                          *)
Crash ==
  /\ Crashes
  /\ orphan' = (orphan \/ \E p \in Procs: HoldsTemp(p))
  /\ queue' = 0
  /\ pr' = [p \in Procs |-> Idle]
  /\ UNCHANGED <<dir, data, manifest>>

Put(c) == \/ PutBegin(c) \/ PutCreateTemp(c) \/ PutBodyFails(c)
          \/ PutRename(c) \/ PutRollback(c)
SaveManifest(p) == \/ SaveMkdir(p) \/ SaveCreateTemp(p) \/ SaveRename(p)
                   \/ SaveDone(p) \/ SaveFails(p)
Read(c) == ReadLoad(c, "get") \/ GetOpen(c) \/ ReadLoad(c, "head") \/ HeadOpen(c)
Delete(c) == \/ DeleteLoad(c) \/ DeleteShard(c) \/ DeleteManifest(c)
             \/ DeleteParents(c)
Repair(w) == \/ RepairLoad(w) \/ RepairRewrite(w) \/ RepairReplace(w)
             \/ RepairFails(w) \/ RepairSync(w)
Scrub(s) == ScrubLoad(s) \/ ScrubCheck(s)

Next ==
  \/ \E c \in Putters: Put(c)
  \/ \E p \in Putters \cup Workers: SaveManifest(p)
  \/ \E c \in Readers: Read(c)
  \/ \E c \in Deleters: Delete(c)
  \/ \E c \in Clients: Return(c)
  \/ \E w \in Workers: Repair(w)
  \/ \E s \in Scrubbers: Scrub(s)
  \/ AdminEnqueue
  \/ RotShard
  \/ Crash

Spec == Init /\ [][Next]_vars

(* Goroutines run: a repair or a manifest save that was started goes on, the  *)
(* worker takes the next item while there is one, and the scrubber's ticker   *)
(* starts pass after pass.                                                  *)
Fairness ==
  /\ \A w \in Workers: WF_vars(Repair(w)) /\ WF_vars(SaveManifest(w))
  /\ \A c \in Putters: WF_vars(SaveManifest(c))
  /\ \A s \in Scrubbers: WF_vars(Scrub(s))

FairSpec == Spec /\ Fairness

---------------------------------------------------------------------------
(* Properties *)

(* The shard passes the full verification of a read against this manifest. *)
Verifies(s, m) == s.hdrOK /\ FooterMatches(s, m) /\ PayloadMatches(s)

(* The payload a manifest stands for *)
Promised(m) == m.hash[2]

(* No call and no repair is under way. *)
Quiescent == \A p \in Procs: pr[p].pc \in {"idle", "done"}

(* With verifyOnRead, whatever Puts, Deletes, repairs, crashes and rot happen *)
(* between LoadManifest and the open of the shard, a GET that answers 200     *)
(* sends bytes some client uploaded, under the ETag of exactly those bytes.  *)
ReadSound(r) ==
  VerifyOnRead /\ r # None /\ r.op = "get" /\ r.status = 200
    => r.body \in Contents /\ r.etag = MD5(r.body)

VerifiedReadSound == \A c \in Readers: ReadSound(pr[c].resp)

(* The inductive invariant behind it and behind RepairInstallsVerified.       *)
(* Every manifest, stored or loaded, describes one uploaded payload; what a   *)
(* process is about to rename or to save fits the manifest it holds.         *)
Sound(m) == \E p \in Contents: m = ManifestOf(p)

ProcessSound(s) ==
  /\ s.pc \in {"mkdir", "writing"} => s.payload \in Contents
  /\ s.pc \in {"rewritten", "replaced"} =>
       s.payload \in Seq(Byte) /\ Sha256(s.payload) = s.man.hash
  /\ s.pc \in SavePCs \cup ReadPCs \cup RepairPCs \cup ScrubPCs => s.man # None
  /\ s.man # None => Sound(s.man)
  /\ ReadSound(s.resp)

SoundInv ==
  /\ TypeOK
  /\ manifest # None => Sound(manifest)
  /\ \A p \in Procs: ProcessSound(pr[p])

(* The rewriter only ever renames over data.ss1 a shard that verifies against *)
(* the manifest it loaded, whatever header, footer, longer payload or         *)
(* concurrently replaced file it copied from.                               *)
RepairInstallsVerified ==
  [][\A w \in Workers:
       At(w, "rewritten") /\ pr'[w].pc = "replaced"
         => Verifies(data', pr[w].man)]_vars

(* As long as nothing is deleted and the disk does not fail, Put's order      *)
(* (shard first, manifest second) keeps a shard behind every manifest at all  *)
(* times, also when Puts and repairs race and the process is killed.         *)
ManifestHasData == manifest # None => data # None

(* Its inductive form: a call that reached the manifest has its shard in       *)
(* place, and the directory is there from the first step of a Put on.        *)
DataInv ==
  /\ ManifestHasData
  /\ data # None => dir
  /\ \A p \in Procs:
       /\ pr[p].pc \in {"mkdir", "writing"} => dir
       /\ pr[p].pc \in SavePCs \cup {"rewritten", "replaced"} => data # None
       /\ pr[p].pc \notin DeletePCs \cup {"rollback"}

(* Once Puts, rot and crashes are over, a shard whose payload is intact is     *)
(* healed for good: scrubber, queue and rewriter between them restore header  *)
(* and footer.                                                              *)
EventuallyHealed ==
  <>[][~(RotShard \/ Crash \/ \E c \in Putters: Put(c) \/ SaveManifest(c))]_vars
  => <>[](/\ data # None /\ manifest # None
          /\ manifest.size > 0 /\ data.payload = Promised(manifest)
          => Verifies(data, manifest))

(* Without workers the object is a register: Put takes effect when its        *)
(* manifest is renamed, Delete when the manifest is removed, a read when it    *)
(* loads the manifest.  See ObjectRegister.                                 *)
RequestOf(s) ==
  LET r(st, val, ok) == [st |-> st, val |-> val, ok |-> ok]
  IN CASE s.pc \in {"mkdir", "writing", "save", "saveDir", "saveTemp"}
            -> r("put", s.payload, FALSE)
       [] s.pc = "saveSync" -> r("written", s.payload, FALSE)
       [] s.pc = "rollback" -> r("done", None, FALSE)
       [] s.pc \in ReadPCs -> r("read", Promised(s.man), FALSE)
       [] s.pc \in {"delData", "delManifest"} -> r("delete", None, FALSE)
       [] s.pc = "delParents" -> r("deleted", None, FALSE)
       [] s.pc = "done" ->
            r("done",
              IF s.resp.status # 200 \/ s.resp.op = "put" THEN None
              ELSE IF s.resp.op = "get" THEN s.resp.body ELSE s.resp.etag[2],
              s.resp.status \in {200, 204})
       [] OTHER -> r("idle", None, FALSE)

StoredValue == IF manifest = None THEN None ELSE Promised(manifest)
Requests == [c \in Clients |-> RequestOf(pr[c])]

Register == INSTANCE ObjectRegister WITH obj <- StoredValue, req <- Requests,
                                         Lossy <- IOFaults

(* With verifyOnRead and no repair worker, the lock-free steps of Put, Get,    *)
(* Head and Delete implement an atomic register in which calls may fail: an   *)
(* acknowledged Put took effect, and a read that succeeds answers the value   *)
(* of one instant, for any number of handlers, crashes and disk faults.  An   *)
(* acknowledged Delete took effect unless the disk kept the manifest: the     *)
(* code does not look at the error of the removal.                          *)
RegisterSpec == Register!RSpec

---------------------------------------------------------------------------
(* What the repository says and the code does not keep.  objectstore.go: the *)
(* store is "safe for concurrent use": once the Puts of one key are through,  *)
(* its shard and its manifest agree.                                        *)
ConcurrentPutsCoherent ==
  Quiescent /\ data # None /\ manifest # None => Verifies(data, manifest)

===========================================================================
