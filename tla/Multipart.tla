----------------------------- MODULE Multipart -----------------------------
(***************************************************************************)
(* The multipart uploads of one object: the metadata store's upload table,  *)
(* the staged parts in the bucket ".multipart", the final object, and the   *)
(* handlers that work on them concurrently: InitiateMultipartUpload,        *)
(* UploadPart, CompleteMultipartUpload, AbortMultipartUpload and the        *)
(* garbage collector of stale uploads (its timer loop and its admin         *)
(* endpoint run the same pass).                                             *)
(*                                                                          *)
(* The store locks each of its methods, so a step is one store method or    *)
(* one call of the object store (what happens inside a Put or a Delete, and *)
(* to two of them that meet, is in SealedObject and PlainObject).           *)
(* GetMultipartUpload hands out a pointer to the live upload: the handlers  *)
(* re-read its parts, without the lock, after other handlers changed them   *)
(* and after it left the table.                                             *)
(***************************************************************************)
EXTENDS Integers, Sequences, FiniteSets, FiniteSetsExt

CONSTANTS Uploads,     \* upload ids the store will generate
          PartNum,     \* part numbers clients use, a prefix of 1..10000
          Chunk,       \* contents of a part
          Size,        \* the size of each content
          MinPart,     \* limits.minMultipartPartSize
          Initiators,  \* handlers of POST ?uploads
          Uploaders,   \* handlers of PUT ?partNumber&uploadId
          Completers,  \* handlers of POST ?uploadId
          Aborters,    \* handlers of DELETE ?uploadId
          Collectors,  \* goroutines that run a GC pass
          Overlap,     \* may a client end an upload while it uploads parts
          IOFaults,    \* may a call of the object store fail
          Crashes,     \* may the process be killed and restarted
          None,        \* no part, no object
          Torn         \* an object that cannot be read: its manifest without
                       \* its shard, or its shard without its manifest

ASSUME PartNumAssumption == PartNum \subseteq Nat /\ \E n \in PartNum: PartNum = 1..n
ASSUME SizeAssumption == Size \in [Chunk -> Nat] /\ MinPart \in Nat
ASSUME SwitchAssumption == {Overlap, IOFaults, Crashes} \subseteq BOOLEAN
ASSUME NoneAssumption ==
  None # Torn /\ {None, Torn} \cap (Chunk \cup Seq(Chunk)) = {}

Enders == Completers \cup Aborters \cup Collectors
Procs == Initiators \cup Uploaders \cup Enders

ASSUME RolesAssumption ==
  /\ Initiators \cap (Uploaders \cup Enders) = {}
  /\ Uploaders \cap Enders = {}
  /\ Completers \cap (Aborters \cup Collectors) = {}
  /\ Aborters \cap Collectors = {}

VARIABLES active,  \* the upload ids in the store's table
          born,    \* the upload ids generated so far
          stale,   \* the uploads older than the collector's threshold
          parts,   \* upload.Parts: the recorded parts (a part's ETag stands
                   \* for its content)
          staged,  \* the objects of the staging bucket
          object,  \* the final object
          late,    \* history: the uploads of which a part was staged after a
                   \* collector listed them, or after they left the table
          pr       \* what each process is doing

vars == <<active, born, stale, parts, staged, object, late, pr>>
table == <<active, born, stale, parts, late>>

---------------------------------------------------------------------------

(* Some parts and the ETag (the content) of each: the list in the request of *)
(* a completion, or the parts whose MD5s are hashed in part order.          *)
PartList == UNION {[S -> Chunk]: S \in SUBSET PartNum}

(* The ETag of a completed upload is the MD5 of the MD5s of its parts, with  *)
(* their number appended.                                                    *)
Composite(ps, n) == <<"md5 of md5s", ps, n>>
ETags == {"md5 of md5s"} \X PartList \X Nat

(* A process holds the upload it works on, the parts it still has to handle  *)
(* (an aborter, those it found), those it deleted, the part it is at, what   *)
(* it read or uploads, the ETag it will answer with, the uploads that are    *)
(* left of a collector's pass and the status it answered.                    *)
Process ==
  [pc: {"idle", "stage", "record", "open", "etag", "clean", "abort",
        "collect", "sweep", "done"},
   up: Uploads \cup {None},
   todo: SUBSET PartNum,
   seen: SUBSET PartNum,
   num: Nat,
   body: Seq(Chunk),
   etag: ETags \cup {None},
   ups: SUBSET Uploads,
   status: {0, 200, 204, 400, 404, 500}]

Handler(pc, u, todo, n, body) ==
  [pc |-> pc, up |-> u, todo |-> todo, seen |-> {}, num |-> n, body |-> body,
   etag |-> None, ups |-> {}, status |-> 0]

Idle == Handler("idle", None, {}, 0, <<>>)

TypeOK ==
  /\ active \subseteq born /\ born \subseteq Uploads /\ stale \subseteq born
  /\ parts \in [Uploads -> [PartNum -> Chunk \cup {None}]]
  /\ staged \in [Uploads -> [PartNum -> Chunk \cup {None, Torn}]]
  /\ object \in Seq(Chunk) \cup {None, Torn}
  /\ late \subseteq Uploads
  /\ pr \in [Procs -> Process]

NoParts == [n \in PartNum |-> None]

Init ==
  /\ active = {} /\ born = {} /\ stale = {}
  /\ parts = [u \in Uploads |-> NoParts]
  /\ staged = [u \in Uploads |-> NoParts]
  /\ object = None
  /\ late = {}
  /\ pr = [p \in Procs |-> Idle]

At(p, pc) == pr[p].pc = pc
Become(p, r) == pr' = [pr EXCEPT ![p] = r]
Goto(p, pc) == pr' = [pr EXCEPT ![p].pc = pc]

Answer(p, u, status) ==
  Become(p, [Handler("done", u, {}, 0, <<>>) EXCEPT !.status = status])

Recorded(u) == {n \in PartNum: parts[u][n] # None}
Staged(u) == {n \in PartNum: staged[u][n] # None}
Readable(u) == {n \in PartNum: staged[u][n] \notin {None, Torn}}

(* len(upload.Parts), read again by every loop over the parts *)
Count(u) == Cardinality(Recorded(u))

Busy(p) == pr[p].pc \notin {"idle", "done"}

(* A client that does not overlap its requests starts an upload of a part   *)
(* only while it does not end the upload and the same part is not under way, *)
(* and ends it only while no part is under way.  The collector asks nobody.  *)
MayUpload(u, n) ==
  Overlap \/ /\ \A q \in Completers \cup Aborters: pr[q].up = u => ~Busy(q)
             /\ \A q \in Uploaders: pr[q].up = u /\ pr[q].num = n => ~Busy(q)
MayEnd(u) == Overlap \/ \A q \in Uploaders: pr[q].up = u => ~Busy(q)

Drop(u, n) == staged' = [staged EXCEPT ![u][n] = None]

(* What a Put that fails leaves in place of an object: the old one; neither, *)
(* when the new shard was removed again or has no manifest; or the new shard  *)
(* beside the old manifest, when it could not be removed.                    *)
FailedPut(old, new) == {old, Torn, new}

(* Delete of a staged part: its error is ignored, and it may have removed    *)
(* half of the object.                                                       *)
DeletePart(u, n) ==
  \/ Drop(u, n)
  \/ IOFaults /\ UNCHANGED staged
  \/ IOFaults /\ n \in Staged(u) /\ staged' = [staged EXCEPT ![u][n] = Torn]

---------------------------------------------------------------------------
(* handleInitiateMultipartUpload, on a bucket that exists *)
Initiate(p) ==
  /\ At(p, "idle")
  /\ \E u \in Uploads \ born:
       /\ active' = active \cup {u}
       /\ born' = born \cup {u}
       /\ Answer(p, u, 200)
  /\ UNCHANGED <<stale, parts, staged, object, late>>

(* handleUploadPart: GetMultipartUpload, Put in the staging bucket, PutPart *)
UploadBegin(p) ==
  /\ At(p, "idle")
  /\ \E u \in born, n \in PartNum, c \in Chunk:
       /\ MayUpload(u, n)
       /\ IF u \in active THEN Become(p, Handler("stage", u, {}, n, <<c>>))
                          ELSE Answer(p, u, 404)
  /\ UNCHANGED <<table, staged, object>>

(* A collector is at work on what it found of the upload. *)
Swept(u) == \E q \in Collectors: pr[q].up = u /\ At(q, "sweep")

UploadStage(p) ==
  LET u == pr[p].up
      n == pr[p].num
      c == pr[p].body[1]
  IN  /\ At(p, "stage")
      /\ \/ /\ staged' = [staged EXCEPT ![u][n] = c]
            /\ Goto(p, "record")
         \/ /\ IOFaults
            /\ \E left \in FailedPut(staged[u][n], c):
                 staged' = [staged EXCEPT ![u][n] = left]
            /\ Answer(p, u, 500)
      /\ late' = late \cup {v \in {u}: v \notin active \/ Swept(v)}
      /\ UNCHANGED <<active, born, stale, parts, object>>

UploadRecord(p) ==
  /\ At(p, "record")
  /\ IF pr[p].up \in active
     THEN /\ parts' = [parts EXCEPT ![pr[p].up][pr[p].num] = pr[p].body[1]]
          /\ Answer(p, pr[p].up, 200)
     ELSE Answer(p, pr[p].up, 500) /\ UNCHANGED parts
  /\ UNCHANGED <<active, born, stale, staged, object, late>>

---------------------------------------------------------------------------
(* handleCompleteMultipartUpload *)

Matches(u, req) == \A n \in DOMAIN req: parts[u][n] = req[n]

TooSmall(req) ==
  LET nums == DOMAIN req
      total == MapThenSumSet(LAMBDA n: Size[req[n]], nums)
  IN  /\ Cardinality(nums) > 1
      /\ total >= MinPart
      /\ \E n \in nums: Size[req[n]] < MinPart /\ \E m \in nums: m > n

CompleteLoad(p) ==
  /\ At(p, "idle")
  /\ \E u \in born, req \in PartList:
       /\ MayEnd(u)
       /\ IF u \notin active THEN Answer(p, u, 404)
          ELSE IF ~Matches(u, req) \/ TooSmall(req) THEN Answer(p, u, 400)
          ELSE Become(p, Handler("open", u, {}, 0, <<>>))
  /\ UNCHANGED <<table, staged, object>>

(* Variant: the error of Get is not looked at *)
CompleteOpenUnchecked(p) ==
  LET r == pr[p]
      i == Len(r.body) + 1
  IN  /\ At(p, "open")
      /\ i <= Count(r.up)
      /\ Become(p, [r EXCEPT !.body = Append(@, staged[r.up][i])])
      /\ UNCHANGED <<table, staged, object>>

(* Variant: a failed completion removes the staged parts *)
CompleteOpenCleans(p) ==
  LET r == pr[p]
      i == Len(r.body) + 1
  IN  /\ At(p, "open")
      /\ i <= Count(r.up)
      /\ \/ /\ i \notin Readable(r.up) \/ IOFaults
            /\ Answer(p, r.up, 500)
            /\ staged' = [staged EXCEPT ![r.up] = NoParts]
         \/ /\ i \in Readable(r.up)
            /\ Become(p, [r EXCEPT !.body = Append(@, staged[r.up][i])])
            /\ UNCHANGED staged
      /\ UNCHANGED <<table, object>>

(* Opens part i of i = 1..len(upload.Parts), requested or not. *)
CompleteOpen(p) ==
  LET r == pr[p]
      i == Len(r.body) + 1
  IN  /\ At(p, "open")
      /\ i <= Count(r.up)
      /\ IF i \notin Readable(r.up) THEN Answer(p, r.up, 500)
         ELSE \/ Become(p, [r EXCEPT !.body = Append(@, staged[r.up][i])])
              \/ IOFaults /\ Answer(p, r.up, 500)
      /\ UNCHANGED <<table, staged, object>>

(* Variant: the parts are i = 1..len(upload.Parts)-1 *)
CompleteWriteShort(p) ==
  /\ At(p, "open")
  /\ Len(pr[p].body) >= Count(pr[p].up) - 1
  /\ \/ object' = pr[p].body /\ Goto(p, "etag")
     \/ IOFaults /\ Answer(p, pr[p].up, 500) /\ object' \in FailedPut(object, pr[p].body)
  /\ UNCHANGED <<table, staged>>

(* Put of the final object from the open parts *)
CompleteWrite(p) ==
  /\ At(p, "open")
  /\ Len(pr[p].body) >= Count(pr[p].up)
  /\ \/ object' = pr[p].body /\ Goto(p, "etag")
     \/ IOFaults /\ Answer(p, pr[p].up, 500) /\ object' \in FailedPut(object, pr[p].body)
  /\ UNCHANGED <<table, staged>>

(* The ETags of those of the parts i = 1..len(upload.Parts) that are recorded, *)
(* in part order, and how many parts there are.                             *)
MultipartETag(u) ==
  Composite([i \in Recorded(u) \cap 1..Count(u) |-> parts[u][i]], Count(u))

CompleteETag(p) ==
  /\ At(p, "etag")
  /\ Become(p, [pr[p] EXCEPT !.etag = MultipartETag(pr[p].up),
                             !.pc = "clean", !.num = 1])
  /\ UNCHANGED <<table, staged, object>>

CompleteClean(p) ==
  /\ At(p, "clean")
  /\ pr[p].num <= Count(pr[p].up)
  /\ DeletePart(pr[p].up, pr[p].num)
  /\ pr' = [pr EXCEPT ![p].num = @ + 1]
  /\ UNCHANGED <<table, object>>

(* CompleteMultipartUpload of the store *)
CompleteEnd(p) ==
  /\ active' = active \ {pr[p].up}
  /\ IF pr[p].up \in active
     THEN Become(p, [pr[p] EXCEPT !.pc = "done", !.status = 200])
     ELSE Answer(p, pr[p].up, 500)

(* Variant: the clean-up stops one part early *)
CompleteCommitEarly(p) ==
  /\ At(p, "clean")
  /\ pr[p].num >= Count(pr[p].up)
  /\ CompleteEnd(p)
  /\ UNCHANGED <<born, stale, parts, staged, object, late>>

CompleteCommit(p) ==
  /\ At(p, "clean")
  /\ pr[p].num > Count(pr[p].up)
  /\ CompleteEnd(p)
  /\ UNCHANGED <<born, stale, parts, staged, object, late>>

---------------------------------------------------------------------------
(* handleAbortMultipartUpload: the range over the map of parts may or may    *)
(* not see a part that is recorded while it runs.                           *)
AbortLoad(p) ==
  /\ At(p, "idle")
  /\ \E u \in born:
       /\ MayEnd(u)
       /\ IF u \in active THEN Become(p, Handler("abort", u, Recorded(u), 0, <<>>))
                          ELSE Answer(p, u, 404)
  /\ UNCHANGED <<table, staged, object>>

AbortDelete(p) ==
  /\ At(p, "abort")
  /\ \E n \in Recorded(pr[p].up) \ pr[p].seen:
       /\ DeletePart(pr[p].up, n)
       /\ pr' = [pr EXCEPT ![p].seen = @ \cup {n}]
  /\ UNCHANGED <<table, object>>

(* Variant: an upload that is gone counts as aborted *)
AbortCommitAlways(p) ==
  /\ At(p, "abort")
  /\ pr[p].todo \subseteq pr[p].seen
  /\ active' = active \ {pr[p].up}
  /\ Answer(p, pr[p].up, 204)
  /\ UNCHANGED <<born, stale, parts, staged, object, late>>

AbortCommit(p) ==
  /\ At(p, "abort")
  /\ pr[p].todo \subseteq pr[p].seen
  /\ active' = active \ {pr[p].up}
  /\ Answer(p, pr[p].up, IF pr[p].up \in active THEN 204 ELSE 500)
  /\ UNCHANGED <<born, stale, parts, staged, object, late>>

---------------------------------------------------------------------------
(* RunMultipartGC.  ListMultipartUploads copies the table; each stale upload *)
(* of the copy is taken in turn: list its staged parts, delete those, abort. *)
Age(u) ==
  /\ u \in born \ stale
  /\ stale' = stale \cup {u}
  /\ UNCHANGED <<active, born, parts, staged, object, late, pr>>

(* Variant: uploads without a recorded part are passed over *)
GCBeginWithParts(p) ==
  LET ups == {u \in active \cap stale: Recorded(u) # {}} IN
  /\ At(p, "idle")
  /\ ups # {}
  /\ Become(p, [Idle EXCEPT !.pc = "collect", !.ups = ups])
  /\ UNCHANGED <<table, staged, object>>

GCBegin(p) ==
  /\ At(p, "idle")
  /\ active \cap stale # {}
  /\ Become(p, [Idle EXCEPT !.pc = "collect", !.ups = active \cap stale])
  /\ UNCHANGED <<table, staged, object>>

(* The walk of the listing is not a snapshot: a file of the prefix that goes *)
(* away under it (a part another process deletes, the temp file of a part    *)
(* under way) makes LocalFS.List answer with no objects and no error.  When  *)
(* List fails the pass goes on to abort the upload.  A part that cannot be   *)
(* read is not listed.  The pages of a long listing are one.                 *)
Disturbed(u, p) ==
  \E q \in Procs \ {p}:
    pr[q].up = u /\ pr[q].pc \in {"stage", "clean", "abort", "sweep"}

GCList(p) ==
  /\ At(p, "collect")
  /\ \E u \in pr[p].ups:
       \E found \in {Readable(u)} \cup
                   (IF Disturbed(u, p) \/ IOFaults THEN {{}} ELSE {}):
         Become(p, [pr[p] EXCEPT !.pc = "sweep", !.up = u, !.todo = found,
                                 !.ups = @ \ {u}])
  /\ UNCHANGED <<table, staged, object>>

GCDelete(p) ==
  /\ At(p, "sweep")
  /\ \E n \in pr[p].todo:
       /\ DeletePart(pr[p].up, n)
       /\ pr' = [pr EXCEPT ![p].todo = @ \ {n}]
  /\ UNCHANGED <<table, object>>

(* The error of an upload that is already gone is ignored. *)
GCAbort(p) ==
  /\ At(p, "sweep")
  /\ pr[p].todo = {}
  /\ active' = active \ {pr[p].up}
  /\ LET status == IF pr[p].up \in active THEN 204 ELSE 404 IN
     IF pr[p].ups = {} THEN Answer(p, pr[p].up, status)
                       ELSE Goto(p, "collect")
  /\ UNCHANGED <<born, stale, parts, staged, object, late>>

---------------------------------------------------------------------------
Return(p) ==
  /\ At(p, "done")
  /\ Become(p, Idle)
  /\ UNCHANGED <<table, staged, object>>

(* The process is killed and restarted: the table lives in memory only. *)
Crash ==
  /\ Crashes
  /\ active' = {}
  /\ parts' = [u \in Uploads |-> NoParts]
  /\ pr' = [p \in Procs |-> Idle]
  /\ UNCHANGED <<born, stale, staged, object, late>>

Step(p) ==
  \/ p \in Initiators /\ Initiate(p)
  \/ p \in Uploaders /\ (UploadBegin(p) \/ UploadStage(p) \/ UploadRecord(p))
  \/ p \in Completers /\
       (CompleteLoad(p) \/ CompleteOpen(p) \/ CompleteWrite(p)
          \/ CompleteETag(p) \/ CompleteClean(p) \/ CompleteCommit(p))
  \/ p \in Aborters /\ (AbortLoad(p) \/ AbortDelete(p) \/ AbortCommit(p))
  \/ p \in Collectors /\ (GCBegin(p) \/ GCList(p) \/ GCDelete(p) \/ GCAbort(p))
  \/ Return(p)

Next ==
  \/ \E p \in Procs: Step(p)
  \/ \E u \in Uploads: Age(u)
  \/ Crash

Spec == Init /\ [][Next]_vars

(* With gc.enabled the timer loop runs pass after pass; time passes; a       *)
(* handler that was entered runs to its end.                                *)
FairSpec ==
  /\ Spec
  /\ \A u \in Uploads: WF_vars(Age(u))
  /\ \A p \in Collectors: WF_vars(Step(p))
  /\ \A p \in Procs: WF_vars(Busy(p) /\ Step(p))

---------------------------------------------------------------------------
(* Properties *)

EndedBy(p, u) ==
  /\ pr[p].up = u
  /\ At(p, "done")
  /\ pr[p].status = IF p \in Completers THEN 200 ELSE 204

(* An upload is ended at most once: of all the completions, aborts and GC    *)
(* passes that run against it, however they interleave, at most one is told  *)
(* that it ended the upload, and then the upload is out of the table.        *)
(* (CompleteMultipartUpload and AbortMultipartUpload of the store answer     *)
(* ErrUploadNotFound to the others.)                                         *)
EndedOnce ==
  \A p, q \in Enders: \A u \in Uploads:
    EndedBy(p, u) => u \notin active /\ (EndedBy(q, u) => p = q)

EndsUpload(p, u) ==
  pr[p].up = u /\ pr[p].pc \in {"clean", "abort", "sweep"}

(* As long as an upload is in the table, every part a client was told is     *)
(* recorded can be read from the staging bucket, unless a handler that will  *)
(* take the upload out of the table is at work on it: a completion that      *)
(* fails before it wrote the object leaves every part where it was, so that  *)
(* the client may try again.  The one other exception: an upload of the same *)
(* part that failed in the store may have taken the old part's shard with it *)
(* (LocalFS.Put removes the shard it renamed over the old one).              *)
RecordedPartsStaged ==
  \A u \in active: \A n \in Recorded(u):
    \/ n \in Readable(u)
    \/ IOFaults /\ staged[u][n] = Torn
    \/ \E p \in Enders: EndsUpload(p, u)

(* When the clients do not overlap their requests, an upload that left the   *)
(* table leaves no staged part behind once the handlers that worked on it    *)
(* are through (README.md, Notes: "cleaned up on complete/abort"), unless a  *)
(* part was still on its way when a collector listed the upload: the         *)
(* collector waits for nobody, and nothing removes that part.                *)
NoOrphanParts ==
  \A u \in born \ (active \cup late):
    Staged(u) # {} => \E p \in Procs: pr[p].up = u /\ Busy(p)

(* A completion answered with 200 wrote the chunks its ETag names: the part  *)
(* ETags, in part order, of exactly the parts it assembled, although it      *)
(* reads the recorded parts, the staged objects and the recorded parts again *)
(* at different times.                                                       *)
ETagNamesBody ==
  \A p \in Completers:
    At(p, "done") /\ pr[p].status = 200 =>
      pr[p].etag = Composite(pr[p].body, Len(pr[p].body))

(* With the collector running, every upload eventually leaves the table and  *)
(* its staged parts leave the disk, without another request of its clients,  *)
(* unless a part arrived after the collector had listed the upload.          *)
EventuallyReclaimed ==
  \A u \in Uploads:
    (u \in active) ~> (u \notin active /\ (Staged(u) = {} \/ u \in late))
=============================================================================
