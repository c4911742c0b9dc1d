------------------------------ MODULE Buckets ------------------------------
(***************************************************************************)
(* One bucket name: its entry in the metadata store, the objects under      *)
(* objects/<bucket>, and the active multipart uploads that name it.  Each   *)
(* handler checks one of the three and then changes another, with no lock   *)
(* held over its steps.  A Put or Delete of an object is one step here (its *)
(* inside is in SealedObject), and so are the parts of an upload (they are  *)
(* in Multipart).                                                           *)
(***************************************************************************)
EXTENDS Integers, FiniteSets

CONSTANTS Creators,   \* handlers of PUT /bucket
          Removers,   \* handlers of DELETE /bucket
          Writers,    \* handlers of PUT and DELETE /bucket/key
          Initiators, \* handlers of POST /bucket/key?uploads
          Enders,     \* handlers that complete or abort an upload
          Keys,       \* object keys
          Internal,   \* the keys that begin with ".multipart/"
          Uploads,    \* upload ids the store will generate
          Crashes,    \* may the process be killed and restarted
          None        \* no key, no upload

ASSUME SwitchAssumption == Crashes \in BOOLEAN
ASSUME InternalAssumption == Internal \subseteq Keys
ASSUME NoneAssumption == None \notin Keys \cup Uploads

Procs == Creators \cup Removers \cup Writers \cup Initiators \cup Enders

VARIABLES serial,   \* is there one client only, who waits for each answer
          exists,   \* is the bucket in MemoryStore.buckets
          objects,  \* the keys with an object under objects/<bucket>
          litter,   \* did a kill leave temp files of PUTs among them
          uploads,  \* the active uploads that name the bucket
          born,     \* the upload ids generated so far
          acked,    \* history: keys whose last answered request was a PUT
          held,     \* history, for each remover: the keys that were there,
                    \* their PUT answered, ever since its request began
          pr        \* what each handler is doing

vars == <<serial, exists, objects, litter, uploads, born, acked, held, pr>>
files == <<objects, litter, acked, held>>
store == <<exists, uploads, born>>

PCs == {"idle", "create", "count", "empty", "remove", "removeAll", "unlist",
        "put", "initiate", "write", "complete", "done"}
Args == Keys \cup Uploads \cup {None}
Statuses == {0, 200, 204, 404, 409, 500}

Process == [pc: PCs, arg: Args, status: Statuses]
Idle == [pc |-> "idle", arg |-> None, status |-> 0]

TypeOK ==
  /\ serial \in BOOLEAN
  /\ exists \in BOOLEAN /\ litter \in BOOLEAN
  /\ objects \subseteq Keys /\ acked \subseteq Keys
  /\ held \in [Removers -> SUBSET Keys]
  /\ uploads \subseteq born /\ born \subseteq Uploads
  /\ pr \in [Procs -> Process]

Init ==
  /\ serial \in BOOLEAN
  /\ exists = FALSE /\ litter = FALSE
  /\ objects = {} /\ acked = {}
  /\ held = [p \in Removers |-> {}]
  /\ uploads = {} /\ born = {}
  /\ pr = [p \in Procs |-> Idle]

At(p, pc) == pr[p].pc = pc
Become(p, pc, arg, status) ==
  pr' = [pr EXCEPT ![p] = [pc |-> pc, arg |-> arg, status |-> status]]
Goto(p, pc) == Become(p, pc, pr[p].arg, 0)
Answer(p, status) == Become(p, "done", pr[p].arg, status)

(* A single client sends its next request after the answer to the last. *)
MayBegin(p) == At(p, "idle") /\ (serial => \A q \in Procs: At(q, "idle"))

---------------------------------------------------------------------------
(* handleCreateBucket *)
CreateCheck(p) ==
  /\ MayBegin(p)
  /\ IF exists THEN Answer(p, 409) ELSE Goto(p, "create")
  /\ UNCHANGED <<store, files>>

(* store.CreateBucket: ErrBucketExists becomes a 500. *)
CreateCommit(p) ==
  /\ At(p, "create")
  /\ exists' = TRUE
  /\ Answer(p, IF exists THEN 500 ELSE 200)
  /\ UNCHANGED <<uploads, born, files>>

---------------------------------------------------------------------------
(* handleDeleteBucket *)
RemoveCheck(p) ==
  /\ MayBegin(p)
  /\ IF exists THEN Goto(p, "count") ELSE Answer(p, 404)
  /\ held' = [held EXCEPT ![p] = acked \cap objects]
  /\ UNCHANGED <<store, objects, litter, acked>>

(* Variant: no guard against active uploads *)
RemoveCountNot(p) ==
  /\ At(p, "count")
  /\ Goto(p, "empty")
  /\ UNCHANGED <<store, files>>

RemoveCount(p) ==
  /\ At(p, "count")
  /\ IF uploads = {} THEN Goto(p, "empty") ELSE Answer(p, 409)
  /\ UNCHANGED <<store, files>>

(* PUTs under way, which may have a temp file in the tree.  The walk of       *)
(* IsBucketEmpty takes it for an object, or fails when it goes away under it. *)
Writing ==
  \/ \E q \in Writers: At(q, "put") /\ pr[q].arg \notin Internal
  \/ \E q \in Enders: At(q, "write")

(* Variant: an error of the walk counts as empty *)
IsBucketEmptyOnError == (objects \subseteq Internal /\ ~litter) \/ Writing

(* The walk skips the directory .multipart of the bucket. *)
IsBucketEmpty == objects \subseteq Internal /\ ~litter

(* A check of DELETE: what the walk finds, or finds of a PUT under way *)
CheckEmpty(p, next, refusal) ==
  \/ IsBucketEmpty /\ Goto(p, next)
  \/ (~IsBucketEmpty \/ Writing) /\ Answer(p, refusal)
  \/ Writing /\ Answer(p, 500)

RemoveEmpty(p) ==
  /\ At(p, "empty")
  /\ CheckEmpty(p, "remove", 409)
  /\ UNCHANGED <<store, files>>

(* RemoveBucket: IsBucketEmpty once more, then RemoveAll *)
RemoveAgain(p) ==
  /\ At(p, "remove")
  /\ CheckEmpty(p, "removeAll", 500)
  /\ UNCHANGED <<store, files>>

RemoveTree(p) ==
  /\ At(p, "removeAll")
  /\ objects' = {} /\ litter' = FALSE
  /\ held' = [q \in Removers |-> {}]
  /\ Goto(p, "unlist")
  /\ UNCHANGED <<store, acked>>

(* RemoveAll fails at a directory that the disk keeps or that a PUT fills    *)
(* again: part of the tree is gone, and the bucket stays in the table.       *)
RemoveTreeFails(p) ==
  /\ At(p, "removeAll")
  /\ objects' \in SUBSET objects
  /\ litter' \in {litter, FALSE}
  /\ held' = [q \in Removers |-> held[q] \cap objects']
  /\ Answer(p, 500)
  /\ UNCHANGED <<store, acked>>

(* store.DeleteBucket: its error is logged and ignored. *)
RemoveUnlist(p) ==
  /\ At(p, "unlist")
  /\ exists' = FALSE
  /\ Answer(p, 204)
  /\ UNCHANGED <<uploads, born, files>>

---------------------------------------------------------------------------
(* handleObject: only PUT looks at the bucket. *)
PutCheck(p) ==
  /\ MayBegin(p)
  /\ \E k \in Keys:
       IF exists THEN Become(p, "put", k, 0) ELSE Become(p, "done", k, 404)
  /\ UNCHANGED <<store, files>>

PutObject(p) ==
  /\ At(p, "put")
  /\ objects' = objects \cup {pr[p].arg}
  /\ acked' = acked \cup {pr[p].arg}
  /\ Answer(p, 200)
  /\ UNCHANGED <<store, litter, held>>

(* Its body ends early, or its directory went with the bucket.  What a failed *)
(* overwrite does to the object that was there is in SealedObject.           *)
PutFails(p) ==
  /\ At(p, "put")
  /\ Answer(p, 500)
  /\ UNCHANGED <<store, files>>

DeleteObject(p) ==
  /\ MayBegin(p)
  /\ \E k \in Keys:
       /\ objects' = objects \ {k}
       /\ acked' = acked \ {k}
       /\ held' = [q \in Removers |-> held[q] \ {k}]
       /\ Become(p, "done", k, 204)
  /\ UNCHANGED <<store, litter>>

(* A listing shows a temp file that was left as an object: a client can      *)
(* delete it.                                                               *)
DeleteLitter(p) ==
  /\ MayBegin(p) /\ litter
  /\ litter' = FALSE
  /\ Become(p, "done", None, 204)
  /\ UNCHANGED <<store, objects, acked, held>>

---------------------------------------------------------------------------
(* handleInitiateMultipartUpload *)
InitiateCheck(p) ==
  /\ MayBegin(p) /\ born # Uploads
  /\ IF exists THEN Goto(p, "initiate") ELSE Answer(p, 404)
  /\ UNCHANGED <<store, files>>

(* Variant: the upload goes into the table under an id given out before *)
InitiateCommitStaleId(p) ==
  /\ At(p, "initiate")
  /\ \E u \in Uploads:
       /\ uploads' = uploads \cup {u}
       /\ Become(p, "done", u, 200)
  /\ UNCHANGED <<exists, born, files>>

InitiateCommit(p) ==
  /\ At(p, "initiate")
  /\ \E u \in Uploads \ born:
       /\ uploads' = uploads \cup {u}
       /\ born' = born \cup {u}
       /\ Become(p, "done", u, 200)
  /\ UNCHANGED <<exists, files>>

(* handleCompleteMultipartUpload, which never looks at the bucket *)
CompleteBegin(p) ==
  /\ MayBegin(p)
  /\ \E u \in born:
       IF u \in uploads THEN Become(p, "write", u, 0) ELSE Become(p, "done", u, 404)
  /\ UNCHANGED <<store, files>>

CompleteWrite(p) ==
  /\ At(p, "write")
  /\ \E k \in Keys:
       /\ objects' = objects \cup {k}
       /\ acked' = acked \cup {k}
  /\ Goto(p, "complete")
  /\ UNCHANGED <<store, litter, held>>

CompleteFails(p) ==
  /\ At(p, "write")
  /\ Answer(p, 500)
  /\ UNCHANGED <<store, files>>

CompleteCommit(p) ==
  /\ At(p, "complete")
  /\ uploads' = uploads \ {pr[p].arg}
  /\ Answer(p, IF pr[p].arg \in uploads THEN 200 ELSE 500)
  /\ UNCHANGED <<exists, born, files>>

(* handleAbortMultipartUpload, and the abort of a garbage collection *)
Abort(p) ==
  /\ MayBegin(p)
  /\ \E u \in born:
       /\ uploads' = uploads \ {u}
       /\ Become(p, "done", u, IF u \in uploads THEN 204 ELSE 404)
  /\ UNCHANGED <<exists, born, files>>

---------------------------------------------------------------------------
Return(p) ==
  /\ At(p, "done")
  /\ pr' = [pr EXCEPT ![p] = Idle]
  /\ UNCHANGED <<store, files>>

(* Buckets and uploads live in memory only, objects and temp files on disk.  *)
Crash ==
  /\ Crashes /\ ~serial
  /\ exists' = FALSE /\ uploads' = {}
  /\ litter' \in {litter, litter \/ Writing}
  /\ pr' = [p \in Procs |-> Idle]
  /\ UNCHANGED <<born, objects, acked, held>>

Step(p) ==
  \/ p \in Creators /\ (CreateCheck(p) \/ CreateCommit(p))
  \/ p \in Removers /\
       (RemoveCheck(p) \/ RemoveCount(p) \/ RemoveEmpty(p) \/ RemoveAgain(p)
          \/ RemoveTree(p) \/ RemoveTreeFails(p) \/ RemoveUnlist(p))
  \/ p \in Writers /\
       (PutCheck(p) \/ PutObject(p) \/ PutFails(p) \/ DeleteObject(p) \/ DeleteLitter(p))
  \/ p \in Initiators /\ (InitiateCheck(p) \/ InitiateCommit(p))
  \/ p \in Enders /\
       (CompleteBegin(p) \/ CompleteWrite(p) \/ CompleteFails(p) \/ CompleteCommit(p)
          \/ Abort(p))
  \/ Return(p)

Next == (Crash \/ \E p \in Procs: Step(p)) /\ UNCHANGED serial

Spec == Init /\ [][Next]_vars

---------------------------------------------------------------------------
(* Properties *)

AtRest == \A p \in Procs: pr[p].pc \in {"idle", "done"}

(* Deleting a bucket never removes an object whose PUT was answered before   *)
(* the request to delete the bucket began, whoever else creates, deletes and *)
(* writes meanwhile; keys under ".multipart/" excepted.                      *)
EarlierPutsSurvive ==
  [][\A p \in Removers: pr[p].pc = "removeAll" /\ pr'[p].pc \in {"unlist", "done"}
       => held[p] \cap objects \subseteq Internal]_vars

(* For one client: a bucket that is not there has no objects and no uploads, *)
(* and an object whose PUT was answered is there, through any sequence of    *)
(* requests without a restart, which empties the table of buckets (an upload *)
(* begun before DELETE must not end after it).  Objects under ".multipart/"  *)
(* go with their bucket: the emptiness check skips them.                     *)
GoneMeansEmpty ==
  serial /\ AtRest =>
    /\ ~exists => objects = {} /\ uploads = {}
    /\ acked \ Internal \subseteq objects /\ objects \subseteq acked

=============================================================================
