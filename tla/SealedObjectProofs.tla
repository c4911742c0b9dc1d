------------------------ MODULE SealedObjectProofs ------------------------
(***************************************************************************)
(* What is proved of SealedObject for every set of handlers, workers and     *)
(* scrubbers, every set of payloads and every switch of the environment.     *)
(***************************************************************************)
EXTENDS SealedObject, SequenceTheorems, TLAPS

(* Expanded everywhere: abbreviations of updates *)
USE DEF At, Goto, Finish, Quit, files

(* A rotten payload is still a sequence of bytes. *)
LEMMA RottenPayload ==
  ASSUME NEW n \in Nat, NEW q \in [1..n -> Byte]
  PROVE  q \in Seq(Byte)
BY SeqDef

(* The prefix the rewriter copies is a sequence of bytes. *)
LEMMA CopiedPrefix ==
  ASSUME NEW p \in Seq(Byte), NEW n \in Nat, Len(p) >= n
  PROVE  SubSeq(p, 1, n) \in Seq(Byte)
<1>1. \A i \in 1..n: p[i] \in Byte
  BY ElementOfSeq
<1>2. QED
  BY <1>1, SubSeqProperties

(* Sealing a payload gives a shard, describing it gives a manifest. *)
LEMMA SealedType ==
  ASSUME NEW p \in Seq(Byte)
  PROVE  Sealed(p) \in Shard /\ ManifestOf(p) \in Manifest
BY LenProperties DEF Sealed, ManifestOf, Shard, Manifest, Sha256, MD5

LEMMA ResealType ==
  ASSUME NEW m \in Manifest, NEW p \in Seq(Byte)
  PROVE  Reseal(m, p) \in Manifest
BY DEF Reseal, Manifest, Sha256

LEMMA ReplyType ==
  ASSUME NEW op \in {"put", "get", "head", "delete"},
         NEW status \in {200, 204, 404, 500},
         NEW etag \in ({"md5"} \X Seq(Byte)) \cup {None},
         NEW body \in Seq(Byte) \cup {None}
  PROVE  Reply(op, status, etag, body) \in Response
BY DEF Reply, Response

LEMMA IdleType == Idle \in Process
BY DEF Idle, Doing, Process

LEMMA DoneType ==
  ASSUME NEW r \in Response
  PROVE  Done(r) \in Process
BY DEF Done, Process

(* A step of one process leaves the others as they are. *)
LEMMA OneProcess ==
  ASSUME SoundInv, NEW p \in Procs, NEW s \in Process, ProcessSound(s),
         pr' = [pr EXCEPT ![p] = s]
  PROVE  pr' \in [Procs -> Process] /\ \A q \in Procs: ProcessSound(pr'[q])
BY DEF SoundInv, TypeOK

(* The next record of a process that only moves its pc. *)
LEMMA MovedType ==
  ASSUME NEW s \in Process,
         NEW pc \in {"idle", "done"} \cup PutPCs \cup SavePCs \cup ReadPCs
                     \cup DeletePCs \cup RepairPCs \cup ScrubPCs
  PROVE  /\ [s EXCEPT !.pc = pc] \in Process
         /\ [s EXCEPT !.pc = pc].pc = pc
         /\ [s EXCEPT !.pc = pc].payload = s.payload
         /\ [s EXCEPT !.pc = pc].man = s.man
         /\ [s EXCEPT !.pc = pc].resp = s.resp
BY DEF Process

(* The records Idle and Done(r) hold no manifest and no payload. *)
LEMMA IdleSound == Idle \in Process /\ ProcessSound(Idle)
BY IdleType DEF Idle, Doing, ProcessSound, ReadSound, SavePCs, ReadPCs, RepairPCs, ScrubPCs

LEMMA DoneSound ==
  ASSUME NEW r \in Response, ReadSound(r)
  PROVE  Done(r) \in Process /\ ProcessSound(Done(r))
<1>1. Done(r).pc = "done" /\ Done(r).man = None /\ Done(r).resp = r
  BY DEF Done
<1>2. QED
  BY <1>1, DoneType DEF ProcessSound, SavePCs, ReadPCs, RepairPCs, ScrubPCs

(* An answer that is no successful GET needs no care. *)
LEMMA PlainReply ==
  ASSUME NEW op \in {"put", "get", "head", "delete"},
         NEW status \in {200, 204, 404, 500},
         NEW etag \in ({"md5"} \X Seq(Byte)) \cup {None},
         NEW body \in Seq(Byte) \cup {None},
         op # "get" \/ status # 200
  PROVE  /\ Reply(op, status, etag, body) \in Response
         /\ ReadSound(Reply(op, status, etag, body))
BY ReplyType DEF Reply, ReadSound

LEMMA FailureReply ==
  \A op \in {"put", "get", "head", "delete"}, status \in {204, 404, 500}:
    /\ Reply(op, status, None, None) \in Response
    /\ ReadSound(Reply(op, status, None, None))
BY PlainReply

(* Finishing with a sound answer, quitting and moving on keep the processes   *)
(* sound.                                                                   *)
LEMMA FinishSound ==
  ASSUME SoundInv, NEW p \in Procs, NEW r \in Response, ReadSound(r), Finish(p, r)
  PROVE  pr' \in [Procs -> Process] /\ \A q \in Procs: ProcessSound(pr'[q])
BY DoneSound, OneProcess

LEMMA QuitSound ==
  ASSUME SoundInv, NEW p \in Procs, Quit(p)
  PROVE  pr' \in [Procs -> Process] /\ \A q \in Procs: ProcessSound(pr'[q])
BY IdleSound, OneProcess

LEMMA GotoSound ==
  ASSUME SoundInv, NEW p \in Procs,
         NEW pc \in PutPCs \cup SavePCs \cup DeletePCs,
         pc \in SavePCs => pr[p].man # None,
         pc \in {"mkdir", "writing"} => pr[p].payload \in Contents,
         Goto(p, pc)
  PROVE  pr' \in [Procs -> Process] /\ \A q \in Procs: ProcessSound(pr'[q])
<1> DEFINE s == [pr[p] EXCEPT !.pc = pc]
<1>1. pr[p] \in Process /\ ProcessSound(pr[p])
  BY DEF SoundInv, TypeOK
<1>2. /\ s \in Process /\ s.pc = pc /\ s.payload = pr[p].payload
      /\ s.man = pr[p].man /\ s.resp = pr[p].resp
  BY <1>1, MovedType
<1>3. ProcessSound(s)
  BY <1>1, <1>2 DEF ProcessSound, PutPCs, SavePCs, DeletePCs, ReadPCs, RepairPCs, ScrubPCs
<1>4. QED
  BY <1>2, <1>3, OneProcess

(* A fresh record for a process that starts with a manifest just loaded *)
LEMMA LoadedSound ==
  ASSUME SoundInv, manifest # None, NEW p \in Procs,
         NEW pc \in ReadPCs \cup {"delData", "loaded"} \cup ScrubPCs,
         pr' = [pr EXCEPT ![p] = Doing(pc, None, manifest)]
  PROVE  pr' \in [Procs -> Process] /\ \A q \in Procs: ProcessSound(pr'[q])
<1>1. manifest \in Manifest /\ Sound(manifest)
  BY DEF SoundInv, TypeOK
<1>2. Doing(pc, None, manifest) \in Process
  BY <1>1 DEF Doing, Process, DeletePCs, RepairPCs
<1>3. ProcessSound(Doing(pc, None, manifest))
  BY <1>1 DEF Doing, ProcessSound, ReadSound, ReadPCs, ScrubPCs
<1>4. QED
  BY <1>2, <1>3, OneProcess

---------------------------------------------------------------------------
(* SoundInv is inductive: one lemma per operation, one step per action *)

(* What a step leaves to show once the processes are known to stay sound *)
FilesSound ==
  /\ dir \in BOOLEAN
  /\ data \in Shard \cup {None}
  /\ manifest \in Manifest \cup {None}
  /\ manifest # None => Sound(manifest)
  /\ orphan \in BOOLEAN
  /\ queue \in 0..QueueCap

LEMMA SoundParts ==
  ASSUME SoundInv
  PROVE  FilesSound /\ \A p \in Procs: pr[p] \in Process /\ ProcessSound(pr[p])
BY DEF SoundInv, TypeOK, FilesSound

LEMMA SoundWhole ==
  ASSUME FilesSound', pr' \in [Procs -> Process],
         \A p \in Procs: ProcessSound(pr'[p])
  PROVE  SoundInv'
BY DEF SoundInv, TypeOK, FilesSound, ProcessSound, ReadSound

LEMMA QueueType ==
  ASSUME FilesSound, EnqueueRepair \/ UNCHANGED queue
  PROVE  queue' \in 0..QueueCap
BY QueueAssumption DEF FilesSound, EnqueueRepair

LEMMA SoundInit == Init => SoundInv
<1> SUFFICES ASSUME Init PROVE SoundInv
  OBVIOUS
<1>1. pr \in [Procs -> Process] /\ \A p \in Procs: ProcessSound(pr[p])
  BY IdleSound DEF Init
<1>2. 0 \in 0..QueueCap
  BY QueueAssumption
<1>3. FilesSound
  BY <1>2, Zenon DEF Init, FilesSound
<1>4. QED
  BY <1>1, <1>3 DEF SoundInv, TypeOK, FilesSound

LEMMA SoundPut ==
  ASSUME SoundInv, NEW c \in Procs, Put(c)
  PROVE  SoundInv'
<1> USE SoundParts
<1>1. CASE PutBegin(c)
  <2>1. PICK p \in Contents: pr' = [pr EXCEPT ![c] = Doing("mkdir", p, None)]
    BY <1>1 DEF PutBegin
  <2>2. Doing("mkdir", p, None) \in Process
    BY PayloadAssumption DEF Doing, Process, PutPCs
  <2>3. ProcessSound(Doing("mkdir", p, None))
    BY DEF Doing, ProcessSound, ReadSound, SavePCs, ReadPCs, RepairPCs, ScrubPCs
  <2>4. FilesSound'
    BY <1>1 DEF PutBegin, FilesSound
  <2>5. QED
    BY <2>1, <2>2, <2>3, <2>4, OneProcess, SoundWhole
<1>2. CASE PutCreateTemp(c)
  <2>1. pr[c].payload \in Contents
    BY <1>2 DEF PutCreateTemp, ProcessSound
  <2>2. pr' \in [Procs -> Process] /\ \A q \in Procs: ProcessSound(pr'[q])
    <3>1. CASE dir
      BY <1>2, <2>1, <3>1, GotoSound DEF PutCreateTemp, PutPCs, SavePCs
    <3>2. CASE ~dir
      BY <1>2, <3>2, FailureReply, FinishSound DEF PutCreateTemp
    <3>3. QED
      BY <3>1, <3>2
  <2>3. FilesSound'
    BY <1>2 DEF PutCreateTemp, FilesSound
  <2>4. QED
    BY <2>2, <2>3, SoundWhole
<1>3. CASE PutBodyFails(c)
  <2>1. FilesSound'
    BY <1>3 DEF PutBodyFails, FilesSound
  <2>2. /\ Reply("put", 500, None, None) \in Response
        /\ ReadSound(Reply("put", 500, None, None))
    BY FailureReply
  <2>3. Finish(c, Reply("put", 500, None, None))
    BY <1>3 DEF PutBodyFails
  <2>4. QED
    BY <2>1, <2>2, <2>3, FinishSound, SoundWhole
<1>4. CASE PutRename(c)
  <2> DEFINE p == pr[c].payload
  <2>1. p \in Contents /\ p \in Seq(Byte)
    BY <1>4, PayloadAssumption DEF PutRename, ProcessSound
  <2>2. Sealed(p) \in Shard /\ ManifestOf(p) \in Manifest /\ Sound(ManifestOf(p))
    BY <2>1, SealedType DEF Sound
  <2>3. Doing("save", p, ManifestOf(p)) \in Process
    BY <2>1, <2>2 DEF Doing, Process, SavePCs
  <2>4. ProcessSound(Doing("save", p, ManifestOf(p)))
    <3>1. ManifestOf(p) # None
      BY <2>2, NoneAssumption
    <3>2. QED
      BY <2>2, <3>1 DEF Doing, ProcessSound, ReadSound
  <2>5. FilesSound'
    BY <1>4, <2>2 DEF PutRename, FilesSound
  <2>6. QED
    BY <1>4, <2>3, <2>4, <2>5, OneProcess, SoundWhole DEF PutRename
<1>5. CASE PutRollback(c)
  <2>1. FilesSound'
    BY <1>5 DEF PutRollback, Unlinked, FilesSound
  <2>2. /\ Reply("put", 500, None, None) \in Response
        /\ ReadSound(Reply("put", 500, None, None))
    BY FailureReply
  <2>3. Finish(c, Reply("put", 500, None, None))
    BY <1>5 DEF PutRollback
  <2>4. QED
    BY <2>1, <2>2, <2>3, FinishSound, SoundWhole
<1>6. QED
  BY <1>1, <1>2, <1>3, <1>4, <1>5 DEF Put

LEMMA SoundSave ==
  ASSUME SoundInv, NEW p \in Procs, SaveManifest(p)
  PROVE  SoundInv'
<1> USE SoundParts
<1>0. pr[p].pc \in SavePCs /\ pr[p].man # None /\ Sound(pr[p].man)
      /\ pr[p].man \in Manifest
  <2>1. pr[p].pc \in SavePCs
    BY DEF SaveManifest, SaveMkdir, SaveCreateTemp, SaveRename, SaveDone,
           SaveFails, SavePCs
  <2>2. QED
    BY <2>1 DEF ProcessSound, Process
<1>1. CASE SaveMkdir(p)
  <2>1. FilesSound'
    BY <1>1 DEF SaveMkdir, FilesSound
  <2>2. QED
    BY <1>0, <1>1, <2>1, GotoSound, SoundWhole DEF SaveMkdir, SavePCs
<1>2. CASE SaveCreateTemp(p)
  <2>1. FilesSound'
    BY <1>2 DEF SaveCreateTemp, FilesSound
  <2>2. QED
    BY <1>0, <1>2, <2>1, GotoSound, SoundWhole DEF SaveCreateTemp, SavePCs
<1>3. CASE SaveRename(p)
  <2>1. FilesSound'
    BY <1>0, <1>3 DEF SaveRename, FilesSound
  <2>2. QED
    BY <1>0, <1>3, <2>1, GotoSound, SoundWhole DEF SaveRename, SavePCs
<1>4. CASE SaveDone(p)
  <2>1. pr[p].man.etag \in {"md5"} \X Seq(Byte)
    BY <1>0 DEF Manifest
  <2>2. FilesSound'
    BY <1>4 DEF SaveDone, FilesSound
  <2>3. pr' \in [Procs -> Process] /\ \A q \in Procs: ProcessSound(pr'[q])
    <3>1. /\ Reply("put", 200, pr[p].man.etag, None) \in Response
          /\ ReadSound(Reply("put", 200, pr[p].man.etag, None))
      BY <2>1, PlainReply
    <3>2. QED
      BY <1>4, <3>1, FinishSound, QuitSound DEF SaveDone
  <2>4. QED
    BY <2>2, <2>3, SoundWhole
<1>5. CASE SaveFails(p)
  <2>1. FilesSound'
    BY <1>5 DEF SaveFails, FilesSound
  <2>2. pr' \in [Procs -> Process] /\ \A q \in Procs: ProcessSound(pr'[q])
    <3>1. CASE p \in Workers
      BY <1>5, <3>1, QuitSound DEF SaveFails
    <3>2. CASE p \notin Workers
      BY <1>0, <1>5, <3>2, GotoSound DEF SaveFails, PutPCs
    <3>3. QED
      BY <3>1, <3>2
  <2>3. QED
    BY <2>1, <2>2, SoundWhole
<1>6. QED
  BY <1>1, <1>2, <1>3, <1>4, <1>5 DEF SaveManifest

LEMMA SoundReadLoad ==
  ASSUME SoundInv, NEW c \in Procs, NEW op \in {"get", "head"}, ReadLoad(c, op)
  PROVE  SoundInv'
<1> USE SoundParts
<1>1. FilesSound'
  BY DEF ReadLoad, FilesSound
<1>2. CASE manifest = None
  <2>1. pr' \in [Procs -> Process] /\ \A q \in Procs: ProcessSound(pr'[q])
    BY <1>2, FailureReply, FinishSound DEF ReadLoad
  <2>2. QED
    BY <1>1, <2>1, SoundWhole
<1>3. CASE manifest # None
  BY <1>1, <1>3, LoadedSound, SoundWhole DEF ReadLoad, ReadPCs
<1>4. QED
  BY <1>2, <1>3

(* A shard that verifies against a sound manifest holds the uploaded payload   *)
(* that the manifest's ETag names: the heart of VerifiedReadSound.           *)
LEMMA VerifiedPayload ==
  ASSUME NEW s \in Shard, NEW m \in Manifest, Sound(m),
         FooterMatches(s, m), PayloadMatches(s)
  PROVE  s.payload \in Contents /\ m.etag = MD5(s.payload)
<1>1. PICK p \in Contents: m = ManifestOf(p)
  BY DEF Sound
<1>2. m.hash = Sha256(p) /\ m.etag = MD5(p)
  BY <1>1 DEF ManifestOf
<1>3. Sha256(s.payload) = Sha256(p)
  BY <1>2 DEF FooterMatches, PayloadMatches
<1>4. s.payload = p
  BY <1>3 DEF Sha256
<1>5. QED
  BY <1>2, <1>4

LEMMA SoundGet ==
  ASSUME SoundInv, NEW c \in Procs, GetOpen(c)
  PROVE  SoundInv'
<1> USE SoundParts
<1> DEFINE m == pr[c].man
<1>1. m \in Manifest /\ Sound(m)
  BY DEF GetOpen, ProcessSound, ReadPCs, Process
<1>2. FilesSound'
  BY QueueType DEF GetOpen, FilesSound
<1>3. pr' \in [Procs -> Process] /\ \A q \in Procs: ProcessSound(pr'[q])
  <2>1. CASE Finish(c, Reply("get", 404, None, None))
    <3>1. /\ Reply("get", 404, None, None) \in Response
          /\ ReadSound(Reply("get", 404, None, None))
      BY FailureReply
    <3>2. QED
      BY <2>1, <3>1, FinishSound
  <2>2. CASE Finish(c, Reply("get", 500, None, None))
    <3>1. /\ Reply("get", 500, None, None) \in Response
          /\ ReadSound(Reply("get", 500, None, None))
      BY FailureReply
    <3>2. QED
      BY <2>2, <3>1, FinishSound
  <2>3. CASE /\ data # None
             /\ VerifyOnRead => FooterMatches(data, m) /\ PayloadMatches(data)
             /\ Finish(c, Reply("get", 200, m.etag, data.payload))
    <3> DEFINE r == Reply("get", 200, m.etag, data.payload)
    <3>1. data \in Shard /\ data.payload \in Seq(Byte)
      BY <2>3 DEF FilesSound, Shard
    <3>2. m.etag \in {"md5"} \X Seq(Byte)
      BY <1>1 DEF Manifest
    <3>3. r \in Response
      BY <3>1, <3>2, ReplyType
    <3>4. VerifyOnRead => data.payload \in Contents /\ m.etag = MD5(data.payload)
      BY <1>1, <2>3, <3>1, VerifiedPayload
    <3>5. ReadSound(r)
      BY <3>4 DEF ReadSound, Reply
    <3>6. QED
      BY <2>3, <3>3, <3>5, FinishSound
  <2>4. QED
    BY <2>1, <2>2, <2>3 DEF GetOpen
<1>4. QED
  BY <1>2, <1>3, SoundWhole

LEMMA SoundHead ==
  ASSUME SoundInv, NEW c \in Procs, HeadOpen(c)
  PROVE  SoundInv'
<1> USE SoundParts
<1> DEFINE m == pr[c].man
<1>1. m \in Manifest
  BY DEF HeadOpen, ProcessSound, ReadPCs, Process
<1>2. FilesSound'
  BY QueueType DEF HeadOpen, FilesSound
<1>3. m.etag \in {"md5"} \X Seq(Byte)
  BY <1>1 DEF Manifest
<1>4. pr' \in [Procs -> Process] /\ \A q \in Procs: ProcessSound(pr'[q])
  <2>1. CASE Finish(c, Reply("head", 404, None, None))
    <3>1. /\ Reply("head", 404, None, None) \in Response
          /\ ReadSound(Reply("head", 404, None, None))
      BY FailureReply
    <3>2. QED
      BY <2>1, <3>1, FinishSound
  <2>2. CASE Finish(c, Reply("head", 500, None, None))
    <3>1. /\ Reply("head", 500, None, None) \in Response
          /\ ReadSound(Reply("head", 500, None, None))
      BY FailureReply
    <3>2. QED
      BY <2>2, <3>1, FinishSound
  <2>3. CASE Finish(c, Reply("head", 200, m.etag, None))
    <3>1. /\ Reply("head", 200, m.etag, None) \in Response
          /\ ReadSound(Reply("head", 200, m.etag, None))
      BY <1>3, PlainReply
    <3>2. QED
      BY <2>3, <3>1, FinishSound
  <2>4. QED
    BY <2>1, <2>2, <2>3 DEF HeadOpen
<1>5. QED
  BY <1>2, <1>4, SoundWhole

LEMMA SoundDelete ==
  ASSUME SoundInv, NEW c \in Procs, Delete(c)
  PROVE  SoundInv'
<1> USE SoundParts
<1>1. CASE DeleteLoad(c)
  <2>1. FilesSound'
    <3>1. dir' \in BOOLEAN
      BY <1>1, Zenon DEF DeleteLoad, FilesSound
    <3>2. QED
      BY <1>1, <3>1 DEF DeleteLoad, FilesSound
  <2>2. pr' \in [Procs -> Process] /\ \A q \in Procs: ProcessSound(pr'[q])
    <3>1. CASE manifest # None
      BY <1>1, <3>1, LoadedSound DEF DeleteLoad
    <3>2. CASE manifest = None
      BY <1>1, <3>2, FailureReply, FinishSound DEF DeleteLoad
    <3>3. QED
      BY <3>1, <3>2
  <2>3. QED
    BY <2>1, <2>2, SoundWhole
<1>2. CASE DeleteShard(c)
  <2>1. FilesSound'
    BY <1>2 DEF DeleteShard, Unlinked, FilesSound
  <2>2. QED
    BY <1>2, <2>1, GotoSound, SoundWhole DEF DeleteShard, DeletePCs, SavePCs
<1>3. CASE DeleteManifest(c)
  <2>1. FilesSound'
    BY <1>3 DEF DeleteManifest, Unlinked, FilesSound
  <2>2. QED
    BY <1>3, <2>1, GotoSound, SoundWhole DEF DeleteManifest, DeletePCs, SavePCs
<1>4. CASE DeleteParents(c)
  <2>1. FilesSound'
    BY <1>4, Zenon DEF DeleteParents, FilesSound
  <2>2. /\ Reply("delete", 204, None, None) \in Response
        /\ ReadSound(Reply("delete", 204, None, None))
    BY FailureReply
  <2>3. QED
    BY <1>4, <2>1, <2>2, FinishSound, SoundWhole DEF DeleteParents
<1>5. QED
  BY <1>1, <1>2, <1>3, <1>4 DEF Delete

LEMMA SoundRepair ==
  ASSUME SoundInv, NEW w \in Procs, Repair(w)
  PROVE  SoundInv'
<1> USE SoundParts
<1>1. CASE RepairLoad(w)
  <2>1. FilesSound'
    BY <1>1, QueueAssumption DEF RepairLoad, FilesSound
  <2>2. pr' \in [Procs -> Process] /\ \A q \in Procs: ProcessSound(pr'[q])
    <3>1. CASE UNCHANGED pr
      BY <3>1 DEF SoundInv, TypeOK
    <3>2. CASE manifest # None
               /\ pr' = [pr EXCEPT ![w] = Doing("loaded", None, manifest)]
      BY <3>2, LoadedSound
    <3>3. QED
      BY <1>1, <3>1, <3>2 DEF RepairLoad
  <2>3. QED
    BY <2>1, <2>2, SoundWhole
<1>2. CASE RepairRewrite(w)
  <2> DEFINE m == pr[w].man
             p == SubSeq(data.payload, 1, m.size)
  <2>1. m # None /\ m \in Manifest /\ Sound(m)
    BY <1>2 DEF RepairRewrite, ProcessSound, RepairPCs, Process
  <2>2. FilesSound'
    BY <1>2 DEF RepairRewrite, FilesSound
  <2>3. CASE Quit(w)
    BY <2>2, <2>3, QuitSound, SoundWhole
  <2>4. CASE /\ data # None /\ Len(data.payload) >= m.size /\ Sha256(p) = m.hash
             /\ pr' = [pr EXCEPT ![w] = Doing("rewritten", p, m)]
    <3>1. data.payload \in Seq(Byte) /\ m.size \in Nat
      BY <2>1, <2>4 DEF FilesSound, Shard, Manifest
    <3>2. p \in Seq(Byte)
      BY <2>4, <3>1, CopiedPrefix
    <3> HIDE DEF p, m
    <3>3. Doing("rewritten", p, m) \in Process
      BY <2>1, <3>2 DEF Doing, Process, RepairPCs
    <3>4. ProcessSound(Doing("rewritten", p, m))
      BY <2>1, <2>4, <3>2 DEF Doing, ProcessSound, ReadSound
    <3>5. QED
      BY <2>2, <2>4, <3>3, <3>4, OneProcess, SoundWhole
  <2>5. QED
    BY <1>2, <2>3, <2>4 DEF RepairRewrite
<1>3. CASE RepairReplace(w)
  <2>1. pr[w].payload \in Seq(Byte)
    BY <1>3 DEF RepairReplace, ProcessSound
  <2>2. FilesSound'
    BY <1>3, <2>1, SealedType DEF RepairReplace, FilesSound
  <2>3. pr' \in [Procs -> Process] /\ \A q \in Procs: ProcessSound(pr'[q])
    <3> DEFINE s == [pr[w] EXCEPT !.pc = "replaced"]
    <3>1. /\ s \in Process /\ s.pc = "replaced" /\ s.payload = pr[w].payload
          /\ s.man = pr[w].man /\ s.resp = pr[w].resp
      BY MovedType DEF RepairPCs
    <3>2. ProcessSound(s)
      BY <1>3, <3>1 DEF RepairReplace, ProcessSound, RepairPCs
    <3>3. QED
      BY <1>3, <3>1, <3>2, OneProcess DEF RepairReplace
  <2>4. QED
    BY <2>2, <2>3, SoundWhole
<1>4. CASE RepairFails(w)
  <2>1. FilesSound'
    BY <1>4 DEF RepairFails, FilesSound
  <2>2. QED
    BY <1>4, <2>1, QuitSound, SoundWhole DEF RepairFails
<1>5. CASE RepairSync(w)
  <2> DEFINE m == pr[w].man
             p == pr[w].payload
  <2>1. /\ p \in Seq(Byte) /\ Sha256(p) = m.hash
        /\ m # None /\ m \in Manifest /\ Sound(m)
    BY <1>5 DEF RepairSync, ProcessSound, RepairPCs, Process
  <2>2. FilesSound'
    BY <1>5 DEF RepairSync, FilesSound
  <2>3. Reseal(m, p) = m
    BY <2>1 DEF Reseal, Manifest
  <2>4. CASE Quit(w)
    BY <2>2, <2>4, QuitSound, SoundWhole
  <2>5. CASE pr' = [pr EXCEPT ![w] = Doing("save", p, Reseal(m, p))]
    <3> HIDE DEF p, m
    <3>1. Doing("save", p, m) \in Process
      BY <2>1 DEF Doing, Process, SavePCs
    <3>2. ProcessSound(Doing("save", p, m))
      BY <2>1 DEF Doing, ProcessSound, ReadSound
    <3>3. QED
      BY <2>2, <2>3, <2>5, <3>1, <3>2, OneProcess, SoundWhole
  <2>6. QED
    BY <1>5, <2>4, <2>5 DEF RepairSync
<1>6. QED
  BY <1>1, <1>2, <1>3, <1>4, <1>5 DEF Repair

LEMMA SoundScrub ==
  ASSUME SoundInv, NEW s \in Procs, Scrub(s)
  PROVE  SoundInv'
<1> USE SoundParts
<1>1. CASE ScrubLoad(s)
  <2>1. FilesSound'
    BY <1>1 DEF ScrubLoad, FilesSound
  <2>2. QED
    BY <1>1, <2>1, LoadedSound, SoundWhole DEF ScrubLoad, ScrubPCs
<1>2. CASE ScrubCheck(s)
  <2>1. queue' \in 0..QueueCap
    BY <1>2, QueueAssumption DEF ScrubCheck, FilesSound
  <2>2. FilesSound'
    BY <1>2, <2>1 DEF ScrubCheck, FilesSound
  <2>3. QED
    BY <1>2, <2>2, QuitSound, SoundWhole DEF ScrubCheck
<1>3. QED
  BY <1>1, <1>2 DEF Scrub

LEMMA SoundReturn ==
  ASSUME SoundInv, NEW c \in Procs, Return(c)
  PROVE  SoundInv'
<1>1. FilesSound'
  BY SoundParts DEF Return, FilesSound
<1>2. QED
  BY <1>1, QuitSound, SoundWhole DEF Return

(* Rot leaves a shard, with other contents. *)
LEMMA RotType ==
  ASSUME SoundInv, RotShard
  PROVE  data' \in Shard
<1>1. data \in Shard /\ Len(data.payload) \in Nat
  BY SoundParts, LenProperties DEF RotShard, FilesSound, Shard
<1>2. CASE data' = [data EXCEPT !.hdrOK = FALSE]
  BY <1>1, <1>2 DEF Shard
<1>3. CASE data' = [data EXCEPT !.ftrOK = FALSE]
  BY <1>1, <1>3 DEF Shard
<1>4. ASSUME NEW q \in [1..Len(data.payload) -> Byte],
             data' = [data EXCEPT !.payload = q]
      PROVE  data' \in Shard
  <2>1. q \in Seq(Byte)
    BY <1>1, RottenPayload
  <2>2. QED
    BY <1>1, <1>4, <2>1 DEF Shard
<1>5. QED
  BY <1>2, <1>3, <1>4 DEF RotShard

LEMMA SoundEnvironment ==
  ASSUME SoundInv, AdminEnqueue \/ RotShard \/ Crash
  PROVE  SoundInv'
<1> USE SoundParts
<1>1. CASE AdminEnqueue
  <2>1. queue' \in 0..QueueCap
    BY <1>1, QueueAssumption DEF AdminEnqueue, FilesSound
  <2>2. FilesSound'
    BY <1>1, <2>1 DEF AdminEnqueue, FilesSound
  <2>3. pr' \in [Procs -> Process] /\ \A q \in Procs: ProcessSound(pr'[q])
    BY <1>1 DEF AdminEnqueue, SoundInv, TypeOK
  <2>4. QED
    BY <2>2, <2>3, SoundWhole
<1>2. CASE RotShard
  <2>2. data' \in Shard
    BY <1>2, RotType
  <2>3. FilesSound'
    BY <1>2, <2>2 DEF RotShard, FilesSound
  <2>4. pr' \in [Procs -> Process] /\ \A q \in Procs: ProcessSound(pr'[q])
    BY <1>2 DEF RotShard, SoundInv, TypeOK
  <2>5. QED
    BY <2>3, <2>4, SoundWhole
<1>3. CASE Crash
  <2>1. queue' \in 0..QueueCap
    BY <1>3, QueueAssumption DEF Crash
  <2>2. orphan' \in BOOLEAN
    BY <1>3, Zenon DEF Crash, FilesSound
  <2>3. FilesSound'
    BY <1>3, <2>1, <2>2 DEF Crash, FilesSound
  <2>4. pr' \in [Procs -> Process] /\ \A q \in Procs: ProcessSound(pr'[q])
    BY <1>3, IdleSound DEF Crash
  <2>5. QED
    BY <2>3, <2>4, SoundWhole
<1>4. QED
  BY <1>1, <1>2, <1>3

LEMMA SoundStep == SoundInv /\ [Next]_vars => SoundInv'
<1> SUFFICES ASSUME SoundInv, [Next]_vars PROVE SoundInv'
  OBVIOUS
<1>1. ASSUME NEW c \in Putters, Put(c) PROVE SoundInv'
  BY <1>1, SoundPut DEF Procs, Clients
<1>2. ASSUME NEW p \in Putters \cup Workers, SaveManifest(p) PROVE SoundInv'
  BY <1>2, SoundSave DEF Procs, Clients
<1>3. ASSUME NEW c \in Readers, Read(c) PROVE SoundInv'
  BY <1>3, SoundReadLoad, SoundGet, SoundHead DEF Read, Procs, Clients
<1>4. ASSUME NEW c \in Deleters, Delete(c) PROVE SoundInv'
  BY <1>4, SoundDelete DEF Procs, Clients
<1>5. ASSUME NEW c \in Clients, Return(c) PROVE SoundInv'
  BY <1>5, SoundReturn DEF Procs
<1>6. ASSUME NEW w \in Workers, Repair(w) PROVE SoundInv'
  BY <1>6, SoundRepair DEF Procs
<1>7. ASSUME NEW s \in Scrubbers, Scrub(s) PROVE SoundInv'
  BY <1>7, SoundScrub DEF Procs
<1>8. CASE AdminEnqueue \/ RotShard \/ Crash
  BY <1>8, SoundEnvironment
<1>9. CASE UNCHANGED vars
  BY <1>9 DEF vars, SoundInv, TypeOK
<1>10. QED
  BY <1>1, <1>2, <1>3, <1>4, <1>5, <1>6, <1>7, <1>8, <1>9 DEF Next

THEOREM Soundness == Spec => []SoundInv
BY SoundInit, SoundStep, PTL DEF Spec

(* Every variable keeps its type, in particular the queue its bound and a      *)
(* rewritten shard its format, whatever interleaves.                         *)
THEOREM TypeCorrect == Spec => []TypeOK
<1>1. SoundInv => TypeOK
  BY DEF SoundInv
<1>2. QED
  BY <1>1, Soundness, PTL

(* With verifyOnRead no interleaving of GET with Puts, Deletes, repairs,       *)
(* crashes and rot makes a 200 carry bytes nobody uploaded or a foreign ETag. *)
THEOREM VerifiedReads == Spec => []VerifiedReadSound
<1>1. SoundInv => VerifiedReadSound
  BY DEF SoundInv, ProcessSound, VerifiedReadSound, Procs, Clients
<1>2. QED
  BY <1>1, Soundness, PTL

---------------------------------------------------------------------------
(* What the rewriter installs *)

(* Only RepairReplace takes a process from "rewritten" to "replaced". *)
LEMMA OnlyReplace ==
  ASSUME SoundInv, [Next]_vars, NEW w \in Workers,
         At(w, "rewritten"), pr'[w].pc = "replaced"
  PROVE  RepairReplace(w)
<1> USE DEF Procs, Clients, Idle, Done, Doing
<1>0. pr \in [Procs -> Process]
  BY DEF SoundInv, TypeOK
<1>1. ASSUME NEW c \in Putters, Put(c) PROVE FALSE
  BY <1>0, <1>1 DEF Put, PutBegin, PutCreateTemp, PutBodyFails, PutRename, PutRollback
<1>2. ASSUME NEW p \in Putters \cup Workers, SaveManifest(p) PROVE FALSE
  BY <1>0, <1>2 DEF SaveManifest, SaveMkdir, SaveCreateTemp, SaveRename, SaveDone,
                    SaveFails, SavePCs
<1>3. ASSUME NEW c \in Readers, Read(c) PROVE FALSE
  BY <1>0, <1>3 DEF Read, ReadLoad, GetOpen, HeadOpen
<1>4. ASSUME NEW c \in Deleters, Delete(c) PROVE FALSE
  BY <1>0, <1>4 DEF Delete, DeleteLoad, DeleteShard, DeleteManifest, DeleteParents
<1>5. ASSUME NEW c \in Clients, Return(c) PROVE FALSE
  BY <1>0, <1>5 DEF Return
<1>6. ASSUME NEW v \in Workers, Repair(v) PROVE RepairReplace(w)
  <2>1. v = w
    BY <1>0, <1>6 DEF Repair, RepairLoad, RepairRewrite, RepairReplace, RepairFails,
                      RepairSync
  <2>2. QED
    BY <1>0, <1>6, <2>1 DEF Repair, RepairLoad, RepairRewrite, RepairFails, RepairSync
<1>7. ASSUME NEW s \in Scrubbers, Scrub(s) PROVE FALSE
  BY <1>0, <1>7 DEF Scrub, ScrubLoad, ScrubCheck
<1>8. CASE AdminEnqueue \/ RotShard
  BY <1>8 DEF AdminEnqueue, RotShard
<1>9. CASE Crash
  BY <1>9 DEF Crash
<1>10. CASE UNCHANGED vars
  BY <1>10 DEF vars
<1>11. QED
  BY <1>1, <1>2, <1>3, <1>4, <1>5, <1>6, <1>7, <1>8, <1>9, <1>10 DEF Next

(* Whatever happened to the file and to the manifest since the worker loaded    *)
(* it, the shard it renames into place verifies against that manifest.       *)
THEOREM RepairVerified == Spec => RepairInstallsVerified
<1>1. SoundInv /\ [Next]_vars
        => [\A w \in Workers: At(w, "rewritten") /\ pr'[w].pc = "replaced"
              => Verifies(data', pr[w].man)]_vars
  <2> SUFFICES ASSUME SoundInv, [Next]_vars, NEW w \in Workers,
                      At(w, "rewritten"), pr'[w].pc = "replaced"
               PROVE  Verifies(data', pr[w].man)
    OBVIOUS
  <2>1. data' = Sealed(pr[w].payload)
    BY OnlyReplace DEF RepairReplace
  <2>2. Sha256(pr[w].payload) = pr[w].man.hash
    BY SoundParts DEF ProcessSound, Procs
  <2>3. QED
    BY <2>1, <2>2 DEF Sealed, Verifies, FooterMatches, PayloadMatches
<1>2. QED
  BY <1>1, Soundness, PTL DEF Spec, RepairInstallsVerified

---------------------------------------------------------------------------
(* A shard behind every manifest *)

LEMMA RepairedShard ==
  ASSUME SoundInv, NEW w \in Workers, RepairReplace(w)
  PROVE  data' # None
<1>1. pr[w].payload \in Seq(Byte)
  BY SoundParts DEF RepairReplace, ProcessSound, Procs
<1>2. QED
  BY <1>1, SealedType, NoneAssumption DEF RepairReplace

LEMMA DataStep ==
  ASSUME Deleters = {}, IOFaults = FALSE, SoundInv, DataInv, [Next]_vars
  PROVE  DataInv'
<1> USE DEF Procs, Clients, DataInv, ManifestHasData, Idle, Done, Doing,
            PutPCs, SavePCs, DeletePCs
<1>0. pr \in [Procs -> Process]
  BY DEF SoundInv, TypeOK
<1>1. ASSUME NEW c \in Putters, Put(c) PROVE DataInv'
  <2>1. CASE PutBegin(c)
    BY <1>0, <2>1 DEF PutBegin
  <2>2. CASE PutCreateTemp(c)
    <3>1. dir /\ pr' = [pr EXCEPT ![c].pc = "writing"]
      BY <1>0, <2>2 DEF PutCreateTemp
    <3>2. QED
      BY <1>0, <2>2, <3>1 DEF PutCreateTemp
  <2>3. CASE PutBodyFails(c)
    BY <1>0, <2>3 DEF PutBodyFails
  <2>4. CASE PutRename(c)
    <3>1. Sealed(pr[c].payload) # None
      <4>1. pr[c].payload \in Seq(Byte)
        BY <2>4, SoundParts, PayloadAssumption DEF PutRename, ProcessSound
      <4>2. QED
        BY <4>1, SealedType, NoneAssumption
    <3>2. QED
      BY <1>0, <2>4, <3>1 DEF PutRename
  <2>5. CASE PutRollback(c)
    BY <2>5 DEF PutRollback
  <2>6. QED
    BY <1>1, <2>1, <2>2, <2>3, <2>4, <2>5 DEF Put
<1>2. ASSUME NEW p \in Putters \cup Workers, SaveManifest(p) PROVE DataInv'
  <2>1. CASE SaveMkdir(p)
    BY <1>0, <2>1 DEF SaveMkdir
  <2>2. CASE SaveCreateTemp(p)
    BY <1>0, <2>2 DEF SaveCreateTemp
  <2>3. CASE SaveRename(p)
    BY <1>0, <2>3 DEF SaveRename
  <2>4. CASE SaveDone(p)
    BY <1>0, <2>4 DEF SaveDone
  <2>5. ~SaveFails(p)
    BY DEF SaveFails
  <2>6. QED
    BY <1>2, <2>1, <2>2, <2>3, <2>4, <2>5 DEF SaveManifest
<1>3. ASSUME NEW c \in Readers, Read(c) PROVE DataInv'
  <2>1. ASSUME NEW op \in {"get", "head"}, ReadLoad(c, op) PROVE DataInv'
    BY <1>0, <2>1 DEF ReadLoad
  <2>2. CASE GetOpen(c) \/ HeadOpen(c)
    BY <1>0, <2>2 DEF GetOpen, HeadOpen
  <2>3. QED
    BY <1>3, <2>1, <2>2 DEF Read
<1>4. ASSUME NEW c \in Clients, Return(c) PROVE DataInv'
  BY <1>0, <1>4 DEF Return
<1>5. ASSUME NEW w \in Workers, Repair(w) PROVE DataInv'
  <2>1. CASE RepairLoad(w)
    BY <1>0, <2>1 DEF RepairLoad
  <2>2. CASE RepairRewrite(w)
    BY <1>0, <2>2 DEF RepairRewrite
  <2>3. CASE RepairReplace(w)
    <3>1. data' # None
      BY <2>3, RepairedShard
    <3>2. dir
      BY <2>3 DEF RepairReplace
    <3>3. QED
      BY <1>0, <2>3, <3>1, <3>2 DEF RepairReplace
  <2>4. CASE RepairFails(w) \/ RepairSync(w)
    BY <1>0, <2>4 DEF RepairFails, RepairSync
  <2>5. QED
    BY <1>5, <2>1, <2>2, <2>3, <2>4 DEF Repair
<1>6. ASSUME NEW s \in Scrubbers, Scrub(s) PROVE DataInv'
  BY <1>0, <1>6 DEF Scrub, ScrubLoad, ScrubCheck
<1>7. CASE AdminEnqueue
  BY <1>7 DEF AdminEnqueue
<1>8. CASE RotShard
  <2>1. data' # None
    BY <1>8, RotType, NoneAssumption
  <2>2. QED
    BY <1>8, <2>1 DEF RotShard
<1>9. CASE Crash
  BY <1>9 DEF Crash
<1>10. CASE UNCHANGED vars
  BY <1>10 DEF vars
<1>11. QED
  BY <1>1, <1>2, <1>3, <1>4, <1>5, <1>6, <1>7, <1>8, <1>9, <1>10 DEF Next

(* If nothing is deleted and the disk does not fail, no race of Puts and        *)
(* repairs and no crash ever leaves a manifest whose shard is missing.       *)
THEOREM NoLostShard ==
  ASSUME Deleters = {}, IOFaults = FALSE
  PROVE  Spec => []ManifestHasData
<1>1. Init => DataInv
  BY DEF Init, DataInv, ManifestHasData, Idle, Doing, SavePCs, DeletePCs
<1>2. SoundInv /\ DataInv /\ [Next]_vars => DataInv'
  BY DataStep
<1>3. DataInv => ManifestHasData
  BY DEF DataInv
<1>4. QED
  BY <1>1, <1>2, <1>3, Soundness, PTL DEF Spec

---------------------------------------------------------------------------
(* The register: without repair workers, and with reads that verify, every      *)
(* step is a step of ObjectRegister or changes nothing there.                *)

(* The requests of ObjectRegister: one under way, one that succeeded *)
Asks(st, val) == [st |-> st, val |-> val, ok |-> FALSE]
Answered(val) == [st |-> "done", val |-> val, ok |-> TRUE]

(* One process, one request changes *)
Turns(p, s) == pr' = [pr EXCEPT ![p] = s]
Asked(c, r) == Requests' = [Requests EXCEPT ![c] = r]

(* The request a process stands for, by where it is *)
LEMMA StandsPut ==
  ASSUME NEW s, s.pc \in {"mkdir", "writing", "save", "saveDir", "saveTemp"}
  PROVE  RequestOf(s) = Asks("put", s.payload)
BY DEF RequestOf, Asks, ReadPCs

LEMMA StandsWritten ==
  ASSUME NEW s, s.pc = "saveSync"
  PROVE  RequestOf(s) = Asks("written", s.payload)
BY DEF RequestOf, Asks, ReadPCs

LEMMA StandsFailed ==
  ASSUME NEW s, s.pc = "rollback"
  PROVE  RequestOf(s) = Asks("done", None)
BY DEF RequestOf, Asks, ReadPCs

LEMMA StandsRead ==
  ASSUME NEW s, s.pc \in {"get", "head"}
  PROVE  RequestOf(s) = Asks("read", Promised(s.man))
BY DEF RequestOf, Asks, ReadPCs

LEMMA StandsDelete ==
  ASSUME NEW s, s.pc \in {"delData", "delManifest"}
  PROVE  RequestOf(s) = Asks("delete", None)
BY DEF RequestOf, Asks, ReadPCs

LEMMA StandsDeleted ==
  ASSUME NEW s, s.pc = "delParents"
  PROVE  RequestOf(s) = Asks("deleted", None)
BY DEF RequestOf, Asks, ReadPCs

LEMMA StandsIdle ==
  ASSUME NEW s, s.pc = "idle"
  PROVE  RequestOf(s) = Asks("idle", None)
BY DEF RequestOf, Asks, ReadPCs

LEMMA StandsDone ==
  ASSUME NEW op, NEW status, NEW etag, NEW body
  PROVE  /\ status \notin {200, 204}
              => RequestOf(Done(Reply(op, status, etag, body))) = Asks("done", None)
         /\ status = 204 \/ (op = "put" /\ status = 200)
              => RequestOf(Done(Reply(op, status, etag, body))) = Answered(None)
         /\ op \in {"get", "head"} /\ status = 200
              => RequestOf(Done(Reply(op, status, etag, body)))
                   = Answered(IF op = "get" THEN body ELSE etag[2])
<1> DEFINE s == Done(Reply(op, status, etag, body))
<1>1. /\ s.pc = "done" /\ s.resp.op = op /\ s.resp.status = status
      /\ s.resp.etag = etag /\ s.resp.body = body
  BY DEF Done, Reply
<1> HIDE DEF s
<1> DEFINE val == IF s.resp.status # 200 \/ s.resp.op = "put" THEN None
                  ELSE IF s.resp.op = "get" THEN s.resp.body ELSE s.resp.etag[2]
<1>2. RequestOf(s) = [st |-> "done", val |-> val, ok |-> s.resp.status \in {200, 204}]
  BY <1>1 DEF RequestOf, ReadPCs
<1>3. status # 200 \/ op = "put" => val = None
  BY <1>1, Zenon
<1>4. op = "get" /\ status = 200 => val = body
  BY <1>1
<1>5. op = "head" /\ status = 200 => val = etag[2]
  BY <1>1
<1> HIDE DEF val
<1>6. status \notin {200, 204} => RequestOf(s) = Asks("done", val)
  <2>1. ASSUME status \notin {200, 204} PROVE (s.resp.status \in {200, 204}) = FALSE
    BY <1>1, <2>1
  <2> QED BY <1>2, <2>1 DEF Asks
<1>7. status \in {200, 204} => RequestOf(s) = Answered(val)
  <2>1. ASSUME status \in {200, 204} PROVE (s.resp.status \in {200, 204}) = TRUE
    BY <1>1, <2>1
  <2> QED BY <1>2, <2>1 DEF Answered
<1> QED BY <1>3, <1>4, <1>5, <1>6, <1>7 DEF s

(* A step of one client changes its request alone; a step of a scrubber none. *)
LEMMA OneRequest ==
  ASSUME pr \in [Procs -> Process], NEW p \in Procs, NEW s, pr' = [pr EXCEPT ![p] = s]
  PROVE  /\ p \in Clients => Requests' = [Requests EXCEPT ![p] = RequestOf(s)]
         /\ p \notin Clients => Requests' = Requests
         /\ (p \in Clients /\ RequestOf(s) = RequestOf(pr[p])) => Requests' = Requests
         /\ p \in Clients => Requests[p] = RequestOf(pr[p])
<1>1. pr'[p] = s /\ \A q \in Procs \ {p}: pr'[q] = pr[q]
  OBVIOUS
<1>2. \A q \in Clients: q \in Procs
  BY DEF Procs
<1>3. Requests' = [c \in Clients |-> RequestOf(pr'[c])]
  BY DEF Requests
<1> QED BY <1>1, <1>2, <1>3 DEF Requests

(* What a Put is about to save describes the payload it was given. *)
RegInv ==
  \A p \in Procs:
    pr[p].pc \in SavePCs =>
      pr[p].payload \in Contents /\ pr[p].man = ManifestOf(pr[p].payload)

(* The next record of a process that moves its pc, field by field *)
LEMMA Moved ==
  ASSUME pr \in [Procs -> Process], NEW p \in Procs, NEW pc, Goto(p, pc)
  PROVE  \E s: /\ pr' = [pr EXCEPT ![p] = s]
               /\ s.pc = pc /\ s.payload = pr[p].payload /\ s.man = pr[p].man
<1>1. pr[p] \in Process
  OBVIOUS
<1>2. pr' = [pr EXCEPT ![p] = [pr[p] EXCEPT !.pc = pc]]
  OBVIOUS
<1>3. /\ [pr[p] EXCEPT !.pc = pc].pc = pc
      /\ [pr[p] EXCEPT !.pc = pc].payload = pr[p].payload
      /\ [pr[p] EXCEPT !.pc = pc].man = pr[p].man
  BY <1>1 DEF Process
<1> QED BY <1>2, <1>3

LEMMA RegOne ==
  ASSUME RegInv, pr \in [Procs -> Process], NEW p \in Procs, NEW s,
         pr' = [pr EXCEPT ![p] = s],
         s.pc \in SavePCs => s.payload \in Contents /\ s.man = ManifestOf(s.payload)
  PROVE  RegInv'
BY DEF RegInv

LEMMA RegEnds ==
  ASSUME RegInv, pr \in [Procs -> Process], NEW p \in Procs,
         Quit(p) \/ \E r: Finish(p, r)
  PROVE  RegInv'
<1>1. CASE Quit(p)
  <2>1. Idle.pc \notin SavePCs
    BY DEF Idle, Doing, SavePCs
  <2> QED BY <1>1, <2>1, RegOne
<1>2. ASSUME NEW r, Finish(p, r) PROVE RegInv'
  <2>1. Done(r).pc \notin SavePCs
    BY DEF Done, SavePCs
  <2> QED BY <1>2, <2>1, RegOne
<1> QED BY <1>1, <1>2

LEMMA RegMoves ==
  ASSUME RegInv, pr \in [Procs -> Process], NEW p \in Procs, NEW pc, Goto(p, pc),
         pc \in SavePCs => pr[p].pc \in SavePCs
  PROVE  RegInv'
<1>1. PICK s: /\ pr' = [pr EXCEPT ![p] = s]
              /\ s.pc = pc /\ s.payload = pr[p].payload /\ s.man = pr[p].man
  BY Moved
<1> QED BY <1>1, RegOne DEF RegInv

LEMMA RegStarts ==
  ASSUME RegInv, pr \in [Procs -> Process], NEW p \in Procs, NEW pc, NEW x, NEW m,
         pc \notin SavePCs, pr' = [pr EXCEPT ![p] = Doing(pc, x, m)]
  PROVE  RegInv'
<1>1. Doing(pc, x, m).pc = pc
  BY DEF Doing
<1> QED BY <1>1, RegOne

LEMMA RegStep ==
  ASSUME Workers = {}, SoundInv, RegInv, [Next]_vars
  PROVE  RegInv'
<1> USE DEF SavePCs
<1>0. pr \in [Procs -> Process]
  BY DEF SoundInv, TypeOK
<1>1. ASSUME NEW c \in Putters, Put(c) PROVE RegInv'
  <2>0. c \in Procs
    BY DEF Procs, Clients
  <2>1. CASE PutBegin(c)
    <3>1. PICK p \in Contents: pr' = [pr EXCEPT ![c] = Doing("mkdir", p, None)]
      BY <2>1 DEF PutBegin
    <3> QED BY <1>0, <2>0, <3>1, RegStarts
  <2>2. CASE PutCreateTemp(c)
    <3>1. Goto(c, "writing") \/ \E r: Finish(c, r)
      BY <2>2 DEF PutCreateTemp
    <3> QED BY <1>0, <2>0, <3>1, RegMoves, RegEnds
  <2>3. CASE PutBodyFails(c) \/ PutRollback(c)
    <3>1. \E r: Finish(c, r)
      BY <2>3 DEF PutBodyFails, PutRollback
    <3> QED BY <1>0, <2>0, <3>1, RegEnds
  <2>4. CASE PutRename(c)
    <3> DEFINE s == Doing("save", pr[c].payload, ManifestOf(pr[c].payload))
    <3>1. pr[c].payload \in Contents
      BY <2>0, <2>4, SoundParts DEF PutRename, ProcessSound
    <3>2. pr' = [pr EXCEPT ![c] = s]
      BY <2>4 DEF PutRename
    <3>3. s.payload = pr[c].payload /\ s.man = ManifestOf(s.payload)
      BY DEF Doing
    <3> HIDE DEF s
    <3> QED BY <1>0, <2>0, <3>1, <3>2, <3>3, RegOne
  <2> QED BY <1>1, <2>1, <2>2, <2>3, <2>4 DEF Put
<1>2. ASSUME NEW p \in Putters, SaveManifest(p) PROVE RegInv'
  <2>0. p \in Procs
    BY DEF Procs, Clients
  <2>1. \/ \E pc: Goto(p, pc) /\ pr[p].pc \in SavePCs
        \/ \E r: Finish(p, r)
        \/ Quit(p)
    BY <1>2 DEF SaveManifest, SaveMkdir, SaveCreateTemp, SaveRename, SaveDone, SaveFails
  <2> QED BY <1>0, <2>0, <2>1, RegMoves, RegEnds
<1>3. ASSUME NEW c \in Readers, Read(c) PROVE RegInv'
  <2>0. c \in Procs
    BY DEF Procs, Clients
  <2>1. ASSUME NEW op \in {"get", "head"}, ReadLoad(c, op) PROVE RegInv'
    <3>1. \/ \E r: Finish(c, r)
          \/ pr' = [pr EXCEPT ![c] = Doing(op, None, manifest)]
      BY <2>1 DEF ReadLoad
    <3> QED BY <1>0, <2>0, <3>1, RegEnds, RegStarts
  <2>2. CASE GetOpen(c) \/ HeadOpen(c)
    <3>1. \E r: Finish(c, r)
      BY <2>2 DEF GetOpen, HeadOpen
    <3> QED BY <1>0, <2>0, <3>1, RegEnds
  <2> QED BY <1>3, <2>1, <2>2 DEF Read
<1>4. ASSUME NEW c \in Deleters, Delete(c) PROVE RegInv'
  <2>0. c \in Procs
    BY DEF Procs, Clients
  <2>1. \/ \E r: Finish(c, r)
        \/ pr' = [pr EXCEPT ![c] = Doing("delData", None, manifest)]
        \/ Goto(c, "delManifest")
        \/ Goto(c, "delParents")
    BY <1>4 DEF Delete, DeleteLoad, DeleteShard, DeleteManifest, DeleteParents
  <2> QED BY <1>0, <2>0, <2>1, RegEnds, RegStarts, RegMoves
<1>5. ASSUME NEW c \in Clients, Return(c) PROVE RegInv'
  BY <1>0, <1>5, RegEnds DEF Return, Procs
<1>6. ASSUME NEW s \in Scrubbers, Scrub(s) PROVE RegInv'
  <2>0. s \in Procs
    BY DEF Procs
  <2>1. Quit(s) \/ pr' = [pr EXCEPT ![s] = Doing("scrub", None, manifest)]
    BY <1>6 DEF Scrub, ScrubLoad, ScrubCheck
  <2> QED BY <1>0, <2>0, <2>1, RegEnds, RegStarts
<1>7. CASE AdminEnqueue \/ RotShard \/ UNCHANGED vars
  BY <1>7 DEF AdminEnqueue, RotShard, vars, RegInv
<1>8. CASE Crash
  <2>1. \A p \in Procs: pr'[p].pc = "idle"
    BY <1>8 DEF Crash, Idle, Doing
  <2> QED BY <2>1 DEF RegInv
<1> QED BY <1>1, <1>2, <1>3, <1>4, <1>5, <1>6, <1>7, <1>8 DEF Next

(* What a step is on the register *)
OnRegister == Register!RNext \/ UNCHANGED <<StoredValue, Requests>>

(* The stored value and the requests, as the register sees them *)
LEMMA StoredSame == UNCHANGED manifest => UNCHANGED StoredValue
BY DEF StoredValue

LEMMA DescribedValue ==
  ASSUME NEW p \in Contents
  PROVE  Promised(ManifestOf(p)) = p /\ p # None /\ ManifestOf(p) # None
<1>1. p \in Seq(Byte)
  BY PayloadAssumption
<1> QED BY <1>1, SealedType, NoneAssumption DEF Promised, ManifestOf, Sha256

LEMMA SoundValue ==
  ASSUME NEW m, Sound(m)
  PROVE  Promised(m) \in Contents /\ Promised(m) # None /\ m.etag[2] = Promised(m)
<1>1. PICK p \in Contents: m = ManifestOf(p)
  BY DEF Sound
<1> QED BY <1>1, DescribedValue DEF ManifestOf, MD5

(* A client's step puts the request of its next record in place of the last. *)
LEMMA NextRequest ==
  ASSUME SoundInv, NEW c \in Clients, NEW s, Turns(c, s)
  PROVE  /\ Asked(c, RequestOf(s))
         /\ RequestOf(s) = RequestOf(pr[c]) => Requests' = Requests
BY OneRequest DEF SoundInv, TypeOK, Procs, Turns, Asked

LEMMA ThisRequest ==
  ASSUME SoundInv, NEW c \in Clients
  PROVE  /\ c \in Procs /\ pr[c] \in Process /\ pr \in [Procs -> Process]
         /\ ProcessSound(pr[c]) /\ Requests[c] = RequestOf(pr[c])
BY SoundParts DEF Requests, SoundInv, TypeOK, Procs

(* A step that leaves the manifest and the client's request alone is no step. *)
LEMMA NoRegisterStep ==
  ASSUME SoundInv, NEW c \in Clients, NEW s, Turns(c, s), UNCHANGED manifest,
         RequestOf(s) = RequestOf(pr[c])
  PROVE  OnRegister
BY NextRequest, StoredSame DEF OnRegister

LEMMA MovedOn ==
  ASSUME SoundInv, NEW c \in Clients, NEW pc, Goto(c, pc)
  PROVE  \E s: /\ Turns(c, s)
               /\ s.pc = pc /\ s.payload = pr[c].payload /\ s.man = pr[c].man
BY ThisRequest, Moved DEF Turns

(* The requests after an answer: a failure, an acknowledged write, a read *)
LEMMA FailureRequest ==
  ASSUME SoundInv, NEW c \in Clients, NEW op, NEW status, status \notin {200, 204},
         Turns(c, Done(Reply(op, status, None, None)))
  PROVE  Asked(c, Asks("done", None))
BY StandsDone, NextRequest

LEMMA AckedRequest ==
  ASSUME SoundInv, NEW c \in Clients, NEW op, NEW status, NEW etag,
         Turns(c, Done(Reply(op, status, etag, None))),
         status = 204 \/ (op = "put" /\ status = 200)
  PROVE  Asked(c, Answered(None))
BY StandsDone, NextRequest

LEMMA ReadRequest ==
  ASSUME SoundInv, NEW c \in Clients, NEW op \in {"get", "head"}, NEW etag, NEW body,
         Turns(c, Done(Reply(op, 200, etag, body)))
  PROVE  Asked(c, Answered(IF op = "get" THEN body ELSE etag[2]))
BY StandsDone, NextRequest

(* The register's steps, from what they do to one request *)
LEMMA FailsPut ==
  ASSUME NEW c \in Putters, NEW v, UNCHANGED manifest, Asked(c, Asks("done", None)),
         Requests[c] \in {Asks("put", v), Asks("written", v)}
  PROVE  OnRegister
<1>1. Requests[c].st \in {"put", "written"}
  BY DEF Asks
<1>2. Register!FailPut(c)
  BY <1>1, StoredSame DEF Register!FailPut, Register!Answer, Asks, Asked
<1> QED BY <1>2 DEF Register!RNext, OnRegister

LEMMA RegisterPut ==
  ASSUME SoundInv, NEW c \in Putters, Put(c)
  PROVE  OnRegister
<1>0. c \in Clients
  BY DEF Clients
<1>00. UNCHANGED manifest
  BY DEF Put, PutBegin, PutCreateTemp, PutBodyFails, PutRename, PutRollback
<1>1. CASE PutBegin(c)
  <2>1. PICK p \in Contents: pr' = [pr EXCEPT ![c] = Doing("mkdir", p, None)]
    BY <1>1 DEF PutBegin
  <2> DEFINE s == Doing("mkdir", p, None)
  <2>2. Turns(c, s) /\ s.pc = "mkdir" /\ s.payload = p
    BY <2>1 DEF Turns, Doing
  <2> HIDE DEF s
  <2>3. RequestOf(s) = Asks("put", p)
    BY <2>2, StandsPut
  <2>4. Asked(c, Asks("put", p))
    BY <1>0, <2>2, <2>3, NextRequest
  <2>5. Requests[c].st = "idle"
    <3>1. pr[c].pc = "idle"
      BY <1>1 DEF PutBegin
    <3>2. RequestOf(pr[c]) = Asks("idle", None)
      BY <3>1, StandsIdle
    <3> QED BY <1>0, <3>2, ThisRequest DEF Asks
  <2>6. Register!CallPut(c)
    BY <1>00, <2>4, <2>5, StoredSame DEF Register!CallPut, Register!Call, Asks, Asked
  <2> QED BY <2>6 DEF Register!RNext, OnRegister
<1>2. ASSUME pr[c].pc \in {"mkdir", "writing"},
             Turns(c, Done(Reply("put", 500, None, None)))
      PROVE  OnRegister
  <2>1. Asked(c, Asks("done", None))
    BY <1>0, <1>2, FailureRequest
  <2>2. RequestOf(pr[c]) = Asks("put", pr[c].payload)
    BY <1>2, StandsPut
  <2> QED BY <1>0, <1>00, <2>1, <2>2, ThisRequest, FailsPut
<1>3. ASSUME NEW s, Turns(c, s), s.payload = pr[c].payload,
             pr[c].pc \in {"mkdir", "writing"}, s.pc \in {"writing", "save"}
      PROVE  OnRegister
  <2>1. RequestOf(s) = Asks("put", pr[c].payload)
    BY <1>3, StandsPut
  <2>2. RequestOf(pr[c]) = Asks("put", pr[c].payload)
    BY <1>3, StandsPut
  <2> QED BY <1>0, <1>00, <1>3, <2>1, <2>2, NoRegisterStep
<1>4. CASE PutCreateTemp(c)
  <2>1. pr[c].pc = "mkdir"
    BY <1>4 DEF PutCreateTemp
  <2>2. CASE Goto(c, "writing")
    <3>1. PICK s: /\ Turns(c, s)
                  /\ s.pc = "writing" /\ s.payload = pr[c].payload /\ s.man = pr[c].man
      BY <1>0, <2>2, MovedOn
    <3> QED BY <1>3, <2>1, <3>1
  <2>3. CASE Finish(c, Reply("put", 500, None, None))
    BY <1>2, <2>1, <2>3 DEF Turns
  <2> QED BY <1>4, <2>2, <2>3 DEF PutCreateTemp
<1>5. CASE PutBodyFails(c)
  BY <1>2, <1>5 DEF PutBodyFails, Turns
<1>6. CASE PutRename(c)
  <2> DEFINE s == Doing("save", pr[c].payload, ManifestOf(pr[c].payload))
  <2>1. /\ Turns(c, s) /\ pr[c].pc = "writing"
        /\ s.pc = "save" /\ s.payload = pr[c].payload
    BY <1>6 DEF PutRename, Turns, Doing
  <2> HIDE DEF s
  <2> QED BY <1>3, <2>1
<1>7. CASE PutRollback(c)
  <2> DEFINE s == Done(Reply("put", 500, None, None))
  <2>1. Turns(c, s) /\ pr[c].pc = "rollback"
    BY <1>7 DEF PutRollback, Turns
  <2>2. RequestOf(s) = Asks("done", None)
    BY StandsDone
  <2> HIDE DEF s
  <2>3. RequestOf(pr[c]) = Asks("done", None)
    BY <2>1, StandsFailed
  <2> QED BY <1>0, <1>00, <2>1, <2>2, <2>3, NoRegisterStep
<1> QED BY <1>1, <1>4, <1>5, <1>6, <1>7 DEF Put

(* Renaming the manifest is the write: what it promises is the payload given. *)
LEMMA WritesPut ==
  ASSUME NEW c \in Putters, NEW v, StoredValue' = v,
         Requests[c] = Asks("put", v), Asked(c, Asks("written", v))
  PROVE  OnRegister
<1>1. Requests[c].st = "put" /\ Requests[c].val = v
  BY DEF Asks
<1>2. [Requests[c] EXCEPT !.st = "written"] = Asks("written", v)
  <2>1. ASSUME NEW ok
        PROVE  [[st |-> "put", val |-> v, ok |-> ok] EXCEPT !.st = "written"]
                 = [st |-> "written", val |-> v, ok |-> ok]
    OBVIOUS
  <2> QED BY <2>1 DEF Asks
<1>3. Register!Write(c)
  BY <1>1, <1>2 DEF Register!Write, Asked
<1> QED BY <1>3 DEF Register!RNext, OnRegister

LEMMA RegisterSave ==
  ASSUME Workers = {}, SoundInv, RegInv, NEW c \in Putters, SaveManifest(c)
  PROVE  OnRegister
<1>0. c \in Clients
  BY DEF Clients
<1>1. /\ pr[c].pc \in SavePCs
      /\ pr[c].payload \in Contents /\ pr[c].man = ManifestOf(pr[c].payload)
  <2>1. pr[c].pc \in SavePCs
    BY DEF SaveManifest, SaveMkdir, SaveCreateTemp, SaveRename, SaveDone, SaveFails, SavePCs
  <2> QED BY <1>0, <2>1 DEF RegInv, Procs
<1>2. pr[c].pc # "saveSync" => Requests[c] = Asks("put", pr[c].payload)
  BY <1>0, <1>1, StandsPut, ThisRequest DEF SavePCs
<1>3. pr[c].pc = "saveSync" => Requests[c] = Asks("written", pr[c].payload)
  BY <1>0, <1>1, StandsWritten, ThisRequest
<1>4. ASSUME NEW pc \in {"saveDir", "saveTemp"}, Goto(c, pc), UNCHANGED manifest,
             pr[c].pc \in {"save", "saveDir"}
      PROVE  OnRegister
  <2>1. PICK s: /\ Turns(c, s)
                /\ s.pc = pc /\ s.payload = pr[c].payload /\ s.man = pr[c].man
    BY <1>0, <1>4, MovedOn
  <2>2. RequestOf(s) = Asks("put", pr[c].payload)
    BY <2>1, StandsPut
  <2>3. RequestOf(pr[c]) = Asks("put", pr[c].payload)
    BY <1>4, StandsPut
  <2> QED BY <1>0, <1>4, <2>1, <2>2, <2>3, NoRegisterStep
<1>5. CASE SaveMkdir(c) \/ SaveCreateTemp(c)
  BY <1>4, <1>5 DEF SaveMkdir, SaveCreateTemp
<1>6. CASE SaveRename(c)
  <2>1. pr[c].pc = "saveTemp" /\ Goto(c, "saveSync") /\ manifest' = pr[c].man
    BY <1>6 DEF SaveRename
  <2>2. PICK s: /\ Turns(c, s)
                /\ s.pc = "saveSync" /\ s.payload = pr[c].payload /\ s.man = pr[c].man
    BY <1>0, <2>1, MovedOn
  <2>3. RequestOf(s) = Asks("written", pr[c].payload)
    BY <2>2, StandsWritten
  <2>4. Asked(c, Asks("written", pr[c].payload))
    BY <1>0, <2>2, <2>3, NextRequest
  <2>5. StoredValue' = pr[c].payload
    BY <1>1, <2>1, DescribedValue DEF StoredValue
  <2> QED BY <1>2, <2>1, <2>4, <2>5, WritesPut
<1>7. CASE SaveDone(c)
  <2>1. /\ pr[c].pc = "saveSync"
        /\ Turns(c, Done(Reply("put", 200, pr[c].man.etag, None))) /\ UNCHANGED manifest
    BY <1>7, ProcsAssumption DEF SaveDone, Turns
  <2>2. Asked(c, Answered(None))
    BY <1>0, <2>1, AckedRequest
  <2>3. Requests[c].st = "written"
    BY <1>3, <2>1 DEF Asks
  <2>4. Register!AckPut(c)
    BY <2>1, <2>2, <2>3, StoredSame DEF Register!AckPut, Register!Answer, Answered, Asked
  <2> QED BY <2>4 DEF Register!RNext, OnRegister
<1>8. CASE SaveFails(c)
  <2>1. Goto(c, "rollback") /\ UNCHANGED manifest
    BY <1>8 DEF SaveFails
  <2>2. PICK s: /\ Turns(c, s)
                /\ s.pc = "rollback" /\ s.payload = pr[c].payload /\ s.man = pr[c].man
    BY <1>0, <2>1, MovedOn
  <2>3. RequestOf(s) = Asks("done", None)
    BY <2>2, StandsFailed
  <2>4. Asked(c, Asks("done", None))
    BY <1>0, <2>2, <2>3, NextRequest
  <2> QED BY <1>2, <1>3, <2>1, <2>4, FailsPut
<1> QED BY <1>5, <1>6, <1>7, <1>8 DEF SaveManifest

(* What an idle client asks: nothing *)
LEMMA IdleRequest ==
  ASSUME SoundInv, NEW c \in Clients, pr[c].pc = "idle"
  PROVE  Requests[c].st = "idle"
<1>1. RequestOf(pr[c]) = Asks("idle", None)
  BY StandsIdle
<1> QED BY <1>1, ThisRequest DEF Asks

(* A read's instant is its load of the manifest. *)
LEMMA RegisterReadLoad ==
  ASSUME SoundInv, NEW c \in Readers, NEW op \in {"get", "head"}, ReadLoad(c, op)
  PROVE  OnRegister
<1>0. c \in Clients /\ Requests[c].st = "idle"
  BY IdleRequest DEF Clients, ReadLoad
<1>00. UNCHANGED StoredValue
  BY StoredSame DEF ReadLoad
<1>1. CASE manifest = None
  <2>1. Turns(c, Done(Reply(op, 404, None, None)))
    BY <1>1 DEF ReadLoad, Turns
  <2>2. Asked(c, Asks("done", None))
    BY <1>0, <2>1, FailureRequest
  <2>3. Register!Missing(c, FALSE)
    BY <1>0, <1>00, <1>1, <2>2 DEF Register!Missing, Register!Answer, Asks, Asked, StoredValue
  <2> QED BY <2>3 DEF Register!RNext, OnRegister
<1>2. CASE manifest # None
  <2> DEFINE s == Doing(op, None, manifest)
  <2>1. Turns(c, s) /\ s.pc = op /\ s.man = manifest
    BY <1>2 DEF ReadLoad, Turns, Doing
  <2> HIDE DEF s
  <2>2. StoredValue = Promised(manifest) /\ StoredValue # None
    BY <1>2, SoundParts, SoundValue DEF StoredValue, FilesSound
  <2>3. RequestOf(s) = Asks("read", StoredValue)
    BY <2>1, <2>2, StandsRead
  <2>4. Asked(c, Asks("read", StoredValue))
    BY <1>0, <2>1, <2>3, NextRequest
  <2>5. Register!ReadValue(c)
    BY <1>0, <1>00, <2>2, <2>4 DEF Register!ReadValue, Register!Call, Asks, Asked
  <2> QED BY <2>5 DEF Register!RNext, OnRegister
<1> QED BY <1>1, <1>2

LEMMA FailsRead ==
  ASSUME NEW c \in Readers, NEW v, UNCHANGED manifest, Asked(c, Asks("done", None)),
         Requests[c] = Asks("read", v)
  PROVE  OnRegister
<1>1. Requests[c].st = "read"
  BY DEF Asks
<1>2. Register!FailRead(c)
  BY <1>1, StoredSame DEF Register!FailRead, Register!Answer, Asks, Asked
<1> QED BY <1>2 DEF Register!RNext, OnRegister

LEMMA AcksRead ==
  ASSUME NEW c \in Readers, NEW v, UNCHANGED manifest, Asked(c, Answered(v)),
         Requests[c] = Asks("read", v)
  PROVE  OnRegister
<1>1. Requests[c].st = "read" /\ Requests[c].val = v
  BY DEF Asks
<1>2. Register!AckRead(c)
  BY <1>1, StoredSame DEF Register!AckRead, Register!Answer, Answered, Asked
<1> QED BY <1>2 DEF Register!RNext, OnRegister

(* The shard a verified GET opens later holds what the manifest promised then. *)
LEMMA RegisterGet ==
  ASSUME VerifyOnRead, SoundInv, NEW c \in Readers, GetOpen(c)
  PROVE  OnRegister
<1> DEFINE m == pr[c].man
<1>0. c \in Clients /\ UNCHANGED manifest
  BY DEF Clients, GetOpen
<1>1. Requests[c] = Asks("read", Promised(m))
  <2>1. pr[c].pc \in {"get", "head"}
    BY DEF GetOpen
  <2> QED BY <1>0, <2>1, StandsRead, ThisRequest
<1>2. ASSUME NEW status \in {404, 500}, Finish(c, Reply("get", status, None, None))
      PROVE  OnRegister
  <2>1. Turns(c, Done(Reply("get", status, None, None))) /\ status \notin {200, 204}
    BY <1>2 DEF Turns
  <2>2. Asked(c, Asks("done", None))
    BY <1>0, <2>1, FailureRequest
  <2> QED BY <1>0, <1>1, <2>2, FailsRead
<1>3. CASE /\ FooterMatches(data, m) /\ PayloadMatches(data)
           /\ Finish(c, Reply("get", 200, m.etag, data.payload))
  <2>1. Turns(c, Done(Reply("get", 200, m.etag, data.payload)))
    BY <1>3 DEF Turns
  <2>2. Asked(c, Answered(data.payload))
    BY <1>0, <2>1, ReadRequest
  <2>3. data.payload = Promised(m)
    <3>1. m.hash = Sha256(data.payload)
      BY <1>3 DEF FooterMatches, PayloadMatches
    <3> QED BY <3>1 DEF Promised, Sha256
  <2> QED BY <1>0, <1>1, <2>2, <2>3, AcksRead
<1> QED BY <1>2, <1>3 DEF GetOpen

LEMMA RegisterHead ==
  ASSUME SoundInv, NEW c \in Readers, HeadOpen(c)
  PROVE  OnRegister
<1> DEFINE m == pr[c].man
<1>0. c \in Clients /\ UNCHANGED manifest /\ pr[c].pc = "head"
  BY DEF Clients, HeadOpen
<1>1. Requests[c] = Asks("read", Promised(m))
  BY <1>0, StandsRead, ThisRequest
<1>2. ASSUME NEW status \in {404, 500}, Finish(c, Reply("head", status, None, None))
      PROVE  OnRegister
  <2>1. Turns(c, Done(Reply("head", status, None, None))) /\ status \notin {200, 204}
    BY <1>2 DEF Turns
  <2>2. Asked(c, Asks("done", None))
    BY <1>0, <2>1, FailureRequest
  <2> QED BY <1>0, <1>1, <2>2, FailsRead
<1>3. CASE Finish(c, Reply("head", 200, m.etag, None))
  <2>1. Turns(c, Done(Reply("head", 200, m.etag, None)))
    BY <1>3 DEF Turns
  <2>2. Asked(c, Answered(m.etag[2]))
    BY <1>0, <2>1, ReadRequest
  <2>3. m.etag[2] = Promised(m)
    BY <1>0, ThisRequest, SoundValue DEF ProcessSound, ReadPCs
  <2> QED BY <1>0, <1>1, <2>2, <2>3, AcksRead
<1> QED BY <1>2, <1>3 DEF HeadOpen

LEMMA RegisterDelete ==
  ASSUME SoundInv, NEW c \in Deleters, Delete(c)
  PROVE  OnRegister
<1>0. c \in Clients
  BY DEF Clients
<1>1. CASE DeleteLoad(c)
  <2>0. Requests[c].st = "idle" /\ UNCHANGED StoredValue
    BY <1>0, <1>1, IdleRequest, StoredSame DEF DeleteLoad
  <2>1. CASE pr' = [pr EXCEPT ![c] = Doing("delData", None, manifest)]
    <3> DEFINE s == Doing("delData", None, manifest)
    <3>1. Turns(c, s) /\ s.pc = "delData"
      BY <2>1 DEF Turns, Doing
    <3> HIDE DEF s
    <3>2. Asked(c, Asks("delete", None))
      BY <1>0, <3>1, StandsDelete, NextRequest
    <3>3. Register!CallDelete(c)
      BY <2>0, <3>2 DEF Register!CallDelete, Register!Call, Asks, Asked
    <3> QED BY <3>3 DEF Register!RNext, OnRegister
  <2>2. CASE manifest = None /\ Finish(c, Reply("delete", 204, None, None))
    <3>1. Turns(c, Done(Reply("delete", 204, None, None)))
      BY <2>2 DEF Turns
    <3>2. Asked(c, Answered(None))
      BY <1>0, <3>1, AckedRequest
    <3>3. Register!Missing(c, TRUE)
      BY <2>0, <2>2, <3>2 DEF Register!Missing, Register!Answer, Answered, Asked, StoredValue
    <3> QED BY <3>3 DEF Register!RNext, OnRegister
  <2>3. CASE manifest = None /\ Finish(c, Reply("delete", 404, None, None))
    <3>1. Turns(c, Done(Reply("delete", 404, None, None)))
      BY <2>3 DEF Turns
    <3>2. Asked(c, Asks("done", None))
      BY <1>0, <3>1, FailureRequest
    <3>3. Register!Missing(c, FALSE)
      BY <2>0, <2>3, <3>2 DEF Register!Missing, Register!Answer, Asks, Asked, StoredValue
    <3> QED BY <3>3 DEF Register!RNext, OnRegister
  <2> QED BY <1>1, <2>1, <2>2, <2>3 DEF DeleteLoad
<1>2. CASE DeleteShard(c)
  <2>1. pr[c].pc = "delData" /\ Goto(c, "delManifest") /\ UNCHANGED manifest
    BY <1>2 DEF DeleteShard
  <2>2. PICK s: /\ Turns(c, s)
                /\ s.pc = "delManifest" /\ s.payload = pr[c].payload /\ s.man = pr[c].man
    BY <1>0, <2>1, MovedOn
  <2>3. RequestOf(s) = Asks("delete", None) /\ RequestOf(pr[c]) = Asks("delete", None)
    BY <2>1, <2>2, StandsDelete
  <2> QED BY <1>0, <2>1, <2>2, <2>3, NoRegisterStep
<1>3. CASE DeleteManifest(c)
  <2>1. /\ pr[c].pc = "delManifest" /\ Goto(c, "delParents")
        /\ manifest' = None \/ (IOFaults /\ UNCHANGED manifest)
    BY <1>3 DEF DeleteManifest, Unlinked
  <2>2. PICK s: /\ Turns(c, s)
                /\ s.pc = "delParents" /\ s.payload = pr[c].payload /\ s.man = pr[c].man
    BY <1>0, <2>1, MovedOn
  <2>3. Asked(c, Asks("deleted", None))
    BY <1>0, <2>2, StandsDeleted, NextRequest
  <2>4. Requests[c] = Asks("delete", None)
    BY <1>0, <2>1, StandsDelete, ThisRequest
  <2>5. [Requests[c] EXCEPT !.st = "deleted"] = Asks("deleted", None)
    <3>1. ASSUME NEW ok
          PROVE  [[st |-> "delete", val |-> None, ok |-> ok] EXCEPT !.st = "deleted"]
                   = [st |-> "deleted", val |-> None, ok |-> ok]
      OBVIOUS
    <3> QED BY <2>4, <3>1 DEF Asks
  <2>6. Requests[c].st = "delete"
    BY <2>4 DEF Asks
  <2>7. CASE manifest' = None
    <3>1. StoredValue' = None
      BY <2>7 DEF StoredValue
    <3>2. Register!Erase(c)
      BY <2>3, <2>5, <2>6, <3>1 DEF Register!Erase, Asked
    <3> QED BY <3>2 DEF Register!RNext, OnRegister
  <2>8. CASE IOFaults /\ UNCHANGED manifest
    <3>1. Register!EraseInVain(c)
      BY <2>3, <2>5, <2>6, <2>8, StoredSame DEF Register!EraseInVain, Asked
    <3> QED BY <3>1 DEF Register!RNext, OnRegister
  <2> QED BY <2>1, <2>7, <2>8
<1>4. CASE DeleteParents(c)
  <2>1. /\ pr[c].pc = "delParents" /\ UNCHANGED manifest
        /\ Turns(c, Done(Reply("delete", 204, None, None)))
    BY <1>4 DEF DeleteParents, Turns
  <2>2. Asked(c, Answered(None))
    BY <1>0, <2>1, AckedRequest
  <2>3. RequestOf(pr[c]) = Asks("deleted", None)
    BY <2>1, StandsDeleted
  <2>4. Requests[c].st = "deleted"
    BY <1>0, <2>3, ThisRequest DEF Asks
  <2>5. Register!AckDelete(c)
    BY <2>1, <2>2, <2>4, StoredSame DEF Register!AckDelete, Register!Answer, Answered, Asked
  <2> QED BY <2>5 DEF Register!RNext, OnRegister
<1> QED BY <1>1, <1>2, <1>3, <1>4 DEF Delete

LEMMA IdleStands == RequestOf(Idle) = Register!NoRequest
<1>1. Idle.pc = "idle"
  BY DEF Idle, Doing
<1> QED BY <1>1, StandsIdle DEF Asks, Register!NoRequest

LEMMA RegisterReturn ==
  ASSUME SoundInv, NEW c \in Clients, Return(c)
  PROVE  OnRegister
<1>1. pr[c].pc = "done" /\ Turns(c, Idle) /\ UNCHANGED manifest
  BY DEF Return, Turns
<1>2. Requests[c].st = "done"
  <2>1. ASSUME NEW s, s.pc = "done" PROVE RequestOf(s).st = "done"
    BY <2>1 DEF RequestOf, ReadPCs
  <2> QED BY <1>1, <2>1, ThisRequest
<1>3. Asked(c, Register!NoRequest)
  BY <1>1, IdleStands, NextRequest
<1>4. Register!End(c)
  BY <1>1, <1>2, <1>3, StoredSame DEF Register!End, Asked
<1> QED BY <1>4 DEF Register!RNext, Register!Clients, Clients, OnRegister

(* Scrubbers, the queue, rot and a crash *)
LEMMA RegisterOthers ==
  ASSUME SoundInv,
         (\E s \in Scrubbers: Scrub(s)) \/ AdminEnqueue \/ RotShard \/ Crash \/ UNCHANGED vars
  PROVE  OnRegister
<1>0. pr \in [Procs -> Process]
  BY DEF SoundInv, TypeOK
<1>1. UNCHANGED StoredValue
  BY StoredSame DEF Scrub, ScrubLoad, ScrubCheck, AdminEnqueue, RotShard, Crash, vars
<1>2. ASSUME NEW s \in Scrubbers, Scrub(s) PROVE OnRegister
  <2>1. s \in Procs /\ s \notin Clients
    BY ProcsAssumption DEF Procs
  <2>2. PICK r: pr' = [pr EXCEPT ![s] = r]
    BY <1>2 DEF Scrub, ScrubLoad, ScrubCheck
  <2>3. Requests' = Requests
    BY <1>0, <2>1, <2>2, OneRequest
  <2> QED BY <1>1, <2>3 DEF OnRegister
<1>3. CASE AdminEnqueue \/ RotShard \/ UNCHANGED vars
  <2>1. pr' = pr
    BY <1>3 DEF AdminEnqueue, RotShard, vars
  <2> QED BY <1>1, <2>1 DEF OnRegister, Requests
<1>4. CASE Crash
  <2>1. \A c \in Clients: RequestOf(pr'[c]) = Register!NoRequest
    BY <1>4, IdleStands DEF Crash, Procs
  <2>2. Requests' = [c \in Clients |-> Register!NoRequest]
    BY <2>1 DEF Requests
  <2>3. Register!Restart
    BY <1>1, <2>2 DEF Register!Restart, Register!Clients, Clients
  <2> QED BY <2>3 DEF Register!RNext, OnRegister
<1> QED BY <1>2, <1>3, <1>4

LEMMA RegisterStep ==
  ASSUME Workers = {}, VerifyOnRead, SoundInv, RegInv, [Next]_vars
  PROVE  OnRegister
<1>1. ASSUME NEW c \in Putters, Put(c) PROVE OnRegister
  BY <1>1, RegisterPut
<1>2. ASSUME NEW c \in Putters, SaveManifest(c) PROVE OnRegister
  BY <1>2, RegisterSave
<1>3. ASSUME NEW c \in Readers, Read(c) PROVE OnRegister
  BY <1>3, RegisterReadLoad, RegisterGet, RegisterHead DEF Read
<1>4. ASSUME NEW c \in Deleters, Delete(c) PROVE OnRegister
  BY <1>4, RegisterDelete
<1>5. ASSUME NEW c \in Clients, Return(c) PROVE OnRegister
  BY <1>5, RegisterReturn
<1>6. CASE \/ \E s \in Scrubbers: Scrub(s)
           \/ AdminEnqueue \/ RotShard \/ Crash \/ UNCHANGED vars
  BY <1>6, RegisterOthers
<1> QED BY <1>1, <1>2, <1>3, <1>4, <1>5, <1>6 DEF Next

LEMMA RegisterInit == Init => Register!RInit /\ RegInv
<1> SUFFICES ASSUME Init PROVE Register!RInit /\ RegInv
  OBVIOUS
<1>1. StoredValue = None
  BY DEF Init, StoredValue
<1>2. \A p \in Procs: pr[p] = Idle
  BY DEF Init
<1>3. Requests = [c \in Clients |-> Register!NoRequest]
  BY <1>2, IdleStands DEF Requests, Procs
<1>4. RegInv
  BY <1>2 DEF RegInv, Idle, Doing, SavePCs
<1> QED BY <1>1, <1>3, <1>4 DEF Register!RInit, Register!Clients, Clients

(* LocalFS takes no lock.  Still, with verifyOnRead and no repair worker, Put,   *)
(* Get, Head and Delete of any number of handlers, with scrubbers, rot, disk    *)
(* faults and kills in between, are calls of one atomic register: a write       *)
(* happens when its manifest is renamed, a read when it loads the manifest, a   *)
(* Delete when it removes it.  With disk faults an acknowledged Delete may have *)
(* had no effect: the removal failed, and nobody looked.                       *)
THEOREM RegisterImplemented ==
  ASSUME Workers = {}, VerifyOnRead
  PROVE  Spec => RegisterSpec
<1>1. Init => Register!RInit /\ RegInv
  BY RegisterInit
<1>2. SoundInv /\ RegInv /\ [Next]_vars => RegInv'
  BY RegStep
<1>3. SoundInv /\ RegInv /\ [Next]_vars => [Register!RNext]_<<StoredValue, Requests>>
  BY RegisterStep DEF OnRegister
<1>4. QED
  BY <1>1, <1>2, <1>3, Soundness, PTL DEF Spec, RegisterSpec, Register!RSpec, Register!rvars

=============================================================================
