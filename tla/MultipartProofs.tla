--------------------------- MODULE MultipartProofs ---------------------------
(***************************************************************************)
(* What is proved of Multipart for any uploads, parts, contents and handlers. *)
(* The inductive invariants:                                                *)
(*   ShapeInv     what a handler knows at each point                         *)
(*   EndInv       who was told that it ended an upload                       *)
(*   StagedInv    where the recorded parts are                               *)
(* and, when clients do not overlap their requests,                          *)
(*   CoopInv      who works on an upload at the same time                    *)
(*   ContentInv   what is staged, recorded and assembled                     *)
(*   CoverInv     who removes what is left of an upload                      *)
(***************************************************************************)
EXTENDS Multipart, FiniteSetTheorems, TLAPS

USE DEF At, Become, Goto, table

(* The points at which a handler uploads a part, completes, ends an upload   *)
UploadPCs == {"stage", "record"}
CompletePCs == {"open", "etag", "clean"}
EndPCs == {"open", "etag", "clean", "abort", "sweep"}

PCsOf(p) ==
  {"idle", "done"}
    \cup {pc \in UploadPCs: p \in Uploaders}
    \cup {pc \in CompletePCs: p \in Completers}
    \cup {pc \in {"abort"}: p \in Aborters}
    \cup {pc \in {"collect", "sweep"}: p \in Collectors}

Shape(p, r) ==
  /\ r.pc \in PCsOf(p)
  /\ r.pc \in UploadPCs \cup EndPCs => r.up \in born
  /\ r.pc \in UploadPCs => r.num \in PartNum /\ r.body \in [1..1 -> Chunk]
  /\ r.pc = "clean" => r.num >= 1
  /\ r.ups \subseteq born

ShapeInv ==
  /\ TypeOK
  /\ \A p \in Procs: Shape(p, pr[p])
  /\ \A u \in Uploads \ born: parts[u] = NoParts /\ staged[u] = NoParts

PartTable == [PartNum -> Chunk \cup {None}]
StagedTable == [PartNum -> Chunk \cup {None, Torn}]

---------------------------------------------------------------------------
(* Sets of part numbers *)

LEMMA PartNumbers ==
  /\ PartNum \subseteq Nat /\ IsFiniteSet(PartNum)
  /\ \A S \in SUBSET PartNum: IsFiniteSet(S) /\ Cardinality(S) \in Nat
                               /\ 1..Cardinality(S) \subseteq PartNum
<1>1. PICK k \in Nat: PartNum = 1..k
  BY PartNumAssumption
<1>2. IsFiniteSet(PartNum) /\ Cardinality(PartNum) = k
  BY <1>1, FS_Interval
<1>3. ASSUME NEW S \in SUBSET PartNum
      PROVE  IsFiniteSet(S) /\ Cardinality(S) \in Nat /\ Cardinality(S) <= k
  BY <1>2, FS_Subset, FS_CardinalityType
<1>4. QED
  BY <1>1, <1>2, <1>3

(* len(upload.Parts) as the loops over the parts use it: 1..Count are part    *)
(* numbers, and they are the recorded ones when all up to Count are recorded. *)
LEMMA CountBounds ==
  ASSUME NEW u
  PROVE  Count(u) \in Nat /\ 1..Count(u) \subseteq PartNum /\ Recorded(u) \subseteq PartNum
BY PartNumbers DEF Count, Recorded

LEMMA CountAll ==
  ASSUME NEW u, NEW k \in Nat, k >= Count(u), 1..k \subseteq Recorded(u)
  PROVE  k = Count(u) /\ Recorded(u) = 1..k
<1>1. Recorded(u) \subseteq PartNum /\ IsFiniteSet(Recorded(u))
  BY PartNumbers DEF Recorded
<1>2. Cardinality(1..k) = k /\ IsFiniteSet(1..k)
  BY FS_Interval
<1>3. Cardinality(1..k) <= Cardinality(Recorded(u))
  BY <1>1, FS_Subset
<1>4. Cardinality(1..k) = Cardinality(Recorded(u))
  BY <1>2, <1>3, CountBounds DEF Count
<1>5. 1..k = Recorded(u)
  BY <1>1, <1>4, FS_Subset
<1>6. QED
  BY <1>2, <1>4, <1>5 DEF Count

---------------------------------------------------------------------------
(* Types *)

(* An update of one field of a handler's state; those of several fields are   *)
(* put together from these.                                                  *)
PCs == {"idle", "stage", "record", "open", "etag", "clean", "abort", "collect",
        "sweep", "done"}

LEMMA SetPc ==
  ASSUME NEW r \in Process, NEW x \in PCs, NEW e, e = [r EXCEPT !.pc = x]
  PROVE  /\ e \in Process /\ e.pc = x
         /\ e.up = r.up /\ e.todo = r.todo /\ e.seen = r.seen /\ e.num = r.num
         /\ e.body = r.body /\ e.etag = r.etag /\ e.ups = r.ups /\ e.status = r.status
BY DEF Process, PCs

LEMMA SetUp ==
  ASSUME NEW r \in Process, NEW x \in Uploads \cup {None}, NEW e, e = [r EXCEPT !.up = x]
  PROVE  /\ e \in Process /\ e.up = x
         /\ e.pc = r.pc /\ e.todo = r.todo /\ e.seen = r.seen /\ e.num = r.num
         /\ e.body = r.body /\ e.etag = r.etag /\ e.ups = r.ups /\ e.status = r.status
BY DEF Process

LEMMA SetTodo ==
  ASSUME NEW r \in Process, NEW x \in SUBSET PartNum, NEW e, e = [r EXCEPT !.todo = x]
  PROVE  /\ e \in Process /\ e.todo = x
         /\ e.pc = r.pc /\ e.up = r.up /\ e.seen = r.seen /\ e.num = r.num
         /\ e.body = r.body /\ e.etag = r.etag /\ e.ups = r.ups /\ e.status = r.status
BY DEF Process

LEMMA SetNum ==
  ASSUME NEW r \in Process, NEW x \in Nat, NEW e, e = [r EXCEPT !.num = x]
  PROVE  /\ e \in Process /\ e.num = x
         /\ e.pc = r.pc /\ e.up = r.up /\ e.todo = r.todo /\ e.seen = r.seen
         /\ e.body = r.body /\ e.etag = r.etag /\ e.ups = r.ups /\ e.status = r.status
BY DEF Process

LEMMA SetBody ==
  ASSUME NEW r \in Process, NEW x \in Seq(Chunk), NEW e, e = [r EXCEPT !.body = x]
  PROVE  /\ e \in Process /\ e.body = x
         /\ e.pc = r.pc /\ e.up = r.up /\ e.todo = r.todo /\ e.seen = r.seen
         /\ e.num = r.num /\ e.etag = r.etag /\ e.ups = r.ups /\ e.status = r.status
BY DEF Process

LEMMA SetEtag ==
  ASSUME NEW r \in Process, NEW x \in ETags \cup {None}, NEW e, e = [r EXCEPT !.etag = x]
  PROVE  /\ e \in Process /\ e.etag = x
         /\ e.pc = r.pc /\ e.up = r.up /\ e.todo = r.todo /\ e.seen = r.seen
         /\ e.num = r.num /\ e.body = r.body /\ e.ups = r.ups /\ e.status = r.status
BY DEF Process

LEMMA SetUps ==
  ASSUME NEW r \in Process, NEW x \in SUBSET Uploads, NEW e, e = [r EXCEPT !.ups = x]
  PROVE  /\ e \in Process /\ e.ups = x
         /\ e.pc = r.pc /\ e.up = r.up /\ e.todo = r.todo /\ e.seen = r.seen
         /\ e.num = r.num /\ e.body = r.body /\ e.etag = r.etag /\ e.status = r.status
BY DEF Process

LEMMA SetStatus ==
  ASSUME NEW r \in Process, NEW x \in {200, 204, 400, 404, 500}, NEW e, e = [r EXCEPT !.status = x]
  PROVE  /\ e \in Process /\ e.status = x
         /\ e.pc = r.pc /\ e.up = r.up /\ e.todo = r.todo /\ e.seen = r.seen
         /\ e.num = r.num /\ e.body = r.body /\ e.etag = r.etag /\ e.ups = r.ups
BY DEF Process

(* The states in which handlers start *)
LEMMA EmptyHanded ==
  ASSUME NEW pc \in PCs, NEW u \in Uploads \cup {None}, NEW S \in SUBSET PartNum
  PROVE  LET r == Handler(pc, u, S, 0, <<>>) IN
         /\ r \in Process /\ r.pc = pc /\ r.up = u /\ r.todo = S /\ r.seen = {}
         /\ r.num = 0 /\ r.body = <<>> /\ r.etag = None /\ r.ups = {} /\ r.status = 0
<1> DEFINE b == <<>>
<1>1. b \in Seq(Chunk)
  OBVIOUS
<1>2. 0 \in Nat
  OBVIOUS
<1> HIDE DEF b
<1> DEFINE r == Handler(pc, u, S, 0, b)
<1>3. /\ r \in Process /\ r.pc = pc /\ r.up = u /\ r.todo = S /\ r.seen = {}
      /\ r.num = 0 /\ r.body = b /\ r.etag = None /\ r.ups = {} /\ r.status = 0
  BY <1>1, <1>2 DEF Handler, Process, PCs
<1>4. QED
  BY <1>3 DEF b

LEMMA WithPart ==
  ASSUME NEW u \in Uploads, NEW n \in PartNum, NEW c \in Chunk
  PROVE  LET r == Handler("stage", u, {}, n, <<c>>) IN
         /\ r \in Process /\ r.pc = "stage" /\ r.up = u /\ r.num = n /\ r.ups = {}
         /\ r.body \in [1..1 -> Chunk]
<1> DEFINE b == <<c>>
<1>1. b \in Seq(Chunk) /\ b \in [1..1 -> Chunk] /\ n \in Nat
  BY PartNumbers
<1> HIDE DEF b
<1> DEFINE r == Handler("stage", u, {}, n, b)
<1>2. /\ r \in Process /\ r.pc = "stage" /\ r.up = u /\ r.num = n /\ r.ups = {}
      /\ r.body = b
  BY <1>1 DEF Handler, Process, PCs
<1> HIDE DEF r
<1>3. QED
  BY <1>1, <1>2 DEF b, r

LEMMA IdleProcess ==
  /\ Idle \in Process
  /\ Idle.pc = "idle" /\ Idle.up = None /\ Idle.num = 0 /\ Idle.body = <<>>
  /\ Idle.seen = {} /\ Idle.todo = {} /\ Idle.ups = {}
BY EmptyHanded DEF Idle, PCs

LEMMA ShapeInit == Init => ShapeInv
<1> SUFFICES ASSUME Init PROVE ShapeInv
  OBVIOUS
<1>1. pr \in [Procs -> Process] /\ \A p \in Procs: pr[p] = Idle
  BY IdleProcess DEF Init
<1>2. NoParts \in PartTable /\ NoParts \in StagedTable
  BY DEF NoParts, PartTable, StagedTable
<1>3. TypeOK
  BY <1>1, <1>2 DEF Init, TypeOK, PartTable, StagedTable
<1>4. \A p \in Procs: Shape(p, pr[p])
  BY <1>1, IdleProcess DEF Shape, PCsOf, UploadPCs, EndPCs
<1>5. QED
  BY <1>3, <1>4 DEF ShapeInv, Init

(* One handler moves: it knows what it has to, and the tables keep their      *)
(* types.                                                                   *)
LEMMA ShapeStep ==
  ASSUME ShapeInv, NEW p \in Procs, NEW r \in Process, pr' = [pr EXCEPT ![p] = r],
         Shape(p, r), born \subseteq born', born' \subseteq Uploads, active' \subseteq born',
         stale' = stale, object' \in Seq(Chunk) \cup {None, Torn}, late' \subseteq Uploads,
         parts' \in [Uploads -> PartTable], staged' \in [Uploads -> StagedTable],
         \A u \in Uploads \ born: parts'[u] = parts[u] /\ staged'[u] = staged[u]
  PROVE  ShapeInv'
<1>1. pr' \in [Procs -> Process] /\ pr'[p] = r /\ \A q \in Procs \ {p}: pr'[q] = pr[q]
  BY DEF ShapeInv, TypeOK
<1>2. TypeOK'
  BY <1>1 DEF ShapeInv, TypeOK, PartTable, StagedTable
<1>3. \A q \in Procs: Shape(q, pr[q])
  BY DEF ShapeInv
<1>4. \A q \in Procs: Shape(q, pr'[q])
  BY <1>1, <1>3
<1>5. \A q \in Procs: Shape(q, pr[q])'
  BY <1>4 DEF Shape
<1>6. QED
  BY <1>2, <1>5 DEF ShapeInv, NoParts

(* ... in particular when only its own state changes. *)
LEMMA ShapeLocal ==
  ASSUME ShapeInv, NEW p \in Procs, NEW r \in Process, pr' = [pr EXCEPT ![p] = r],
         Shape(p, r), UNCHANGED <<born, stale, parts, staged, late>>, active' \subseteq active,
         object' \in Seq(Chunk) \cup {None, Torn}
  PROVE  ShapeInv'
BY ShapeStep DEF ShapeInv, TypeOK, PartTable, StagedTable

(* What a handler that answered is left with *)
LEMMA Answered ==
  ASSUME NEW p \in Procs, NEW u \in Uploads \cup {None},
         NEW status \in {200, 204, 400, 404, 500}, Answer(p, u, status)
  PROVE  \E e \in Process:
           /\ pr' = [pr EXCEPT ![p] = e] /\ Shape(p, e)
           /\ e.pc = "done" /\ e.up = u /\ e.status = status
<1> DEFINE d == Handler("done", u, {}, 0, <<>>)
           e == [d EXCEPT !.status = status]
<1>2. d \in Process /\ d.pc = "done" /\ d.up = u /\ d.ups = {}
  BY EmptyHanded DEF PCs
<1>3. pr' = [pr EXCEPT ![p] = e]
  BY DEF Answer
<1> HIDE DEF d
<1>4. e \in Process /\ e.pc = "done" /\ e.up = u /\ e.ups = {} /\ e.status = status
  BY <1>2, SetStatus
<1> HIDE DEF e
<1>5. Shape(p, e)
  BY <1>4 DEF Shape, PCsOf, UploadPCs, EndPCs
<1>6. QED
  BY <1>3, <1>4, <1>5

LEMMA ShapeAnswer ==
  ASSUME ShapeInv, NEW p \in Procs, NEW u \in Uploads \cup {None},
         NEW status \in {200, 204, 400, 404, 500}, Answer(p, u, status),
         UNCHANGED <<born, stale, parts, staged, late>>, active' \subseteq active,
         object' \in Seq(Chunk) \cup {None, Torn}
  PROVE  ShapeInv'
<1>1. PICK e \in Process: pr' = [pr EXCEPT ![p] = e] /\ Shape(p, e)
  BY Answered
<1>2. QED
  BY <1>1, ShapeLocal

---------------------------------------------------------------------------
(* The handlers keep the types and know what they have to. *)

LEMMA ShapeOf ==
  ASSUME ShapeInv, NEW p \in Procs
  PROVE  pr[p] \in Process /\ Shape(p, pr[p])
BY DEF ShapeInv, TypeOK

LEMMA ShapeInitiate ==
  ASSUME ShapeInv, NEW p \in Initiators, Initiate(p)
  PROVE  ShapeInv'
<1>1. PICK u \in Uploads \ born:
        /\ active' = active \cup {u} /\ born' = born \cup {u}
        /\ Answer(p, u, 200)
  BY DEF Initiate
<1>2. p \in Procs
  BY DEF Procs
<1>3. PICK e \in Process: pr' = [pr EXCEPT ![p] = e] /\ Shape(p, e)
  BY <1>1, <1>2, Answered
<1>4. active' \subseteq born' /\ born' \subseteq Uploads /\ born \subseteq born'
      /\ UNCHANGED <<stale, parts, staged, object, late>>
  BY <1>1 DEF Initiate, ShapeInv, TypeOK
<1>5. QED
  BY <1>2, <1>3, <1>4, ShapeStep DEF ShapeInv, TypeOK, PartTable, StagedTable

LEMMA ShapeUpload ==
  ASSUME ShapeInv, NEW p \in Uploaders, UploadBegin(p) \/ UploadStage(p) \/ UploadRecord(p)
  PROVE  ShapeInv'
<1>1. p \in Procs /\ pr[p] \in Process /\ Shape(p, pr[p]) /\ TypeOK
  BY ShapeOf DEF Procs, ShapeInv
<1>2. CASE UploadBegin(p)
  <2>1. PICK u \in born, n \in PartNum, c \in Chunk:
          IF u \in active THEN Become(p, Handler("stage", u, {}, n, <<c>>))
                          ELSE Answer(p, u, 404)
    BY <1>2 DEF UploadBegin
  <2> DEFINE e == Handler("stage", u, {}, n, <<c>>)
  <2>2. u \in Uploads /\ n \in Nat
    BY <1>1, PartNumbers DEF TypeOK
  <2>3. /\ e \in Process /\ e.pc = "stage" /\ e.up = u /\ e.num = n /\ e.ups = {}
        /\ e.body \in [1..1 -> Chunk]
    BY <2>2, WithPart
  <2> HIDE DEF e
  <2>4. Shape(p, e)
    BY <2>3 DEF Shape, PCsOf, UploadPCs
  <2>5. UNCHANGED <<table, staged, object>>
    BY <1>2 DEF UploadBegin
  <2>6. CASE u \in active
    BY <1>1, <2>1, <2>3, <2>4, <2>5, <2>6, ShapeLocal DEF TypeOK, e
  <2>7. CASE u \notin active
    BY <1>1, <2>1, <2>2, <2>5, <2>7, ShapeAnswer DEF TypeOK
  <2>8. QED
    BY <2>6, <2>7
<1>3. ASSUME pr[p].pc \in UploadPCs
      PROVE  /\ pr[p].up \in Uploads /\ pr[p].up \in born
             /\ pr[p].num \in PartNum /\ pr[p].body[1] \in Chunk
  BY <1>1, <1>3 DEF Shape, TypeOK
<1>4. CASE UploadStage(p)
  <2>1. At(p, "stage") /\ UNCHANGED <<active, born, stale, parts, object>>
    BY <1>4 DEF UploadStage
  <2>2. pr[p].up \in Uploads /\ pr[p].up \in born /\ pr[p].num \in PartNum
        /\ pr[p].body[1] \in Chunk
    BY <1>3, <2>1 DEF UploadPCs
  <2>3. late' \subseteq Uploads
    BY <1>1, <1>4, <2>2 DEF UploadStage, TypeOK
  <2>4. /\ staged' \in [Uploads -> StagedTable]
        /\ \A u \in Uploads \ born: staged'[u] = staged[u]
    <3>1. PICK left \in {staged[pr[p].up][pr[p].num], Torn, pr[p].body[1]}:
            staged' = [staged EXCEPT ![pr[p].up][pr[p].num] = left]
      BY <1>4 DEF UploadStage, FailedPut
    <3>2. left \in Chunk \cup {None, Torn}
      BY <1>1, <2>2, <3>1 DEF TypeOK
    <3>3. QED
      BY <1>1, <2>2, <3>1, <3>2 DEF TypeOK, StagedTable
  <2>5. CASE Answer(p, pr[p].up, 500)
    <3>1. PICK e \in Process: pr' = [pr EXCEPT ![p] = e] /\ Shape(p, e)
      BY <1>1, <2>2, <2>5, Answered
    <3>2. QED
      BY <1>1, <2>1, <2>3, <2>4, <3>1, ShapeStep DEF TypeOK, PartTable
  <2>6. CASE Goto(p, "record")
    <3> DEFINE e == [pr[p] EXCEPT !.pc = "record"]
    <3>1. pr' = [pr EXCEPT ![p] = e]
      BY <2>6
    <3>2. e \in Process /\ Shape(p, e)
      BY <1>1, <2>1 DEF Process, Shape, PCsOf, UploadPCs
    <3>3. QED
      BY <1>1, <2>1, <2>3, <2>4, <3>1, <3>2, ShapeStep DEF TypeOK, PartTable
  <2>7. QED
    BY <1>4, <2>5, <2>6 DEF UploadStage
<1>5. CASE UploadRecord(p)
  <2>1. At(p, "record") /\ UNCHANGED <<active, born, stale, staged, object, late>>
    BY <1>5 DEF UploadRecord
  <2>2. CASE Answer(p, pr[p].up, 500) /\ UNCHANGED parts
    BY <1>1, <1>3, <2>1, <2>2, ShapeAnswer DEF TypeOK, UploadPCs
  <2>3. CASE /\ parts' = [parts EXCEPT ![pr[p].up][pr[p].num] = pr[p].body[1]]
             /\ Answer(p, pr[p].up, 200)
    <3>1. PICK e \in Process: pr' = [pr EXCEPT ![p] = e] /\ Shape(p, e)
      BY <1>1, <1>3, <2>1, <2>3, Answered DEF UploadPCs
    <3>2. parts' \in [Uploads -> PartTable] /\ \A u \in Uploads \ born: parts'[u] = parts[u]
      BY <1>1, <1>3, <2>1, <2>3 DEF UploadPCs, TypeOK, PartTable
    <3>3. QED
      BY <1>1, <2>1, <3>1, <3>2, ShapeStep DEF TypeOK, PartTable, StagedTable
  <2>4. QED
    BY <1>5, <2>2, <2>3 DEF UploadRecord
<1>6. QED
  BY <1>2, <1>4, <1>5

(* What a Delete in the staging bucket leaves: nothing of the part, or what    *)
(* was there, or half of it.                                                 *)
LEMMA DeleteTypes ==
  ASSUME TypeOK, NEW u \in Uploads, u \in born, NEW n \in PartNum, DeletePart(u, n)
  PROVE  /\ staged' \in [Uploads -> StagedTable]
         /\ \A v \in Uploads \ born: staged'[v] = staged[v]
         /\ \A v \in Uploads, m \in PartNum:
              \/ staged'[v][m] = staged[v][m]
              \/ v = u /\ m = n /\ (staged'[v][m] = None \/ IOFaults)
<1>1. CASE UNCHANGED staged
  BY <1>1 DEF TypeOK, StagedTable
<1>2. CASE staged' = [staged EXCEPT ![u][n] = None]
  BY <1>2 DEF TypeOK, StagedTable
<1>3. CASE IOFaults /\ staged' = [staged EXCEPT ![u][n] = Torn]
  BY <1>3 DEF TypeOK, StagedTable
<1>4. QED
  BY <1>1, <1>2, <1>3 DEF DeletePart, Drop

LEMMA ETagType ==
  ASSUME TypeOK, NEW u \in Uploads
  PROVE  MultipartETag(u) \in ETags
<1> DEFINE S == Recorded(u) \cap 1..Count(u)
           ps == [i \in S |-> parts[u][i]]
<1>1. S \in SUBSET PartNum /\ Count(u) \in Nat
  BY CountBounds
<1>2. \A i \in S: parts[u][i] \in Chunk
  BY DEF Recorded, TypeOK
<1>3. ps \in [S -> Chunk]
  BY <1>2
<1> HIDE DEF S
<1>4. ps \in PartList
  BY <1>1, <1>3 DEF PartList
<1> HIDE DEF ps
<1>5. Composite(ps, Count(u)) \in ETags
  BY <1>1, <1>4 DEF Composite, ETags
<1>6. QED
  BY <1>5 DEF MultipartETag, ps, S

(* What a handler at work on an upload has to hand *)
LEMMA AtWork ==
  ASSUME ShapeInv, NEW p \in Procs, pr[p].pc \in UploadPCs \cup EndPCs
  PROVE  pr[p].up \in Uploads /\ pr[p].up \in born
BY DEF ShapeInv, TypeOK, Shape

LEMMA ShapeComplete ==
  ASSUME ShapeInv, NEW p \in Completers,
         \/ CompleteLoad(p) \/ CompleteOpen(p) \/ CompleteWrite(p)
         \/ CompleteETag(p) \/ CompleteClean(p) \/ CompleteCommit(p)
  PROVE  ShapeInv'
<1>1. p \in Procs /\ pr[p] \in Process /\ Shape(p, pr[p]) /\ TypeOK
  BY ShapeOf DEF Procs, Enders, ShapeInv
<1>2. CASE CompleteLoad(p)
  <2>1. PICK u \in born:
          \/ \E status \in {404, 400}: Answer(p, u, status)
          \/ Become(p, Handler("open", u, {}, 0, <<>>))
    BY <1>2 DEF CompleteLoad
  <2>2. UNCHANGED <<table, staged, object>> /\ u \in Uploads
    BY <1>1, <1>2 DEF CompleteLoad, TypeOK
  <2>3. CASE Become(p, Handler("open", u, {}, 0, <<>>))
    <3> DEFINE e == Handler("open", u, {}, 0, <<>>)
    <3>1. e \in Process /\ e.pc = "open" /\ e.up = u /\ e.ups = {}
      BY <2>2, EmptyHanded DEF PCs
    <3>2. pr' = [pr EXCEPT ![p] = e]
      BY <2>3
    <3> HIDE DEF e
    <3>3. Shape(p, e)
      BY <3>1 DEF Shape, PCsOf, CompletePCs, UploadPCs
    <3>4. QED
      BY <1>1, <2>2, <3>1, <3>2, <3>3, ShapeLocal DEF TypeOK
  <2>4. CASE \E status \in {404, 400}: Answer(p, u, status)
    BY <1>1, <2>2, <2>4, ShapeAnswer DEF TypeOK
  <2>5. QED
    BY <2>1, <2>3, <2>4
<1>3. CASE CompleteOpen(p)
  <2> DEFINE i == Len(pr[p].body) + 1
             b == Append(pr[p].body, staged[pr[p].up][i])
             e == [pr[p] EXCEPT !.body = b]
  <2>1. At(p, "open") /\ UNCHANGED <<table, staged, object>> /\ i <= Count(pr[p].up)
        /\ (\/ i \in Readable(pr[p].up) /\ pr' = [pr EXCEPT ![p] = e]
            \/ Answer(p, pr[p].up, 500))
    BY <1>3 DEF CompleteOpen
  <2>2. pr[p].up \in Uploads
    BY <1>1, <2>1, AtWork DEF EndPCs
  <2>3. i \in PartNum
    BY <1>1, <2>1, CountBounds DEF Process
  <2>4. CASE Answer(p, pr[p].up, 500)
    BY <1>1, <2>1, <2>2, <2>4, ShapeAnswer DEF TypeOK
  <2>5. CASE i \in Readable(pr[p].up) /\ pr' = [pr EXCEPT ![p] = e]
    <3>1. staged[pr[p].up][i] \in Chunk
      BY <1>1, <2>2, <2>3, <2>5 DEF TypeOK, Readable
    <3>2. b \in Seq(Chunk)
      BY <1>1, <3>1 DEF Process
    <3> HIDE DEF b
    <3>3. e \in Process /\ e.pc = "open" /\ e.up = pr[p].up /\ e.ups = pr[p].ups
      BY <1>1, <2>1, <3>2, SetBody
    <3> HIDE DEF e
    <3>4. Shape(p, e)
      BY <1>1, <2>1, <3>3 DEF Shape, UploadPCs, EndPCs
    <3>5. QED
      BY <1>1, <2>1, <2>5, <3>3, <3>4, ShapeLocal DEF TypeOK
  <2>6. QED
    BY <2>1, <2>4, <2>5
<1>4. CASE CompleteWrite(p)
  <2> DEFINE e == [pr[p] EXCEPT !.pc = "etag"]
  <2>1. At(p, "open") /\ UNCHANGED <<table, staged>>
        /\ (\/ object' = pr[p].body /\ pr' = [pr EXCEPT ![p] = e]
            \/ Answer(p, pr[p].up, 500) /\ object' \in {object, Torn, pr[p].body})
    BY <1>4 DEF CompleteWrite, FailedPut
  <2>2. pr[p].up \in Uploads
    BY <1>1, <2>1, AtWork DEF EndPCs
  <2>3. CASE Answer(p, pr[p].up, 500) /\ object' \in {object, Torn, pr[p].body}
    <3>1. object' \in Seq(Chunk) \cup {None, Torn}
      BY <1>1, <2>3 DEF TypeOK, Process
    <3>2. QED
      BY <1>1, <2>1, <2>2, <2>3, <3>1, ShapeAnswer
  <2>4. CASE object' = pr[p].body /\ pr' = [pr EXCEPT ![p] = e]
    <3>1. e \in Process /\ e.pc = "etag" /\ e.up = pr[p].up /\ e.ups = pr[p].ups
      BY <1>1, SetPc DEF PCs
    <3>2. pr[p].body \in Seq(Chunk)
      BY <1>1 DEF Process
    <3> HIDE DEF e
    <3>3. Shape(p, e)
      BY <1>1, <2>1, <3>1 DEF Shape, PCsOf, UploadPCs, EndPCs, CompletePCs
    <3>4. QED
      BY <1>1, <2>1, <2>4, <3>1, <3>2, <3>3, ShapeLocal
  <2>5. QED
    BY <2>1, <2>3, <2>4
<1>5. CASE CompleteETag(p)
  <2> DEFINE r1 == [pr[p] EXCEPT !.etag = MultipartETag(pr[p].up)]
             r2 == [r1 EXCEPT !.pc = "clean"]
             e == [r2 EXCEPT !.num = 1]
  <2>1. At(p, "etag") /\ UNCHANGED <<table, staged, object>> /\ pr' = [pr EXCEPT ![p] = e]
    BY <1>5 DEF CompleteETag
  <2>2. pr[p].up \in Uploads
    BY <1>1, <2>1, AtWork DEF EndPCs
  <2>3. r1 \in Process /\ r1.up = pr[p].up /\ r1.ups = pr[p].ups
    BY <1>1, <2>2, ETagType, SetEtag
  <2> HIDE DEF r1
  <2>4. r2 \in Process /\ r2.up = pr[p].up /\ r2.ups = pr[p].ups /\ r2.pc = "clean"
    BY <2>3, SetPc DEF PCs
  <2> HIDE DEF r2
  <2>5. e \in Process /\ e.up = pr[p].up /\ e.ups = pr[p].ups /\ e.pc = "clean" /\ e.num = 1
    BY <2>4, SetNum
  <2> HIDE DEF e
  <2>6. Shape(p, e)
    BY <1>1, <2>1, <2>5 DEF Shape, PCsOf, UploadPCs, EndPCs, CompletePCs
  <2>7. QED
    BY <1>1, <2>1, <2>5, <2>6, ShapeLocal DEF TypeOK
<1>6. CASE CompleteClean(p)
  <2> DEFINE e == [pr[p] EXCEPT !.num = pr[p].num + 1]
  <2>1. At(p, "clean") /\ UNCHANGED <<table, object>> /\ pr' = [pr EXCEPT ![p] = e]
        /\ DeletePart(pr[p].up, pr[p].num) /\ pr[p].num <= Count(pr[p].up)
    BY <1>6 DEF CompleteClean
  <2>2. pr[p].up \in Uploads /\ pr[p].up \in born /\ pr[p].num \in PartNum
    BY <1>1, <2>1, AtWork, CountBounds DEF EndPCs, Shape, Process
  <2>3. e \in Process /\ e.pc = "clean" /\ e.up = pr[p].up /\ e.ups = pr[p].ups
        /\ e.num = pr[p].num + 1 /\ pr[p].num \in Nat
    BY <1>1, <2>1, SetNum DEF Process
  <2> HIDE DEF e
  <2>4. Shape(p, e)
    BY <1>1, <2>1, <2>3 DEF Shape, PCsOf, UploadPCs, EndPCs, CompletePCs
  <2>5. /\ staged' \in [Uploads -> StagedTable]
        /\ \A u \in Uploads \ born: staged'[u] = staged[u]
    BY <1>1, <2>1, <2>2, DeleteTypes
  <2>6. QED
    BY <1>1, <2>1, <2>3, <2>4, <2>5, ShapeStep DEF TypeOK, PartTable
<1>7. CASE CompleteCommit(p)
  <2> DEFINE r1 == [pr[p] EXCEPT !.pc = "done"]
             e == [r1 EXCEPT !.status = 200]
  <2>1. At(p, "clean") /\ UNCHANGED <<born, stale, parts, staged, object, late>>
        /\ active' = active \ {pr[p].up}
        /\ (pr' = [pr EXCEPT ![p] = e] \/ Answer(p, pr[p].up, 500))
    BY <1>7 DEF CompleteCommit, CompleteEnd
  <2>2. pr[p].up \in Uploads
    BY <1>1, <2>1, AtWork DEF EndPCs
  <2>3. CASE Answer(p, pr[p].up, 500)
    BY <1>1, <2>1, <2>2, <2>3, ShapeAnswer DEF TypeOK
  <2>4. CASE pr' = [pr EXCEPT ![p] = e]
    <3>1. r1 \in Process /\ r1.ups = pr[p].ups /\ r1.pc = "done"
      BY <1>1, SetPc DEF PCs
    <3> HIDE DEF r1
    <3>2. e \in Process /\ e.ups = pr[p].ups /\ e.pc = "done"
      BY <3>1, SetStatus
    <3> HIDE DEF e
    <3>3. Shape(p, e)
      BY <1>1, <3>2 DEF Shape, PCsOf, UploadPCs, EndPCs
    <3>4. QED
      BY <1>1, <2>1, <2>4, <3>2, <3>3, ShapeLocal DEF TypeOK
  <2>5. QED
    BY <2>1, <2>3, <2>4
<1>8. QED
  BY <1>2, <1>3, <1>4, <1>5, <1>6, <1>7

LEMMA ShapeAbort ==
  ASSUME ShapeInv, NEW p \in Aborters, AbortLoad(p) \/ AbortDelete(p) \/ AbortCommit(p)
  PROVE  ShapeInv'
<1>1. p \in Procs /\ pr[p] \in Process /\ Shape(p, pr[p]) /\ TypeOK
  BY ShapeOf DEF Procs, Enders, ShapeInv
<1>2. CASE AbortLoad(p)
  <2>1. PICK u \in born:
          Answer(p, u, 404) \/ Become(p, Handler("abort", u, Recorded(u), 0, <<>>))
    BY <1>2 DEF AbortLoad
  <2>2. UNCHANGED <<table, staged, object>> /\ u \in Uploads
    BY <1>1, <1>2 DEF AbortLoad, TypeOK
  <2>3. CASE Become(p, Handler("abort", u, Recorded(u), 0, <<>>))
    <3> DEFINE e == Handler("abort", u, Recorded(u), 0, <<>>)
    <3>1. e \in Process /\ e.pc = "abort" /\ e.up = u /\ e.ups = {}
      BY <2>2, CountBounds, EmptyHanded DEF PCs
    <3>2. pr' = [pr EXCEPT ![p] = e]
      BY <2>3
    <3> HIDE DEF e
    <3>3. Shape(p, e)
      BY <3>1 DEF Shape, PCsOf, UploadPCs
    <3>4. QED
      BY <1>1, <2>2, <3>1, <3>2, <3>3, ShapeLocal DEF TypeOK
  <2>4. CASE Answer(p, u, 404)
    BY <1>1, <2>2, <2>4, ShapeAnswer DEF TypeOK
  <2>5. QED
    BY <2>1, <2>3, <2>4
<1>3. CASE AbortDelete(p)
  <2>1. PICK n \in Recorded(pr[p].up) \ pr[p].seen:
          /\ DeletePart(pr[p].up, n)
          /\ pr' = [pr EXCEPT ![p] = [pr[p] EXCEPT !.seen = pr[p].seen \cup {n}]]
    BY <1>3 DEF AbortDelete
  <2> DEFINE S == pr[p].seen \cup {n}
             e == [pr[p] EXCEPT !.seen = S]
  <2>2. At(p, "abort") /\ UNCHANGED <<table, object>>
    BY <1>3 DEF AbortDelete
  <2>3. pr[p].up \in Uploads /\ pr[p].up \in born /\ n \in PartNum
    BY <1>1, <2>2, AtWork, CountBounds DEF EndPCs
  <2>4. S \in SUBSET PartNum
    BY <1>1, <2>3 DEF Process
  <2>5. pr' = [pr EXCEPT ![p] = e]
    BY <2>1
  <2> HIDE DEF S
  <2>6. e \in Process /\ e.pc = "abort" /\ e.up = pr[p].up /\ e.ups = pr[p].ups
    BY <1>1, <2>2, <2>4 DEF Process
  <2> HIDE DEF e
  <2>7. Shape(p, e)
    BY <1>1, <2>2, <2>6 DEF Shape, UploadPCs, EndPCs
  <2>8. /\ staged' \in [Uploads -> StagedTable]
        /\ \A u \in Uploads \ born: staged'[u] = staged[u]
    BY <1>1, <2>1, <2>3, DeleteTypes
  <2>9. QED
    BY <1>1, <2>2, <2>5, <2>6, <2>7, <2>8, ShapeStep DEF TypeOK, PartTable
<1>4. CASE AbortCommit(p)
  <2>1. PICK status \in {204, 500}: Answer(p, pr[p].up, status)
    BY <1>4 DEF AbortCommit
  <2>2. /\ At(p, "abort") /\ active' \subseteq active
        /\ UNCHANGED <<born, stale, parts, staged, object, late>>
    BY <1>4 DEF AbortCommit
  <2>3. QED
    BY <1>1, <2>1, <2>2, AtWork, ShapeAnswer DEF TypeOK, EndPCs
<1>5. QED
  BY <1>2, <1>3, <1>4

LEMMA ShapeCollect ==
  ASSUME ShapeInv, NEW p \in Collectors,
         GCBegin(p) \/ GCList(p) \/ GCDelete(p) \/ GCAbort(p)
  PROVE  ShapeInv'
<1>1. p \in Procs /\ pr[p] \in Process /\ Shape(p, pr[p]) /\ TypeOK
  BY ShapeOf DEF Procs, Enders, ShapeInv
<1>2. CASE GCBegin(p)
  <2> DEFINE r1 == [Idle EXCEPT !.pc = "collect"]
             e == [r1 EXCEPT !.ups = active \cap stale]
  <2>1. UNCHANGED <<table, staged, object>> /\ pr' = [pr EXCEPT ![p] = e]
    BY <1>2 DEF GCBegin
  <2>2. r1 \in Process /\ r1.pc = "collect"
    BY IdleProcess, SetPc DEF PCs
  <2> HIDE DEF r1
  <2>3. e \in Process /\ e.pc = "collect" /\ e.ups \subseteq born
    <3>1. active \cap stale \in SUBSET Uploads /\ active \cap stale \subseteq born
      BY <1>1 DEF TypeOK
    <3>2. QED
      BY <2>2, <3>1, SetUps
  <2> HIDE DEF e
  <2>4. Shape(p, e)
    BY <2>3 DEF Shape, PCsOf, UploadPCs, EndPCs
  <2>5. QED
    BY <1>1, <2>1, <2>3, <2>4, ShapeLocal DEF TypeOK
<1>3. CASE GCList(p)
  <2>1. PICK u \in pr[p].ups, found \in SUBSET PartNum:
          Become(p, [pr[p] EXCEPT !.pc = "sweep", !.up = u, !.todo = found,
                                  !.ups = pr[p].ups \ {u}])
    BY <1>3 DEF GCList, Readable
  <2> DEFINE r1 == [pr[p] EXCEPT !.pc = "sweep"]
             r2 == [r1 EXCEPT !.up = u]
             r3 == [r2 EXCEPT !.todo = found]
             e == [r3 EXCEPT !.ups = r3.ups \ {u}]
  <2>2. u \in born /\ u \in Uploads
    BY <1>1 DEF Shape, TypeOK
  <2>3. UNCHANGED <<table, staged, object>>
    BY <1>3 DEF GCList
  <2>4. pr' = [pr EXCEPT ![p] = e]
    BY <2>1
  <2>5. r1 \in Process /\ r1.pc = "sweep" /\ r1.ups = pr[p].ups
    BY <1>1, SetPc DEF PCs
  <2> HIDE DEF r1
  <2>6. r2 \in Process /\ r2.pc = "sweep" /\ r2.ups = pr[p].ups /\ r2.up = u
    BY <2>2, <2>5, SetUp
  <2> HIDE DEF r2
  <2>7. r3 \in Process /\ r3.pc = "sweep" /\ r3.ups = pr[p].ups /\ r3.up = u
    BY <2>2, <2>6, SetTodo
  <2> HIDE DEF r3
  <2>8. e \in Process /\ e.pc = "sweep" /\ e.ups = pr[p].ups \ {u} /\ e.up = u
    <3>1. r3.ups \ {u} \in SUBSET Uploads
      BY <2>7 DEF Process
    <3>2. QED
      BY <2>7, <3>1, SetUps
  <2> HIDE DEF e
  <2>9. Shape(p, e)
    BY <1>1, <2>2, <2>8 DEF Shape, PCsOf, UploadPCs
  <2>10. QED
    BY <1>1, <2>3, <2>4, <2>8, <2>9, ShapeLocal DEF TypeOK
<1>4. CASE GCDelete(p)
  <2>1. PICK n \in pr[p].todo:
          /\ DeletePart(pr[p].up, n)
          /\ pr' = [pr EXCEPT ![p] = [pr[p] EXCEPT !.todo = pr[p].todo \ {n}]]
    BY <1>4 DEF GCDelete
  <2> DEFINE S == pr[p].todo \ {n}
             e == [pr[p] EXCEPT !.todo = S]
  <2>2. At(p, "sweep") /\ UNCHANGED <<table, object>>
    BY <1>4 DEF GCDelete
  <2>3. pr[p].up \in Uploads /\ pr[p].up \in born /\ n \in PartNum
    BY <1>1, <2>2, AtWork DEF EndPCs, Process
  <2>4. S \in SUBSET PartNum
    BY <1>1, <2>3 DEF Process
  <2>5. pr' = [pr EXCEPT ![p] = e]
    BY <2>1
  <2> HIDE DEF S
  <2>6. e \in Process /\ e.pc = "sweep" /\ e.up = pr[p].up /\ e.ups = pr[p].ups
    BY <1>1, <2>2, <2>4 DEF Process
  <2> HIDE DEF e
  <2>7. Shape(p, e)
    BY <1>1, <2>2, <2>6 DEF Shape, UploadPCs, EndPCs
  <2>8. /\ staged' \in [Uploads -> StagedTable]
        /\ \A u \in Uploads \ born: staged'[u] = staged[u]
    BY <1>1, <2>1, <2>3, DeleteTypes
  <2>9. QED
    BY <1>1, <2>2, <2>5, <2>6, <2>7, <2>8, ShapeStep DEF TypeOK, PartTable
<1>5. CASE GCAbort(p)
  <2>1. /\ At(p, "sweep") /\ active' \subseteq active
        /\ UNCHANGED <<born, stale, parts, staged, object, late>>
        /\ \/ \E status \in {204, 404}: Answer(p, pr[p].up, status)
           \/ pr' = [pr EXCEPT ![p] = [pr[p] EXCEPT !.pc = "collect"]]
    BY <1>5 DEF GCAbort
  <2>2. CASE \E status \in {204, 404}: Answer(p, pr[p].up, status)
    BY <1>1, <2>1, <2>2, AtWork, ShapeAnswer DEF TypeOK, EndPCs
  <2>3. CASE pr' = [pr EXCEPT ![p] = [pr[p] EXCEPT !.pc = "collect"]]
    <3> DEFINE e == [pr[p] EXCEPT !.pc = "collect"]
    <3>1. e \in Process /\ e.pc = "collect" /\ e.ups = pr[p].ups
      BY <1>1, SetPc DEF PCs
    <3>2. pr' = [pr EXCEPT ![p] = e]
      BY <2>3
    <3> HIDE DEF e
    <3>3. Shape(p, e)
      BY <1>1, <3>1 DEF Shape, PCsOf, UploadPCs, EndPCs
    <3>4. QED
      BY <1>1, <2>1, <3>1, <3>2, <3>3, ShapeLocal DEF TypeOK
  <2>4. QED
    BY <2>1, <2>2, <2>3
<1>6. QED
  BY <1>2, <1>3, <1>4, <1>5

LEMMA ShapeReturn ==
  ASSUME ShapeInv, NEW p \in Procs, Return(p)
  PROVE  ShapeInv'
<1>1. Shape(p, Idle)
  BY IdleProcess DEF Shape, PCsOf, UploadPCs, EndPCs
<1>2. pr' = [pr EXCEPT ![p] = Idle] /\ UNCHANGED <<table, staged, object>>
  BY DEF Return
<1>3. QED
  BY <1>1, <1>2, IdleProcess, ShapeLocal DEF ShapeInv, TypeOK

LEMMA ShapeCrash == ShapeInv /\ Crash => ShapeInv'
<1> SUFFICES ASSUME ShapeInv, Crash PROVE ShapeInv'
  OBVIOUS
<1>1. pr' \in [Procs -> Process] /\ \A p \in Procs: pr'[p] = Idle
  BY IdleProcess DEF Crash
<1>2. NoParts \in PartTable /\ parts' = [u \in Uploads |-> NoParts]
  BY DEF NoParts, PartTable, Crash
<1>3. active' = {} /\ UNCHANGED <<born, stale, staged, object, late>>
  BY DEF Crash
<1>4. TypeOK'
  BY <1>1, <1>2, <1>3 DEF ShapeInv, TypeOK, PartTable
<1>5. \A p \in Procs: Shape(p, pr[p])'
  BY <1>1, IdleProcess DEF Shape, PCsOf, UploadPCs, EndPCs
<1>6. QED
  BY <1>2, <1>3, <1>4, <1>5 DEF ShapeInv, NoParts

LEMMA ShapeNext == ShapeInv /\ [Next]_vars => ShapeInv'
<1> SUFFICES ASSUME ShapeInv, [Next]_vars PROVE ShapeInv'
  OBVIOUS
<1>1. ASSUME NEW p \in Procs, Step(p) PROVE ShapeInv'
  BY <1>1, ShapeInitiate, ShapeUpload, ShapeComplete, ShapeAbort, ShapeCollect,
     ShapeReturn DEF Step
<1>2. ASSUME NEW u \in Uploads, Age(u) PROVE ShapeInv'
  BY <1>2 DEF Age, ShapeInv, TypeOK, Shape, NoParts
<1>3. CASE UNCHANGED vars
  BY <1>3 DEF vars, ShapeInv, TypeOK, Shape, NoParts
<1>4. QED
  BY <1>1, <1>2, <1>3, ShapeCrash DEF Next

(* The store's table, the staging bucket, the object and the handlers keep    *)
(* their types, and each handler knows its upload and its part, with any      *)
(* number of uploads, parts and handlers, faults and crashes included.        *)
THEOREM MultipartShape == Spec => []ShapeInv
  BY ShapeInit, ShapeNext, PTL DEF Spec

(* Every variable keeps its type: in particular a part a client names, an     *)
(* upload id and an ETag are among those the store can hold.                 *)
THEOREM MultipartTypeCorrect == Spec => []TypeOK
<1>1. ShapeInv => TypeOK
  BY DEF ShapeInv
<1>2. QED
  BY <1>1, MultipartShape, PTL

---------------------------------------------------------------------------
(* What a step changes, one disjunct per thing a handler may do, in terms of  *)
(* the handler's state before (r) and after (e).                             *)

Others(p) == \A q \in Procs \ {p}: pr'[q] = pr[q]

InitiateEffect(p) ==
  /\ Others(p) /\ pr'[p].pc = "done"
  /\ \E u \in Uploads \ born: active' = active \cup {u} /\ born' = born \cup {u}
  /\ UNCHANGED <<parts, staged, late>>

UploadEffect(p) ==
  LET r == pr[p]  e == pr'[p] IN
  /\ Others(p) /\ UNCHANGED <<active, born>> /\ late \subseteq late'
  /\ \/ /\ r.pc = "idle" /\ e.pc = "stage" /\ e.up \in active /\ e.num \in PartNum
        /\ MayUpload(e.up, e.num)
        /\ UNCHANGED <<parts, staged>>
     \/ /\ r.pc = "stage" /\ e.pc = "record" /\ e.up = r.up /\ e.num = r.num /\ e.body = r.body
        /\ staged' = [staged EXCEPT ![r.up][r.num] = r.body[1]]
        /\ r.up \in late' \/ (r.up \in active /\ ~Swept(r.up))
        /\ UNCHANGED parts
     \/ /\ r.pc = "stage" /\ e.pc = "done" /\ IOFaults
        /\ \E left \in FailedPut(staged[r.up][r.num], r.body[1]):
             staged' = [staged EXCEPT ![r.up][r.num] = left]
        /\ UNCHANGED parts
     \/ /\ r.pc = "record" /\ e.pc = "done"
        /\ parts' = [parts EXCEPT ![r.up][r.num] = r.body[1]]
        /\ r.up \in active
        /\ UNCHANGED staged
     \/ /\ r.pc \in {"idle", "record"} /\ e.pc = "done" /\ (r.pc = "record" => r.up \notin active)
        /\ UNCHANGED <<parts, staged>>

CompleteEffect(p) ==
  LET r == pr[p]  e == pr'[p]  i == Len(r.body) + 1 IN
  /\ Others(p) /\ UNCHANGED <<born, parts, late>>
  /\ \/ /\ r.pc \in {"idle", "open"} /\ e.pc = "done" /\ e.status # 200
        /\ UNCHANGED <<active, staged>>
     \/ /\ r.pc = "idle" /\ e.pc = "open" /\ e.up \in active /\ MayEnd(e.up) /\ e.body = <<>>
        /\ UNCHANGED <<active, staged>>
     \/ /\ r.pc = "open" /\ e.pc = "open" /\ e.up = r.up
        /\ i \in Readable(r.up) /\ e.body = Append(r.body, staged[r.up][i])
        /\ UNCHANGED <<active, staged>>
     \/ /\ r.pc = "open" /\ e.pc = "etag" /\ e.up = r.up /\ e.body = r.body
        /\ Len(r.body) >= Count(r.up)
        /\ UNCHANGED <<active, staged>>
     \/ /\ r.pc = "etag" /\ e.pc = "clean" /\ e.up = r.up /\ e.body = r.body
        /\ e.num = 1 /\ e.etag = MultipartETag(r.up)
        /\ UNCHANGED <<active, staged>>
     \/ /\ r.pc = "clean" /\ e.pc = "clean" /\ e.up = r.up /\ e.body = r.body
        /\ r.num \in PartNum /\ DeletePart(r.up, r.num)
        /\ e.num = r.num + 1 /\ e.etag = r.etag
        /\ UNCHANGED active
     \/ /\ r.pc = "clean" /\ e.pc = "done" /\ r.num > Count(r.up)
        /\ IF r.up \in active
           THEN e.status = 200 /\ e.up = r.up /\ e.body = r.body /\ e.etag = r.etag
           ELSE e.status # 200
        /\ active' = active \ {r.up} /\ UNCHANGED staged

AbortEffect(p) ==
  LET r == pr[p]  e == pr'[p] IN
  /\ Others(p) /\ UNCHANGED <<born, parts, late>>
  /\ \/ /\ r.pc = "idle" /\ e.pc = "done" /\ e.status # 204
        /\ UNCHANGED <<active, staged>>
     \/ /\ r.pc = "idle" /\ e.pc = "abort" /\ e.up \in active /\ MayEnd(e.up)
        /\ e.todo = Recorded(e.up) /\ e.seen = {}
        /\ UNCHANGED <<active, staged>>
     \/ /\ r.pc = "abort" /\ e.pc = "abort" /\ e.up = r.up /\ e.todo = r.todo
        /\ \E n \in PartNum: DeletePart(r.up, n) /\ e.seen = r.seen \cup {n}
        /\ UNCHANGED active
     \/ /\ r.pc = "abort" /\ e.pc = "done" /\ r.todo \subseteq r.seen
        /\ e.up = r.up /\ (r.up \notin active => e.status # 204)
        /\ active' = active \ {r.up} /\ UNCHANGED staged

CollectEffect(p) ==
  LET r == pr[p]  e == pr'[p] IN
  /\ Others(p) /\ UNCHANGED <<born, parts, late>>
  /\ \/ /\ r.pc = "idle" /\ e.pc = "collect"
        /\ UNCHANGED <<active, staged>>
     \/ /\ r.pc = "collect" /\ e.pc = "sweep"
        /\ e.todo = Readable(e.up) \/ Disturbed(e.up, p) \/ IOFaults
        /\ UNCHANGED <<active, staged>>
     \/ /\ r.pc = "sweep" /\ e.pc = "sweep" /\ e.up = r.up
        /\ \E n \in PartNum: DeletePart(r.up, n) /\ e.todo = r.todo \ {n}
        /\ UNCHANGED active
     \/ /\ r.pc = "sweep" /\ e.pc \in {"done", "collect"} /\ r.todo = {}
        /\ e.up = r.up /\ (r.up \notin active => e.status # 204 \/ e.pc # "done")
        /\ active' = active \ {r.up} /\ UNCHANGED staged

LEMMA NewState ==
  ASSUME ShapeInv, NEW p \in Procs, NEW e, pr' = [pr EXCEPT ![p] = e]
  PROVE  Others(p) /\ pr'[p] = e
BY DEF ShapeInv, TypeOK, Others

LEMMA NewAnswer ==
  ASSUME ShapeInv, NEW p \in Procs, NEW u \in Uploads \cup {None},
         NEW status \in {200, 204, 400, 404, 500}, Answer(p, u, status)
  PROVE  Others(p) /\ pr'[p].pc = "done" /\ pr'[p].up = u /\ pr'[p].status = status
BY Answered, NewState

LEMMA InitiateEffects ==
  ASSUME ShapeInv, NEW p \in Initiators, Initiate(p)
  PROVE  InitiateEffect(p)
<1>1. PICK u \in Uploads \ born:
        /\ active' = active \cup {u} /\ born' = born \cup {u}
        /\ Answer(p, u, 200)
  BY DEF Initiate
<1>2. p \in Procs
  BY DEF Procs
<1>3. QED
  BY <1>1, <1>2, NewAnswer DEF InitiateEffect, Initiate

LEMMA UploadEffects ==
  ASSUME ShapeInv, NEW p \in Uploaders, UploadBegin(p) \/ UploadStage(p) \/ UploadRecord(p)
  PROVE  UploadEffect(p)
<1>1. p \in Procs /\ pr[p] \in Process /\ TypeOK
  BY ShapeOf DEF Procs, ShapeInv
<1>2. CASE UploadBegin(p)
  <2>1. PICK u \in born, n \in PartNum, c \in Chunk:
          /\ MayUpload(u, n)
          /\ IF u \in active THEN Become(p, Handler("stage", u, {}, n, <<c>>))
                             ELSE Answer(p, u, 404)
    BY <1>2 DEF UploadBegin
  <2>2. UNCHANGED <<table, staged>> /\ u \in Uploads /\ At(p, "idle")
    BY <1>1, <1>2 DEF UploadBegin, TypeOK
  <2>3. CASE u \in active
    <3> DEFINE e == Handler("stage", u, {}, n, <<c>>)
    <3>1. e.pc = "stage" /\ e.up = u /\ e.num = n
      BY <2>2, WithPart
    <3>2. pr' = [pr EXCEPT ![p] = e]
      BY <2>1, <2>3
    <3> HIDE DEF e
    <3>3. Others(p) /\ pr'[p] = e
      BY <1>1, <3>2, NewState
    <3>4. QED
      BY <2>1, <2>2, <2>3, <3>1, <3>3 DEF UploadEffect
  <2>4. CASE u \notin active
    BY <1>1, <2>1, <2>2, <2>4, NewAnswer DEF UploadEffect
  <2>5. QED
    BY <2>3, <2>4
<1>3. CASE UploadStage(p)
  <2>1. /\ At(p, "stage") /\ UNCHANGED <<active, born, stale, parts, object>>
        /\ pr[p].up \in Uploads
        /\ late \subseteq late' /\ (pr[p].up \in late' \/ (pr[p].up \in active /\ ~Swept(pr[p].up)))
    BY <1>1, <1>3, AtWork DEF UploadStage, UploadPCs
  <2>2. CASE /\ IOFaults /\ Answer(p, pr[p].up, 500)
             /\ \E left \in FailedPut(staged[pr[p].up][pr[p].num], pr[p].body[1]):
                  staged' = [staged EXCEPT ![pr[p].up][pr[p].num] = left]
    <3>1. Others(p) /\ pr'[p].pc = "done"
      BY <1>1, <2>1, <2>2, NewAnswer
    <3>2. QED
      BY <2>1, <2>2, <3>1 DEF UploadEffect
  <2>3. CASE /\ staged' = [staged EXCEPT ![pr[p].up][pr[p].num] = pr[p].body[1]]
             /\ Goto(p, "record")
    <3> DEFINE e == [pr[p] EXCEPT !.pc = "record"]
    <3>1. pr' = [pr EXCEPT ![p] = e]
      BY <2>3
    <3>2. e.pc = "record" /\ e.up = pr[p].up /\ e.num = pr[p].num /\ e.body = pr[p].body
      BY <1>1 DEF Process
    <3> HIDE DEF e
    <3>3. Others(p) /\ pr'[p] = e
      BY <1>1, <3>1, NewState
    <3>4. QED
      BY <2>1, <2>3, <3>2, <3>3 DEF UploadEffect
  <2>4. QED
    BY <1>3, <2>2, <2>3 DEF UploadStage
<1>4. CASE UploadRecord(p)
  <2>1. At(p, "record") /\ UNCHANGED <<active, born, staged, late>> /\ pr[p].up \in Uploads
    BY <1>1, <1>4, AtWork DEF UploadRecord, UploadPCs
  <2>2. CASE pr[p].up \in active
    BY <1>1, <1>4, <2>1, <2>2, NewAnswer DEF UploadEffect, UploadRecord
  <2>3. CASE pr[p].up \notin active
    BY <1>1, <1>4, <2>1, <2>3, NewAnswer DEF UploadEffect, UploadRecord
  <2>4. QED
    BY <2>2, <2>3
<1>5. QED
  BY <1>2, <1>3, <1>4

LEMMA CompleteEffects ==
  ASSUME ShapeInv, NEW p \in Completers,
         \/ CompleteLoad(p) \/ CompleteOpen(p) \/ CompleteWrite(p)
         \/ CompleteETag(p) \/ CompleteClean(p) \/ CompleteCommit(p)
  PROVE  CompleteEffect(p)
<1>1. p \in Procs /\ pr[p] \in Process /\ Shape(p, pr[p]) /\ TypeOK
  BY ShapeOf DEF Procs, Enders, ShapeInv
<1>2. CASE CompleteLoad(p)
  <2>1. PICK u \in born:
          \/ \E status \in {404, 400}: Answer(p, u, status)
          \/ u \in active /\ MayEnd(u) /\ Become(p, Handler("open", u, {}, 0, <<>>))
    BY <1>2 DEF CompleteLoad
  <2>2. UNCHANGED <<table, staged>> /\ u \in Uploads /\ At(p, "idle")
    BY <1>1, <1>2 DEF CompleteLoad, TypeOK
  <2>3. CASE u \in active /\ MayEnd(u) /\ Become(p, Handler("open", u, {}, 0, <<>>))
    <3> DEFINE e == Handler("open", u, {}, 0, <<>>)
    <3>1. e.pc = "open" /\ e.up = u /\ e.body = <<>>
      BY <2>2, EmptyHanded DEF PCs
    <3>2. pr' = [pr EXCEPT ![p] = e]
      BY <2>3
    <3> HIDE DEF e
    <3>3. Others(p) /\ pr'[p] = e
      BY <1>1, <3>2, NewState
    <3>4. QED
      BY <2>2, <2>3, <3>1, <3>3 DEF CompleteEffect
  <2>4. CASE \E status \in {404, 400}: Answer(p, u, status)
    BY <1>1, <2>2, <2>4, NewAnswer DEF CompleteEffect
  <2>5. QED
    BY <2>1, <2>3, <2>4
<1>3. CASE CompleteOpen(p)
  <2> DEFINE i == Len(pr[p].body) + 1
             b == Append(pr[p].body, staged[pr[p].up][i])
             e == [pr[p] EXCEPT !.body = b]
  <2>1. At(p, "open") /\ UNCHANGED <<table, staged>> /\ i <= Count(pr[p].up)
        /\ (\/ i \in Readable(pr[p].up) /\ pr' = [pr EXCEPT ![p] = e]
            \/ Answer(p, pr[p].up, 500))
    BY <1>3 DEF CompleteOpen
  <2>2. pr[p].up \in Uploads
    BY <1>1, <2>1, AtWork DEF EndPCs
  <2>3. i \in PartNum
    BY <1>1, <2>1, CountBounds DEF Process
  <2>4. CASE Answer(p, pr[p].up, 500)
    BY <1>1, <2>1, <2>2, <2>4, NewAnswer DEF CompleteEffect
  <2>5. CASE i \in Readable(pr[p].up) /\ pr' = [pr EXCEPT ![p] = e]
    <3>1. e.pc = "open" /\ e.up = pr[p].up /\ e.body = b
      BY <1>1, <2>1 DEF Process
    <3> HIDE DEF e
    <3>2. Others(p) /\ pr'[p] = e
      BY <1>1, <2>5, NewState
    <3>3. QED
      BY <2>1, <2>3, <2>5, <3>1, <3>2 DEF CompleteEffect
  <2>6. QED
    BY <2>1, <2>4, <2>5
<1>4. CASE CompleteWrite(p)
  <2> DEFINE e == [pr[p] EXCEPT !.pc = "etag"]
  <2>1. At(p, "open") /\ UNCHANGED <<table, staged>> /\ Len(pr[p].body) >= Count(pr[p].up)
        /\ (\/ pr' = [pr EXCEPT ![p] = e]
            \/ Answer(p, pr[p].up, 500))
    BY <1>4 DEF CompleteWrite
  <2>2. pr[p].up \in Uploads
    BY <1>1, <2>1, AtWork DEF EndPCs
  <2>3. CASE Answer(p, pr[p].up, 500)
    BY <1>1, <2>1, <2>2, <2>3, NewAnswer DEF CompleteEffect
  <2>4. CASE pr' = [pr EXCEPT ![p] = e]
    <3>1. e.pc = "etag" /\ e.up = pr[p].up /\ e.body = pr[p].body
      BY <1>1 DEF Process
    <3> HIDE DEF e
    <3>2. Others(p) /\ pr'[p] = e
      BY <1>1, <2>4, NewState
    <3>3. QED
      BY <2>1, <3>1, <3>2 DEF CompleteEffect
  <2>5. QED
    BY <2>1, <2>3, <2>4
<1>5. CASE CompleteETag(p)
  <2> DEFINE t == MultipartETag(pr[p].up)
             r1 == [pr[p] EXCEPT !.etag = t]
             r2 == [r1 EXCEPT !.pc = "clean"]
             e == [r2 EXCEPT !.num = 1]
  <2>1. At(p, "etag") /\ UNCHANGED <<table, staged>> /\ pr' = [pr EXCEPT ![p] = e]
    BY <1>5 DEF CompleteETag
  <2>2. t \in ETags
    BY <1>1, <2>1, AtWork, ETagType DEF EndPCs
  <2> HIDE DEF t
  <2>3. r1 \in Process /\ r1.up = pr[p].up /\ r1.body = pr[p].body /\ r1.etag = t
    BY <1>1, <2>2, SetEtag
  <2> HIDE DEF r1
  <2>4. r2 \in Process /\ r2.up = pr[p].up /\ r2.body = pr[p].body /\ r2.etag = t
        /\ r2.pc = "clean"
    BY <2>3, SetPc DEF PCs
  <2> HIDE DEF r2
  <2>5. e.up = pr[p].up /\ e.body = pr[p].body /\ e.etag = t /\ e.pc = "clean" /\ e.num = 1
    BY <2>4, SetNum
  <2> HIDE DEF e
  <2>6. Others(p) /\ pr'[p] = e
    BY <1>1, <2>1, NewState
  <2>7. QED
    BY <2>1, <2>5, <2>6 DEF CompleteEffect, t
<1>6. CASE CompleteClean(p)
  <2> DEFINE e == [pr[p] EXCEPT !.num = pr[p].num + 1]
  <2>1. At(p, "clean") /\ UNCHANGED table /\ pr' = [pr EXCEPT ![p] = e]
        /\ DeletePart(pr[p].up, pr[p].num) /\ pr[p].num <= Count(pr[p].up)
    BY <1>6 DEF CompleteClean
  <2>2. pr[p].num \in PartNum
    BY <1>1, <2>1, CountBounds DEF Shape, Process
  <2>3. e.pc = "clean" /\ e.up = pr[p].up /\ e.body = pr[p].body /\ e.etag = pr[p].etag
        /\ e.num = pr[p].num + 1
    BY <1>1, <2>1 DEF Process
  <2> HIDE DEF e
  <2>4. Others(p) /\ pr'[p] = e
    BY <1>1, <2>1, NewState
  <2>5. QED
    BY <2>1, <2>2, <2>3, <2>4 DEF CompleteEffect
<1>7. CASE CompleteCommit(p)
  <2> DEFINE r1 == [pr[p] EXCEPT !.pc = "done"]
             e == [r1 EXCEPT !.status = 200]
  <2>1. At(p, "clean") /\ UNCHANGED <<born, parts, staged, late>> /\ pr[p].num > Count(pr[p].up)
        /\ active' = active \ {pr[p].up}
        /\ IF pr[p].up \in active THEN pr' = [pr EXCEPT ![p] = e]
                                  ELSE Answer(p, pr[p].up, 500)
    BY <1>7 DEF CompleteCommit, CompleteEnd
  <2>2. pr[p].up \in Uploads
    BY <1>1, <2>1, AtWork DEF EndPCs
  <2>3. CASE pr[p].up \notin active
    BY <1>1, <2>1, <2>2, <2>3, NewAnswer DEF CompleteEffect
  <2>4. CASE pr[p].up \in active
    <3>1. r1 \in Process /\ r1.up = pr[p].up /\ r1.body = pr[p].body /\ r1.etag = pr[p].etag
          /\ r1.pc = "done"
      BY <1>1, SetPc DEF PCs
    <3> HIDE DEF r1
    <3>2. e.up = pr[p].up /\ e.body = pr[p].body /\ e.etag = pr[p].etag /\ e.pc = "done"
          /\ e.status = 200
      BY <3>1, SetStatus
    <3> HIDE DEF e
    <3>3. Others(p) /\ pr'[p] = e
      BY <1>1, <2>1, <2>4, NewState
    <3>4. QED
      BY <2>1, <2>4, <3>2, <3>3 DEF CompleteEffect
  <2>5. QED
    BY <2>3, <2>4
<1>8. QED
  BY <1>2, <1>3, <1>4, <1>5, <1>6, <1>7

LEMMA AbortEffects ==
  ASSUME ShapeInv, NEW p \in Aborters, AbortLoad(p) \/ AbortDelete(p) \/ AbortCommit(p)
  PROVE  AbortEffect(p)
<1>1. p \in Procs /\ pr[p] \in Process /\ Shape(p, pr[p]) /\ TypeOK
  BY ShapeOf DEF Procs, Enders, ShapeInv
<1>2. CASE AbortLoad(p)
  <2>1. PICK u \in born:
          \/ Answer(p, u, 404)
          \/ u \in active /\ MayEnd(u) /\ Become(p, Handler("abort", u, Recorded(u), 0, <<>>))
    BY <1>2 DEF AbortLoad
  <2>2. UNCHANGED <<table, staged>> /\ u \in Uploads /\ At(p, "idle")
    BY <1>1, <1>2 DEF AbortLoad, TypeOK
  <2>3. CASE u \in active /\ MayEnd(u) /\ Become(p, Handler("abort", u, Recorded(u), 0, <<>>))
    <3> DEFINE e == Handler("abort", u, Recorded(u), 0, <<>>)
    <3>1. e.pc = "abort" /\ e.up = u /\ e.todo = Recorded(u) /\ e.seen = {}
      BY <2>2, CountBounds, EmptyHanded DEF PCs
    <3>2. pr' = [pr EXCEPT ![p] = e]
      BY <2>3
    <3> HIDE DEF e
    <3>3. Others(p) /\ pr'[p] = e
      BY <1>1, <3>2, NewState
    <3>4. QED
      BY <2>2, <2>3, <3>1, <3>3 DEF AbortEffect
  <2>4. CASE Answer(p, u, 404)
    BY <1>1, <2>2, <2>4, NewAnswer DEF AbortEffect
  <2>5. QED
    BY <2>1, <2>3, <2>4
<1>3. CASE AbortDelete(p)
  <2>1. PICK n \in Recorded(pr[p].up) \ pr[p].seen:
          /\ DeletePart(pr[p].up, n)
          /\ pr' = [pr EXCEPT ![p] = [pr[p] EXCEPT !.seen = pr[p].seen \cup {n}]]
    BY <1>3 DEF AbortDelete
  <2> DEFINE S == pr[p].seen \cup {n}
             e == [pr[p] EXCEPT !.seen = S]
  <2>2. At(p, "abort") /\ UNCHANGED table /\ n \in PartNum
    BY <1>3, <2>1 DEF AbortDelete, Recorded
  <2>3. pr' = [pr EXCEPT ![p] = e]
    BY <2>1
  <2> HIDE DEF S
  <2>4. e.pc = "abort" /\ e.up = pr[p].up /\ e.todo = pr[p].todo /\ e.seen = S
    BY <1>1, <2>2 DEF Process
  <2> HIDE DEF e
  <2>5. Others(p) /\ pr'[p] = e
    BY <1>1, <2>3, NewState
  <2>6. QED
    BY <2>1, <2>2, <2>4, <2>5 DEF AbortEffect, S
<1>4. CASE AbortCommit(p)
  <2>1. At(p, "abort") /\ UNCHANGED <<born, parts, staged, late>> /\ pr[p].todo \subseteq pr[p].seen
        /\ active' = active \ {pr[p].up}
        /\ Answer(p, pr[p].up, IF pr[p].up \in active THEN 204 ELSE 500)
    BY <1>4 DEF AbortCommit
  <2>2. pr[p].up \in Uploads
    BY <1>1, <2>1, AtWork DEF EndPCs
  <2>3. Others(p) /\ pr'[p].pc = "done" /\ pr'[p].up = pr[p].up
        /\ pr'[p].status = IF pr[p].up \in active THEN 204 ELSE 500
    BY <1>1, <2>1, <2>2, NewAnswer
  <2>4. QED
    BY <2>1, <2>3 DEF AbortEffect
<1>5. QED
  BY <1>2, <1>3, <1>4

LEMMA CollectEffects ==
  ASSUME ShapeInv, NEW p \in Collectors,
         GCBegin(p) \/ GCList(p) \/ GCDelete(p) \/ GCAbort(p)
  PROVE  CollectEffect(p)
<1>1. p \in Procs /\ pr[p] \in Process /\ Shape(p, pr[p]) /\ TypeOK
  BY ShapeOf DEF Procs, Enders, ShapeInv
<1>2. CASE GCBegin(p)
  <2> DEFINE r1 == [Idle EXCEPT !.pc = "collect"]
             S == active \cap stale
             e == [r1 EXCEPT !.ups = S]
  <2>1. At(p, "idle") /\ UNCHANGED <<table, staged>> /\ pr' = [pr EXCEPT ![p] = e]
    BY <1>2 DEF GCBegin
  <2>2. r1 \in Process /\ r1.pc = "collect"
    BY IdleProcess, SetPc DEF PCs
  <2> HIDE DEF r1, S
  <2>3. e.pc = "collect"
    BY <2>2 DEF Process
  <2> HIDE DEF e
  <2>4. Others(p) /\ pr'[p] = e
    BY <1>1, <2>1, NewState
  <2>5. QED
    BY <2>1, <2>3, <2>4 DEF CollectEffect
<1>3. CASE GCList(p)
  <2>1. PICK u \in pr[p].ups, found \in SUBSET PartNum:
          /\ found = Readable(u) \/ Disturbed(u, p) \/ IOFaults
          /\ Become(p, [pr[p] EXCEPT !.pc = "sweep", !.up = u, !.todo = found,
                                     !.ups = pr[p].ups \ {u}])
    BY <1>3 DEF GCList, Readable
  <2> DEFINE r1 == [pr[p] EXCEPT !.pc = "sweep"]
             r2 == [r1 EXCEPT !.up = u]
             r3 == [r2 EXCEPT !.todo = found]
             S == pr[p].ups \ {u}
             e == [r3 EXCEPT !.ups = S]
  <2>2. u \in Uploads
    BY <1>1 DEF Shape, TypeOK
  <2>3. At(p, "collect") /\ UNCHANGED <<table, staged>>
    BY <1>3 DEF GCList
  <2>4. pr' = [pr EXCEPT ![p] = e]
    BY <2>1
  <2> HIDE DEF S
  <2>5. r1 \in Process /\ r1.pc = "sweep"
    BY <1>1, SetPc DEF PCs
  <2> HIDE DEF r1
  <2>6. r2 \in Process /\ r2.pc = "sweep" /\ r2.up = u
    BY <2>2, <2>5, SetUp
  <2> HIDE DEF r2
  <2>7. r3 \in Process /\ r3.pc = "sweep" /\ r3.up = u /\ r3.todo = found
    BY <2>6, SetTodo
  <2> HIDE DEF r3
  <2>8. e.pc = "sweep" /\ e.up = u /\ e.todo = found
    BY <2>7 DEF Process
  <2> HIDE DEF e
  <2>9. Others(p) /\ pr'[p] = e
    BY <1>1, <2>4, NewState
  <2>10. QED
    BY <2>1, <2>3, <2>8, <2>9 DEF CollectEffect
<1>4. CASE GCDelete(p)
  <2>1. PICK n \in pr[p].todo:
          /\ DeletePart(pr[p].up, n)
          /\ pr' = [pr EXCEPT ![p] = [pr[p] EXCEPT !.todo = pr[p].todo \ {n}]]
    BY <1>4 DEF GCDelete
  <2> DEFINE S == pr[p].todo \ {n}
             e == [pr[p] EXCEPT !.todo = S]
  <2>2. At(p, "sweep") /\ UNCHANGED table /\ n \in PartNum
    BY <1>1, <1>4 DEF GCDelete, Process
  <2>3. pr' = [pr EXCEPT ![p] = e]
    BY <2>1
  <2> HIDE DEF S
  <2>4. e.pc = "sweep" /\ e.up = pr[p].up /\ e.todo = S
    BY <1>1, <2>2 DEF Process
  <2> HIDE DEF e
  <2>5. Others(p) /\ pr'[p] = e
    BY <1>1, <2>3, NewState
  <2>6. QED
    BY <2>1, <2>2, <2>4, <2>5 DEF CollectEffect, S
<1>5. CASE GCAbort(p)
  <2> DEFINE e == [pr[p] EXCEPT !.pc = "collect"]
  <2>1. /\ At(p, "sweep") /\ UNCHANGED <<born, parts, staged, late>> /\ pr[p].todo = {}
        /\ active' = active \ {pr[p].up}
        /\ \/ Answer(p, pr[p].up, IF pr[p].up \in active THEN 204 ELSE 404)
           \/ pr' = [pr EXCEPT ![p] = e]
    BY <1>5 DEF GCAbort
  <2>2. pr[p].up \in Uploads
    BY <1>1, <2>1, AtWork DEF EndPCs
  <2>3. CASE Answer(p, pr[p].up, IF pr[p].up \in active THEN 204 ELSE 404)
    <3>1. Others(p) /\ pr'[p].pc = "done" /\ pr'[p].up = pr[p].up
          /\ pr'[p].status = IF pr[p].up \in active THEN 204 ELSE 404
      BY <1>1, <2>2, <2>3, NewAnswer
    <3>2. QED
      BY <2>1, <3>1 DEF CollectEffect
  <2>4. CASE pr' = [pr EXCEPT ![p] = e]
    <3>1. e.pc = "collect" /\ e.up = pr[p].up
      BY <1>1 DEF Process
    <3> HIDE DEF e
    <3>2. Others(p) /\ pr'[p] = e
      BY <1>1, <2>4, NewState
    <3>3. QED
      BY <2>1, <3>1, <3>2 DEF CollectEffect
  <2>5. QED
    BY <2>1, <2>3, <2>4
<1>6. QED
  BY <1>2, <1>3, <1>4, <1>5

(* A handler that answered comes back; time passes. *)
ReturnEffect(p) ==
  /\ Others(p) /\ At(p, "done") /\ pr'[p] = Idle
  /\ UNCHANGED <<active, born, parts, staged, late>>

LEMMA Effects ==
  ASSUME ShapeInv, NEW p \in Procs, Step(p)
  PROVE  \/ p \in Initiators /\ InitiateEffect(p)
         \/ p \in Uploaders /\ UploadEffect(p)
         \/ p \in Completers /\ CompleteEffect(p)
         \/ p \in Aborters /\ AbortEffect(p)
         \/ p \in Collectors /\ CollectEffect(p)
         \/ ReturnEffect(p)
<1>1. CASE Return(p)
  <2>1. pr' = [pr EXCEPT ![p] = Idle] /\ At(p, "done") /\ UNCHANGED <<table, staged>>
    BY <1>1 DEF Return
  <2>2. Others(p) /\ pr'[p] = Idle
    BY <2>1, NewState
  <2>3. QED
    BY <2>1, <2>2 DEF ReturnEffect
<1>2. CASE ~Return(p)
  BY <1>2, InitiateEffects, UploadEffects, CompleteEffects, AbortEffects, CollectEffects
  DEF Step
<1>3. QED
  BY <1>1, <1>2

(* An invariant is kept by Next if each of these keeps it. *)
Rests == UNCHANGED <<active, born, parts, staged, late, pr>>

LEMMA RestOfNext ==
  ASSUME [Next]_vars
  PROVE  (\E p \in Procs: Step(p)) \/ Crash \/ Rests
BY DEF Next, Age, vars, Rests

LEMMA RolesApart ==
  /\ Enders \subseteq Procs /\ Uploaders \subseteq Procs /\ Initiators \subseteq Procs
  /\ Completers \subseteq Enders /\ Aborters \subseteq Enders /\ Collectors \subseteq Enders
  /\ \A p \in Procs: p \in Aborters \cup Collectors => p \notin Completers
  /\ \A p \in Enders: p \notin Uploaders /\ p \notin Initiators
  /\ \A p \in Uploaders: p \notin Initiators
BY RolesAssumption DEF Procs, Enders

---------------------------------------------------------------------------
(* An upload is ended once. *)

EndInv ==
  \A p, q \in Enders: \A u \in Uploads:
    EndedBy(p, u) => u \in born \ active /\ (EndedBy(q, u) => p = q)

LEMMA EndStep ==
  ASSUME EndInv, NEW p \in Procs, Others(p), active \subseteq born,
         born \subseteq born', active' \cap born \subseteq active,
         \A u \in Uploads: p \in Enders /\ EndedBy(p, u)' => u \in active \ active'
  PROVE  EndInv'
<1>1. ASSUME NEW q \in Enders \ {p}, NEW u \in Uploads, EndedBy(q, u)' PROVE EndedBy(q, u)
  BY <1>1, RolesApart DEF EndedBy, Others
<1>2. ASSUME NEW q \in Enders, NEW u \in Uploads, EndedBy(q, u)' PROVE u \in born' \ active'
  BY <1>1, <1>2 DEF EndInv
<1>3. ASSUME NEW q \in Enders, NEW r \in Enders, NEW u \in Uploads,
             EndedBy(q, u)', EndedBy(r, u)', q # r
      PROVE  FALSE
  BY <1>1, <1>3 DEF EndInv
<1>4. QED
  BY <1>2, <1>3 DEF EndInv

LEMMA EndNext == ShapeInv /\ EndInv /\ [Next]_vars => EndInv'
<1> SUFFICES ASSUME ShapeInv, EndInv, [Next]_vars PROVE EndInv'
  OBVIOUS
<1>0. active \subseteq born
  BY DEF ShapeInv, TypeOK
<1>1. ASSUME NEW p \in Procs, Step(p) PROVE EndInv'
  <2>1. CASE p \in Initiators /\ InitiateEffect(p)
    BY <1>0, <2>1, EndStep, RolesApart DEF InitiateEffect
  <2>2. CASE p \in Uploaders /\ UploadEffect(p)
    BY <1>0, <2>2, EndStep, RolesApart DEF UploadEffect
  <2>3. CASE p \in Completers /\ CompleteEffect(p)
    BY <1>0, <2>3, EndStep, RolesApart DEF CompleteEffect, EndedBy
  <2>4. CASE p \in Aborters /\ AbortEffect(p)
    BY <1>0, <2>4, EndStep, RolesApart DEF AbortEffect, EndedBy
  <2>5. CASE p \in Collectors /\ CollectEffect(p)
    BY <1>0, <2>5, EndStep, RolesApart DEF CollectEffect, EndedBy
  <2>6. CASE ReturnEffect(p)
    BY <1>0, <2>6, EndStep, IdleProcess DEF ReturnEffect, EndedBy
  <2>7. QED
    BY <1>1, <2>1, <2>2, <2>3, <2>4, <2>5, <2>6, Effects
<1>2. CASE Crash
  BY <1>2, IdleProcess, RolesApart DEF Crash, EndInv, EndedBy
<1>3. CASE Rests
  BY <1>3 DEF Rests, EndInv, EndedBy
<1>4. QED
  BY <1>1, <1>2, <1>3, RestOfNext

(* At most one of all the completions, aborts and GC passes of an upload is   *)
(* told that it ended it: CompleteMultipartUpload and AbortMultipartUpload of *)
(* the store answer ErrUploadNotFound to every other one.                    *)
THEOREM UploadEndedOnce == Spec => []EndedOnce
<1>1. Init => EndInv
  BY IdleProcess, RolesApart DEF Init, EndInv, EndedBy
<1>2. EndInv => EndedOnce
  BY DEF EndInv, EndedOnce
<1>3. QED
  BY <1>1, <1>2, EndNext, MultipartShape, PTL DEF Spec

---------------------------------------------------------------------------
(* The recorded parts are staged. *)

Recording(q, u, n) == At(q, "record") /\ pr[q].up = u /\ pr[q].num = n

(* What may be staged of a recorded part: a content, or the pieces that a      *)
(* failed upload of the same part left.                                      *)
Kept(x) == x \in Chunk \/ (IOFaults /\ x = Torn)

(* So is a part that is about to be recorded. *)
StagedInv ==
  \A u \in active: \A n \in PartNum:
    n \in Recorded(u) \/ (\E q \in Uploaders: Recording(q, u, n))
      => Kept(staged[u][n]) \/ \E p \in Enders: EndsUpload(p, u)

(* A handler that ends uploads deletes parts only of the one it works on, and *)
(* stays at it until it is out of the table.                                 *)
LEMMA StagedEnd ==
  ASSUME StagedInv, NEW p \in Enders, Others(p), UNCHANGED parts, active' \subseteq active,
         \A u \in active': EndsUpload(p, u) => EndsUpload(p, u)',
         \A u \in active', n \in PartNum:
           staged'[u][n] = staged[u][n] \/ EndsUpload(p, u)'
  PROVE  StagedInv'
<1> SUFFICES ASSUME NEW u \in active', NEW n \in PartNum,
                    n \in Recorded(u)' \/ \E q \in Uploaders: Recording(q, u, n)',
                    \A q \in Enders: ~EndsUpload(q, u)'
             PROVE  Kept(staged'[u][n])
  BY DEF StagedInv
<1>1. n \in Recorded(u) \/ \E q \in Uploaders: Recording(q, u, n)
  <2>1. \A q \in Uploaders: q \in Procs \ {p}
    BY RolesApart
  <2>2. QED
    BY <2>1 DEF Recorded, Recording, Others
<1>2. \A q \in Enders: ~EndsUpload(q, u)
  BY RolesApart DEF Others, EndsUpload
<1>3. QED
  BY <1>1, <1>2 DEF StagedInv

LEMMA StagedUpload ==
  ASSUME ShapeInv, StagedInv, NEW p \in Uploaders, UploadEffect(p)
  PROVE  StagedInv'
<1>0. /\ p \in Procs /\ Others(p) /\ active' = active /\ TypeOK
      /\ \A q \in Enders: q \in Procs \ {p}
  BY RolesApart DEF UploadEffect, ShapeInv
<1> SUFFICES ASSUME NEW u \in active, NEW n \in PartNum,
                    n \in Recorded(u)' \/ \E q \in Uploaders: Recording(q, u, n)',
                    \A q \in Enders: ~EndsUpload(q, u)'
             PROVE  Kept(staged'[u][n])
  BY <1>0 DEF StagedInv
<1>1. \A q \in Enders: ~EndsUpload(q, u)
  BY <1>0 DEF Others, EndsUpload
<1>2. u \in Uploads
  BY DEF ShapeInv, TypeOK
<1>3. CASE pr[p].pc = "stage"
  <2>1. pr[p].body[1] \in Chunk
    BY <1>0, <1>3 DEF ShapeInv, Shape, UploadPCs
  <2>2. PICK left:
          /\ staged' = [staged EXCEPT ![pr[p].up][pr[p].num] = left] /\ parts' = parts
          /\ \/ /\ Kept(left)
                /\ At(p, "record")' => pr'[p].up = pr[p].up /\ pr'[p].num = pr[p].num
             \/ left = staged[pr[p].up][pr[p].num] /\ ~At(p, "record")'
    BY <1>3, <2>1 DEF UploadEffect, FailedPut, Kept
  <2>3. CASE u = pr[p].up /\ n = pr[p].num /\ Kept(left)
    BY <1>0, <1>2, <2>2, <2>3 DEF TypeOK
  <2>4. CASE ~(u = pr[p].up /\ n = pr[p].num /\ Kept(left))
    <3>1. staged'[u][n] = staged[u][n]
      BY <1>0, <1>2, <2>2, <2>4 DEF TypeOK
    <3>2. n \in Recorded(u) \/ \E q \in Uploaders: Recording(q, u, n)
      BY <1>0, <2>2, <2>4, RolesApart DEF Recorded, Recording, Others
    <3>3. QED
      BY <1>1, <3>1, <3>2 DEF StagedInv
  <2>5. QED
    BY <2>3, <2>4
<1>4. CASE pr[p].pc # "stage"
  <2>1. UNCHANGED staged /\ pr'[p].pc # "record"
    BY <1>4 DEF UploadEffect
  <2>2. n \in Recorded(u) \/ \E q \in Uploaders: Recording(q, u, n)
    <3>1. CASE parts' = parts
      BY <1>0, <2>1, <3>1, RolesApart DEF Recorded, Recording, Others
    <3>2. CASE /\ pr[p].pc = "record"
               /\ parts' = [parts EXCEPT ![pr[p].up][pr[p].num] = pr[p].body[1]]
      <4>1. CASE u = pr[p].up /\ n = pr[p].num
        BY <3>2, <4>1 DEF Recording
      <4>2. CASE ~(u = pr[p].up /\ n = pr[p].num)
        <5>1. parts'[u][n] = parts[u][n]
          BY <1>0, <1>2, <3>2, <4>2 DEF TypeOK
        <5>2. QED
          BY <1>0, <2>1, <5>1, RolesApart DEF Recorded, Recording, Others
      <4>3. QED
        BY <4>1, <4>2
    <3>3. QED
      BY <3>1, <3>2, <1>4 DEF UploadEffect
  <2>3. QED
    BY <1>1, <2>1, <2>2 DEF StagedInv
<1>5. QED
  BY <1>3, <1>4

LEMMA StagedNext == ShapeInv /\ StagedInv /\ [Next]_vars => StagedInv'
<1> SUFFICES ASSUME ShapeInv, StagedInv, [Next]_vars PROVE StagedInv'
  OBVIOUS
<1>1. ASSUME NEW p \in Procs, Step(p) PROVE StagedInv'
  <2>0. TypeOK /\ active \subseteq Uploads
    BY DEF ShapeInv, TypeOK
  <2>1. CASE p \in Initiators /\ InitiateEffect(p)
    <3>1. PICK u \in Uploads \ born: active' = active \cup {u}
      BY <2>1 DEF InitiateEffect
    <3>2. \A n \in PartNum: parts'[u][n] = None
      BY <2>1, <3>1 DEF InitiateEffect, ShapeInv, NoParts
    <3>3. \A q \in Uploaders, n \in PartNum: ~Recording(q, u, n)'
      <4>1. \A q \in Uploaders: q \in Procs \ {p} /\ pr'[q] = pr[q]
        BY <2>1, RolesApart DEF InitiateEffect, Others
      <4>2. \A q \in Uploaders: At(q, "record") => pr[q].up \in born
        BY <4>1, AtWork DEF UploadPCs
      <4>3. QED
        BY <3>1, <4>1, <4>2 DEF Recording
    <3>4. ASSUME NEW v \in active, NEW n \in PartNum,
                 n \in Recorded(v)' \/ \E q \in Uploaders: Recording(q, v, n)'
          PROVE  Kept(staged'[v][n]) \/ \E q \in Enders: EndsUpload(q, v)'
      BY <2>1, <3>4, RolesApart DEF InitiateEffect, Others, StagedInv, Recorded, Recording,
         EndsUpload
    <3>5. QED
      BY <3>1, <3>2, <3>3, <3>4 DEF StagedInv, Recorded
  <2>2. CASE p \in Uploaders /\ UploadEffect(p)
    BY <2>2, StagedUpload
  <2>3. CASE p \in Completers /\ CompleteEffect(p)
    <3>1. /\ p \in Enders /\ Others(p) /\ UNCHANGED parts /\ active' \subseteq active
          /\ \A u \in active': EndsUpload(p, u) => EndsUpload(p, u)'
      BY <2>3, RolesApart DEF CompleteEffect, EndsUpload
    <3>2. ASSUME NEW u \in active', NEW n \in PartNum
          PROVE  staged'[u][n] = staged[u][n] \/ EndsUpload(p, u)'
      <4>1. CASE UNCHANGED staged
        BY <4>1
      <4>2. CASE /\ pr[p].pc = "clean" /\ pr'[p].pc = "clean" /\ pr'[p].up = pr[p].up
                 /\ pr[p].num \in PartNum /\ DeletePart(pr[p].up, pr[p].num)
        BY <2>0, <3>1, <4>2, AtWork, DeleteTypes DEF EndPCs, EndsUpload
      <4>3. QED
        BY <2>3, <4>1, <4>2 DEF CompleteEffect
    <3>3. QED
      BY <3>1, <3>2, StagedEnd
  <2>4. CASE p \in Aborters /\ AbortEffect(p)
    <3>1. /\ p \in Enders /\ Others(p) /\ UNCHANGED parts /\ active' \subseteq active
          /\ \A u \in active': EndsUpload(p, u) => EndsUpload(p, u)'
      BY <2>4, RolesApart DEF AbortEffect, EndsUpload
    <3>2. ASSUME NEW u \in active', NEW n \in PartNum
          PROVE  staged'[u][n] = staged[u][n] \/ EndsUpload(p, u)'
      <4>1. CASE UNCHANGED staged
        BY <4>1
      <4>2. CASE /\ pr[p].pc = "abort" /\ pr'[p].pc = "abort" /\ pr'[p].up = pr[p].up
                 /\ \E m \in PartNum: DeletePart(pr[p].up, m)
        BY <2>0, <3>1, <4>2, AtWork, DeleteTypes DEF EndPCs, EndsUpload
      <4>3. QED
        BY <2>4, <4>1, <4>2 DEF AbortEffect
    <3>3. QED
      BY <3>1, <3>2, StagedEnd
  <2>5. CASE p \in Collectors /\ CollectEffect(p)
    <3>1. /\ p \in Enders /\ Others(p) /\ UNCHANGED parts /\ active' \subseteq active
          /\ \A u \in active': EndsUpload(p, u) => EndsUpload(p, u)'
      BY <2>5, RolesApart DEF CollectEffect, EndsUpload
    <3>2. ASSUME NEW u \in active', NEW n \in PartNum
          PROVE  staged'[u][n] = staged[u][n] \/ EndsUpload(p, u)'
      <4>1. CASE UNCHANGED staged
        BY <4>1
      <4>2. CASE /\ pr[p].pc = "sweep" /\ pr'[p].pc = "sweep" /\ pr'[p].up = pr[p].up
                 /\ \E m \in PartNum: DeletePart(pr[p].up, m)
        BY <2>0, <3>1, <4>2, AtWork, DeleteTypes DEF EndPCs, EndsUpload
      <4>3. QED
        BY <2>5, <4>1, <4>2 DEF CollectEffect
    <3>3. QED
      BY <3>1, <3>2, StagedEnd
  <2>6. CASE ReturnEffect(p)
    BY <2>6, IdleProcess, RolesApart
    DEF ReturnEffect, Others, StagedInv, Recorded, Recording, EndsUpload
  <2>7. QED
    BY <1>1, <2>1, <2>2, <2>3, <2>4, <2>5, <2>6, Effects
<1>2. CASE Crash
  BY <1>2 DEF Crash, StagedInv
<1>3. CASE Rests
  BY <1>3 DEF Rests, StagedInv, Recorded, Recording, EndsUpload
<1>4. QED
  BY <1>1, <1>2, <1>3, RestOfNext

(* As long as an upload is in the table, each part its client was told is     *)
(* recorded can be read, unless a handler that takes the upload out of the    *)
(* table is at work on it, or an upload of the same part failed and took the  *)
(* old part's shard with it; whoever overlaps and whenever the process is     *)
(* killed.  UploadPart stages a part before it records it, and only           *)
(* clean-ups, aborts and GC passes delete parts.                             *)
THEOREM RecordedAreStaged == Spec => []RecordedPartsStaged
<1>1. Init => StagedInv
  BY DEF Init, StagedInv
<1>2. ShapeInv /\ StagedInv => RecordedPartsStaged
  BY CountBounds, NoneAssumption DEF StagedInv, RecordedPartsStaged, Kept, Readable
<1>3. QED
  BY <1>1, <1>2, StagedNext, MultipartShape, PTL DEF Spec

---------------------------------------------------------------------------
(* Clients that do not overlap their requests *)

(* A handler is at work on an upload, as one that ends it or as one that its   *)
(* client called to end it; an uploader has a part of it under way.          *)
Works(p, u) == pr[p].up = u /\ pr[p].pc \in EndPCs
Handles(p, u) == pr[p].up = u /\ pr[p].pc \in {"open", "etag", "clean", "abort"}
Uploading(q, u, n) == pr[q].up = u /\ pr[q].num = n /\ pr[q].pc \in UploadPCs

(* While a part is under way no client ends the upload and nobody else has    *)
(* the same part under way.                                                  *)
CoopInv ==
  \A q \in Procs: \A u \in Uploads: \A n \in PartNum:
    Uploading(q, u, n) =>
      \A p \in Procs: ~Handles(p, u) /\ (Uploading(p, u, n) => p = q)

LEMMA RoleOf ==
  ASSUME ShapeInv, NEW p \in Procs
  PROVE  /\ pr[p].pc \in UploadPCs => p \in Uploaders /\ pr[p].num \in PartNum
         /\ pr[p].pc \in EndPCs => p \in Enders
         /\ pr[p].pc \in CompletePCs => p \in Completers
         /\ pr[p].pc = "abort" => p \in Aborters
         /\ pr[p].pc \in {"collect", "sweep"} => p \in Collectors
<1>1. Shape(p, pr[p])
  BY DEF ShapeInv
<1>2. QED
  BY <1>1, RolesApart DEF Shape, PCsOf, UploadPCs, EndPCs, CompletePCs

LEMMA MayUploadAlone ==
  ASSUME ~Overlap, ShapeInv, NEW u, NEW n, MayUpload(u, n)
  PROVE  \A q \in Procs: ~Handles(q, u) /\ ~Uploading(q, u, n)
<1>1. ASSUME NEW q \in Procs, Handles(q, u) PROVE FALSE
  <2>1. q \in Completers \cup Aborters
    BY <1>1, RoleOf DEF Handles, CompletePCs
  <2>2. QED
    BY <1>1, <2>1 DEF MayUpload, Busy, Handles
<1>2. ASSUME NEW q \in Procs, Uploading(q, u, n) PROVE FALSE
  BY <1>2, RoleOf DEF MayUpload, Busy, Uploading, UploadPCs
<1>3. QED
  BY <1>1, <1>2

LEMMA MayEndAlone ==
  ASSUME ~Overlap, ShapeInv, NEW u, MayEnd(u)
  PROVE  \A q \in Procs: \A n \in PartNum: ~Uploading(q, u, n)
BY RoleOf DEF MayEnd, Busy, Uploading, UploadPCs

LEMMA CoopStep ==
  ASSUME CoopInv, NEW p \in Procs, Others(p),
         \A u \in Uploads, n \in PartNum: Uploading(p, u, n)' =>
           Uploading(p, u, n) \/ \A q \in Procs: ~Handles(q, u) /\ ~Uploading(q, u, n),
         \A u \in Uploads: Handles(p, u)' =>
           Handles(p, u) \/ \A q \in Procs: \A n \in PartNum: ~Uploading(q, u, n)
  PROVE  CoopInv'
<1> SUFFICES ASSUME NEW q \in Procs, NEW u \in Uploads, NEW n \in PartNum, Uploading(q, u, n)'
             PROVE  \A r \in Procs: ~Handles(r, u)' /\ (Uploading(r, u, n)' => r = q)
  BY DEF CoopInv
<1>1. \A r \in Procs \ {p}: /\ Handles(r, u)' <=> Handles(r, u)
                            /\ Uploading(r, u, n)' <=> Uploading(r, u, n)
  BY DEF Others, Handles, Uploading
<1>2. ~Handles(q, u)'
  BY DEF Handles, Uploading, UploadPCs
<1>3. CASE q = p
  BY <1>1, <1>2, <1>3 DEF CoopInv
<1>4. CASE q # p
  <2>1. Uploading(q, u, n) /\ ~Handles(p, u)
    BY <1>1, <1>4 DEF CoopInv
  <2>2. ~Handles(p, u)' /\ ~Uploading(p, u, n)'
    BY <1>4, <2>1 DEF CoopInv
  <2>3. QED
    BY <1>1, <2>1, <2>2 DEF CoopInv
<1>5. QED
  BY <1>3, <1>4

LEMMA CoopNext == ~Overlap /\ ShapeInv /\ CoopInv /\ [Next]_vars => CoopInv'
<1> SUFFICES ASSUME ~Overlap, ShapeInv, CoopInv, [Next]_vars PROVE CoopInv'
  OBVIOUS
<1>1. ASSUME NEW p \in Procs, Step(p) PROVE CoopInv'
  <2>1. CASE p \in Initiators /\ InitiateEffect(p)
    BY <2>1, CoopStep DEF InitiateEffect, Handles, Uploading, UploadPCs
  <2>2. CASE p \in Uploaders /\ UploadEffect(p)
    <3>1. \A u: ~Handles(p, u)'
      BY <2>2 DEF UploadEffect, Handles
    <3>2. ASSUME NEW u \in Uploads, NEW n \in PartNum, Uploading(p, u, n)'
          PROVE  \/ Uploading(p, u, n)
                 \/ \A q \in Procs: ~Handles(q, u) /\ ~Uploading(q, u, n)
      BY <2>2, <3>2, MayUploadAlone DEF UploadEffect, Uploading, UploadPCs
    <3>3. Others(p)
      BY <2>2 DEF UploadEffect
    <3>4. QED
      BY <3>1, <3>2, <3>3, CoopStep
  <2>3. CASE p \in Completers /\ CompleteEffect(p)
    <3>1. \A u, n: ~Uploading(p, u, n)'
      BY <2>3 DEF CompleteEffect, Uploading, UploadPCs
    <3>2. ASSUME NEW u \in Uploads, Handles(p, u)'
          PROVE  Handles(p, u) \/ \A q \in Procs: \A n \in PartNum: ~Uploading(q, u, n)
      BY <2>3, <3>2, MayEndAlone DEF CompleteEffect, Handles
    <3>3. Others(p)
      BY <2>3 DEF CompleteEffect
    <3>4. QED
      BY <3>1, <3>2, <3>3, CoopStep
  <2>4. CASE p \in Aborters /\ AbortEffect(p)
    <3>1. \A u, n: ~Uploading(p, u, n)'
      BY <2>4 DEF AbortEffect, Uploading, UploadPCs
    <3>2. ASSUME NEW u \in Uploads, Handles(p, u)'
          PROVE  Handles(p, u) \/ \A q \in Procs: \A n \in PartNum: ~Uploading(q, u, n)
      BY <2>4, <3>2, MayEndAlone DEF AbortEffect, Handles
    <3>3. Others(p)
      BY <2>4 DEF AbortEffect
    <3>4. QED
      BY <3>1, <3>2, <3>3, CoopStep
  <2>5. CASE p \in Collectors /\ CollectEffect(p)
    BY <2>5, CoopStep DEF CollectEffect, Handles, Uploading, UploadPCs
  <2>6. CASE ReturnEffect(p)
    BY <2>6, IdleProcess, CoopStep DEF ReturnEffect, Handles, Uploading, UploadPCs
  <2>7. QED
    BY <1>1, <2>1, <2>2, <2>3, <2>4, <2>5, <2>6, Effects
<1>2. CASE Crash
  BY <1>2, IdleProcess DEF Crash, CoopInv, Uploading, UploadPCs
<1>3. CASE Rests
  BY <1>3 DEF Rests, CoopInv, Handles, Uploading
<1>4. QED
  BY <1>1, <1>2, <1>3, RestOfNext

(* What an uploader changes is of an upload no completion and no abort works   *)
(* on, and it records a part only of an upload in the table.                 *)
LEMMA UploadApart ==
  ASSUME ShapeInv, CoopInv, NEW p \in Uploaders, UploadEffect(p)
  PROVE  /\ p \in Procs /\ Others(p) /\ active' = active
         /\ \A u \in Uploads: (\E q \in Procs: Handles(q, u)) =>
              parts'[u] = parts[u] /\ staged'[u] = staged[u]
<1>1. p \in Procs /\ Others(p) /\ active' = active /\ TypeOK
  BY RolesApart DEF UploadEffect, ShapeInv
<1>2. ASSUME pr[p].pc \in UploadPCs
      PROVE  /\ pr[p].up \in Uploads
             /\ \A q \in Procs: ~Handles(q, pr[p].up)
  BY <1>1, <1>2, AtWork, RoleOf DEF CoopInv, Uploading
<1>3. ASSUME NEW u \in Uploads, \E q \in Procs: Handles(q, u)
      PROVE  parts'[u] = parts[u] /\ staged'[u] = staged[u]
  <2>1. pr[p].pc \in UploadPCs => pr[p].up # u
    BY <1>2, <1>3
  <2>2. QED
    BY <1>1, <1>2, <2>1 DEF UploadEffect, UploadPCs, TypeOK
<1>4. QED
  BY <1>1, <1>3

(* What is staged of an upload is what is recorded, but for the parts that    *)
(* are about to be recorded.                                                 *)
StagedAsRecorded ==
  /\ \A u \in Uploads: u \in active \/ (\E p \in Procs: Handles(p, u)) =>
       \A n \in PartNum:
         staged[u][n] \in {None, parts[u][n]} \/ \E q \in Uploaders: Recording(q, u, n)
  /\ \A q \in Uploaders: At(q, "record") =>
       staged[pr[q].up][pr[q].num] \in {None, pr[q].body[1]}

(* A completion assembled recorded parts, all of them once it wrote the       *)
(* object, and its ETag names them.                                          *)
AssembledOf(p) ==
  /\ pr[p].pc \in CompletePCs =>
       \A i \in 1..Len(pr[p].body): i \in PartNum /\ parts[pr[p].up][i] = pr[p].body[i]
  /\ pr[p].pc \in {"etag", "clean"} => Recorded(pr[p].up) = 1..Len(pr[p].body)
  /\ At(p, "clean") \/ (At(p, "done") /\ pr[p].status = 200) =>
       pr[p].etag = Composite(pr[p].body, Len(pr[p].body))

ContentInv == StagedAsRecorded /\ \A p \in Completers: AssembledOf(p)

(* A step of a handler that ends uploads *)
LEMMA StagedAsRecordedEnd ==
  ASSUME ShapeInv, StagedAsRecorded, NEW p \in Enders, Others(p), UNCHANGED parts,
         active' \subseteq active,
         \A u \in Uploads: Handles(p, u)' => u \in active \/ Handles(p, u),
         \A u \in Uploads, n \in PartNum:
           staged'[u][n] = staged[u][n] \/ (Works(p, u) /\ staged'[u][n] = None)
  PROVE  StagedAsRecorded'
<1>0. \A q \in Uploaders: q \in Procs \ {p} /\ pr'[q] = pr[q]
  BY RolesApart DEF Others
<1>1. ASSUME NEW u \in Uploads, u \in active' \/ (\E q \in Procs: Handles(q, u)'), NEW n \in PartNum
      PROVE  staged'[u][n] \in {None, parts'[u][n]} \/ \E q \in Uploaders: Recording(q, u, n)'
  <2>1. u \in active \/ \E q \in Procs: Handles(q, u)
    BY <1>1, RolesApart DEF Others, Handles
  <2>2. staged[u][n] \in {None, parts[u][n]} \/ \E q \in Uploaders: Recording(q, u, n)
    BY <2>1 DEF StagedAsRecorded
  <2>3. \A q \in Uploaders: Recording(q, u, n) => Recording(q, u, n)'
    BY <1>0 DEF Recording
  <2>4. QED
    BY <2>2, <2>3
<1>2. ASSUME NEW q \in Uploaders, At(q, "record")'
      PROVE  staged'[pr'[q].up][pr'[q].num] \in {None, pr'[q].body[1]}
  <2>1. /\ At(q, "record") /\ pr'[q] = pr[q]
        /\ pr[q].up \in Uploads /\ pr[q].num \in PartNum
    BY <1>0, <1>2, AtWork, RoleOf DEF UploadPCs
  <2>2. QED
    BY <2>1 DEF StagedAsRecorded
<1>3. QED
  BY <1>1, <1>2 DEF StagedAsRecorded

LEMMA StagedAsRecordedUpload ==
  ASSUME ~IOFaults, ShapeInv, CoopInv, StagedAsRecorded, NEW p \in Uploaders, UploadEffect(p)
  PROVE  StagedAsRecorded'
<1>0. p \in Procs /\ Others(p) /\ active' = active /\ TypeOK
  BY UploadApart DEF ShapeInv
<1>1. \A q \in Uploaders \ {p}: pr'[q] = pr[q] /\ q \in Procs
  BY <1>0, RolesApart DEF Others
<1>2. \A u \in Uploads: (\E q \in Procs: Handles(q, u)') => \E q \in Procs: Handles(q, u)
  BY <1>0 DEF UploadEffect, Others, Handles
<1>3. ASSUME NEW q \in Uploaders \ {p}, At(q, "record"), pr[p].pc \in UploadPCs
      PROVE  pr[q].up = pr[p].up => pr[q].num # pr[p].num
  BY <1>0, <1>1, <1>3, AtWork, RoleOf DEF CoopInv, Uploading, UploadPCs
<1>4. CASE pr[p].pc = "stage" /\ pr'[p].pc = "record"
  <2>1. /\ pr'[p].up = pr[p].up /\ pr'[p].num = pr[p].num /\ pr'[p].body = pr[p].body
        /\ staged' = [staged EXCEPT ![pr[p].up][pr[p].num] = pr[p].body[1]] /\ parts' = parts
    BY <1>4 DEF UploadEffect
  <2>2. pr[p].up \in Uploads /\ pr[p].num \in PartNum
    BY <1>0, <1>4, AtWork, RoleOf DEF UploadPCs
  <2>3. staged'[pr[p].up][pr[p].num] = pr[p].body[1]
    BY <1>0, <2>1, <2>2 DEF TypeOK
  <2>4. \A u \in Uploads, n \in PartNum:
          staged'[u][n] = staged[u][n] \/ (u = pr[p].up /\ n = pr[p].num)
    BY <1>0, <2>1, <2>2 DEF TypeOK
  <2>5. ASSUME NEW u \in Uploads, u \in active' \/ (\E q \in Procs: Handles(q, u)'), NEW n \in PartNum
        PROVE  staged'[u][n] \in {None, parts'[u][n]} \/ \E q \in Uploaders: Recording(q, u, n)'
    <3>1. CASE u = pr[p].up /\ n = pr[p].num
      BY <1>4, <2>1, <3>1 DEF Recording
    <3>2. CASE ~(u = pr[p].up /\ n = pr[p].num)
      <4>1. staged[u][n] \in {None, parts[u][n]} \/ \E q \in Uploaders: Recording(q, u, n)
        BY <1>0, <1>2, <2>5 DEF StagedAsRecorded
      <4>2. \A q \in Uploaders: Recording(q, u, n) => Recording(q, u, n)'
        BY <1>1, <1>4 DEF Recording
      <4>3. QED
        BY <2>1, <2>4, <3>2, <4>1, <4>2
    <3>3. QED
      BY <3>1, <3>2
  <2>6. ASSUME NEW q \in Uploaders, At(q, "record")'
        PROVE  staged'[pr'[q].up][pr'[q].num] \in {None, pr'[q].body[1]}
    <3>1. CASE q = p
      BY <2>1, <2>3, <3>1
    <3>2. CASE q # p
      <4>1. pr'[q] = pr[q] /\ At(q, "record") /\ pr[q].up \in Uploads /\ pr[q].num \in PartNum
        BY <1>1, <2>6, <3>2, AtWork, RoleOf DEF UploadPCs
      <4>2. ~(pr[q].up = pr[p].up /\ pr[q].num = pr[p].num)
        BY <1>3, <1>4, <3>2, <4>1 DEF UploadPCs
      <4>3. QED
        BY <2>4, <4>1, <4>2 DEF StagedAsRecorded
    <3>3. QED
      BY <3>1, <3>2
  <2>7. QED
    BY <2>5, <2>6 DEF StagedAsRecorded
<1>5. CASE /\ pr[p].pc = "record" /\ pr'[p].pc = "done" /\ staged' = staged
           /\ parts' = [parts EXCEPT ![pr[p].up][pr[p].num] = pr[p].body[1]]
  <2>1. pr[p].up \in Uploads /\ pr[p].num \in PartNum
    BY <1>0, <1>5, AtWork, RoleOf DEF UploadPCs
  <2>2. parts'[pr[p].up][pr[p].num] = pr[p].body[1]
    BY <1>0, <1>5, <2>1 DEF TypeOK
  <2>3. \A u \in Uploads, n \in PartNum:
          parts'[u][n] = parts[u][n] \/ (u = pr[p].up /\ n = pr[p].num)
    BY <1>0, <1>5, <2>1 DEF TypeOK
  <2>4. ASSUME NEW u \in Uploads, u \in active' \/ (\E q \in Procs: Handles(q, u)'), NEW n \in PartNum
        PROVE  staged'[u][n] \in {None, parts'[u][n]} \/ \E q \in Uploaders: Recording(q, u, n)'
    <3>1. CASE u = pr[p].up /\ n = pr[p].num
      BY <1>5, <2>2, <3>1 DEF StagedAsRecorded
    <3>2. CASE ~(u = pr[p].up /\ n = pr[p].num)
      <4>1. staged[u][n] \in {None, parts[u][n]} \/ \E q \in Uploaders: Recording(q, u, n)
        BY <1>0, <1>2, <2>4 DEF StagedAsRecorded
      <4>2. \A q \in Uploaders: Recording(q, u, n) => Recording(q, u, n)'
        BY <1>1, <3>2 DEF Recording
      <4>3. QED
        BY <1>5, <2>3, <3>2, <4>1, <4>2
    <3>3. QED
      BY <3>1, <3>2
  <2>5. \A q \in Uploaders: At(q, "record")' => At(q, "record") /\ pr'[q] = pr[q]
    BY <1>1, <1>5
  <2>6. QED
    BY <1>5, <2>4, <2>5 DEF StagedAsRecorded
<1>6. CASE /\ UNCHANGED <<parts, staged>> /\ pr'[p].pc # "record"
           /\ pr[p].pc = "record" => pr[p].up \notin active
  <2>1. \A q \in Uploaders: At(q, "record")' => At(q, "record") /\ pr'[q] = pr[q]
    BY <1>1, <1>6
  <2>2. ASSUME NEW u \in Uploads, u \in active \/ (\E q \in Procs: Handles(q, u)),
               NEW n \in PartNum, Recording(p, u, n)
        PROVE  FALSE
    <3>1. Uploading(p, u, n) /\ \E q \in Procs: Handles(q, u)
      BY <1>6, <2>2 DEF Recording, Uploading, UploadPCs
    <3>2. QED
      BY <1>0, <3>1 DEF CoopInv
  <2>3. \A q \in Uploaders \ {p}: \A u, n: Recording(q, u, n) => Recording(q, u, n)'
    BY <1>1 DEF Recording
  <2>4. ASSUME NEW u \in Uploads, u \in active' \/ (\E q \in Procs: Handles(q, u)'), NEW n \in PartNum
        PROVE  staged'[u][n] \in {None, parts'[u][n]} \/ \E q \in Uploaders: Recording(q, u, n)'
    <3>1. u \in active \/ \E q \in Procs: Handles(q, u)
      BY <1>0, <1>2, <2>4
    <3>2. staged[u][n] \in {None, parts[u][n]} \/ \E q \in Uploaders \ {p}: Recording(q, u, n)
      BY <2>2, <3>1 DEF StagedAsRecorded
    <3>3. QED
      BY <1>6, <2>3, <3>2
  <2>5. QED
    BY <1>6, <2>1, <2>4 DEF StagedAsRecorded
<1>7. QED
  BY <1>4, <1>5, <1>6 DEF UploadEffect

LEMMA AssembledKept ==
  ASSUME NEW q, AssembledOf(q), pr'[q] = pr[q],
         pr[q].pc \in CompletePCs => parts'[pr[q].up] = parts[pr[q].up]
  PROVE  AssembledOf(q)'
BY DEF AssembledOf, Recorded, CompletePCs

(* The completion itself: it reads what is recorded, since no part is under   *)
(* way, until it has as many as there are.                                   *)
LEMMA AssembledOwn ==
  ASSUME ShapeInv, CoopInv, StagedAsRecorded, NEW p \in Completers, AssembledOf(p),
         CompleteEffect(p)
  PROVE  AssembledOf(p)'
<1> DEFINE r == pr[p]
           e == pr'[p]
           k == Len(r.body)
<1>0. p \in Procs /\ r \in Process /\ TypeOK /\ parts' = parts
  BY ShapeOf, RolesApart DEF ShapeInv, CompleteEffect
<1>1. r.body \in Seq(Chunk) /\ k \in Nat
  BY <1>0 DEF Process
<1>2. r.pc \in CompletePCs => r.up \in Uploads
  BY <1>0, AtWork DEF CompletePCs, EndPCs
<1>3. CASE e.pc = "done" /\ e.status # 200
  BY <1>3 DEF AssembledOf, CompletePCs
<1>4. CASE e.pc = "open" /\ e.body = <<>>
  BY <1>4 DEF AssembledOf, CompletePCs
<1>5. CASE /\ r.pc = "open" /\ e.pc = "open" /\ e.up = r.up
           /\ k + 1 \in Readable(r.up)
           /\ e.body = Append(r.body, staged[r.up][k + 1])
  <2>1. \A q \in Uploaders: ~Recording(q, r.up, k + 1)
    <3>1. Handles(p, r.up) /\ r.up \in Uploads /\ k + 1 \in PartNum
      BY <1>2, <1>5 DEF Handles, CompletePCs, Readable
    <3>2. QED
      BY <1>0, <3>1, RolesApart DEF CoopInv, Uploading, Recording, UploadPCs
  <2>2. Handles(p, r.up) /\ r.up \in Uploads /\ k + 1 \in PartNum
    BY <1>2, <1>5 DEF Handles, CompletePCs, Readable
  <2>3. staged[r.up][k + 1] = parts[r.up][k + 1]
    BY <1>0, <1>5, <2>1, <2>2 DEF StagedAsRecorded, Readable
  <2>4. staged[r.up][k + 1] \in Chunk
    BY <1>0, <1>5, <2>2 DEF TypeOK, Readable
  <2> DEFINE c == staged[r.up][k + 1]
  <2>5. /\ Len(e.body) = k + 1 /\ e.body[k + 1] = c
        /\ \A i \in 1..k: e.body[i] = r.body[i]
    <3> HIDE DEF c
    <3>1. c \in Chunk /\ e.body = Append(r.body, c)
      BY <1>5, <2>4 DEF c
    <3>2. QED
      BY <1>1, <3>1
  <2>6. ASSUME NEW i \in 1..Len(e.body)
        PROVE  i \in PartNum /\ parts'[e.up][i] = e.body[i]
    <3>1. CASE i = k + 1
      BY <1>0, <1>5, <2>2, <2>3, <2>5, <3>1
    <3>2. CASE i \in 1..k
      BY <1>0, <1>5, <2>5, <3>2 DEF AssembledOf, CompletePCs
    <3>3. QED
      BY <1>1, <2>5, <3>1, <3>2
  <2>7. QED
    BY <1>5, <2>6 DEF AssembledOf
<1>6. CASE r.pc = "open" /\ e.pc = "etag" /\ e.up = r.up /\ e.body = r.body /\ k >= Count(r.up)
  <2>1. \A i \in 1..k: i \in PartNum /\ parts[r.up][i] = r.body[i]
    BY <1>6 DEF AssembledOf, CompletePCs
  <2>2. \A i \in 1..k: r.body[i] \in Chunk
    BY <1>1
  <2>3. 1..k \subseteq Recorded(r.up)
    BY <2>1, <2>2, NoneAssumption DEF Recorded
  <2>4. Recorded(r.up) = 1..k
    BY <1>1, <1>6, <2>3, CountAll
  <2>5. Recorded(pr[p].up)' = 1..Len(e.body)
    BY <1>0, <1>6, <2>4 DEF Recorded
  <2>6. QED
    BY <1>0, <1>6, <2>1, <2>5 DEF AssembledOf
<1>7. CASE /\ r.pc = "etag" /\ e.pc = "clean" /\ e.up = r.up /\ e.body = r.body
           /\ e.etag = MultipartETag(r.up)
  <2>1. Recorded(r.up) = 1..k /\ \A i \in 1..k: parts[r.up][i] = r.body[i]
    BY <1>7 DEF AssembledOf, CompletePCs
  <2>2. Count(r.up) = k
    BY <1>1, <2>1, FS_Interval DEF Count
  <2>3. Recorded(r.up) \cap 1..Count(r.up) = 1..k
    BY <2>1, <2>2
  <2>4. [i \in 1..k |-> parts[r.up][i]] = r.body
    BY <1>1, <2>1
  <2>5. MultipartETag(r.up) = Composite(r.body, k)
    BY <2>2, <2>3, <2>4 DEF MultipartETag
  <2>6. Recorded(pr[p].up)' = Recorded(r.up)
    BY <1>0, <1>7 DEF Recorded
  <2>7. QED
    BY <1>0, <1>7, <2>1, <2>5, <2>6 DEF AssembledOf, CompletePCs
<1>8. CASE r.pc = "clean" /\ e.pc = "clean" /\ e.up = r.up /\ e.body = r.body /\ e.etag = r.etag
  <2>1. Recorded(pr[p].up)' = Recorded(r.up)
    BY <1>0, <1>8 DEF Recorded
  <2>2. QED
    BY <1>0, <1>8, <2>1 DEF AssembledOf, CompletePCs
<1>9. CASE r.pc = "clean" /\ e.pc = "done" /\ e.body = r.body /\ e.etag = r.etag
  BY <1>9 DEF AssembledOf, CompletePCs
<1>10. QED
  <2> HIDE DEF k
  <2>1. \/ e.pc = "done" /\ e.status # 200
        \/ e.pc = "open" /\ e.body = <<>>
        \/ /\ r.pc = "open" /\ e.pc = "open" /\ e.up = r.up
           /\ k + 1 \in Readable(r.up)
           /\ e.body = Append(r.body, staged[r.up][k + 1])
        \/ r.pc = "open" /\ e.pc = "etag" /\ e.up = r.up /\ e.body = r.body /\ k >= Count(r.up)
        \/ /\ r.pc = "etag" /\ e.pc = "clean" /\ e.up = r.up /\ e.body = r.body
           /\ e.etag = MultipartETag(r.up)
        \/ r.pc = "clean" /\ e.pc = "clean" /\ e.up = r.up /\ e.body = r.body /\ e.etag = r.etag
        \/ r.pc = "clean" /\ e.pc = "done" /\ e.body = r.body /\ e.etag = r.etag
    BY DEF CompleteEffect, k
  <2>2. QED
    BY <2>1, <1>3, <1>4, <1>5, <1>6, <1>7, <1>8, <1>9

(* A handler that ends uploads deletes parts of its upload. *)
LEMMA EndDeletes ==
  ASSUME ~IOFaults, ShapeInv, NEW p \in Procs, pr[p].pc \in EndPCs, NEW n \in PartNum,
         DeletePart(pr[p].up, n)
  PROVE  \A u \in Uploads, m \in PartNum:
           staged'[u][m] = staged[u][m] \/ (Works(p, u) /\ staged'[u][m] = None)
BY AtWork, DeleteTypes DEF ShapeInv, Works

LEMMA ContentNext ==
  ~Overlap /\ ~IOFaults /\ ShapeInv /\ CoopInv /\ ContentInv /\ [Next]_vars => ContentInv'
<1> SUFFICES ASSUME ~Overlap, ~IOFaults, ShapeInv, CoopInv, ContentInv, [Next]_vars PROVE ContentInv'
  OBVIOUS
<1>0. StagedAsRecorded /\ \A q \in Completers: AssembledOf(q) /\ q \in Procs
  BY RolesApart DEF ContentInv
<1>1. ASSUME NEW p \in Procs, Step(p) PROVE ContentInv'
  <2>1. CASE p \in Initiators /\ InitiateEffect(p)
    <3>1. PICK u \in Uploads \ born: active' = active \cup {u}
      BY <2>1 DEF InitiateEffect
    <3>2. Others(p) /\ UNCHANGED <<parts, staged>> /\ pr'[p].pc = "done"
      BY <2>1 DEF InitiateEffect
    <3>3. \A n \in PartNum: staged'[u][n] = None
      BY <3>2 DEF ShapeInv, NoParts
    <3>4. \A q \in Uploaders: pr'[q] = pr[q]
      BY <2>1, <3>2, RolesApart DEF Others
    <3>5. \A v: (\E q \in Procs: Handles(q, v)') => \E q \in Procs: Handles(q, v)
      BY <3>2 DEF Others, Handles
    <3>6. \A q \in Uploaders: \A v, n: Recording(q, v, n) => Recording(q, v, n)'
      BY <3>4 DEF Recording
    <3>7. StagedAsRecorded'
      BY <1>0, <3>1, <3>2, <3>3, <3>4, <3>5, <3>6 DEF StagedAsRecorded
    <3>8. \A q \in Completers: AssembledOf(q)'
      BY <1>0, <2>1, <3>2, AssembledKept, RolesApart DEF Others
    <3>9. QED
      BY <3>7, <3>8 DEF ContentInv
  <2>2. CASE p \in Uploaders /\ UploadEffect(p)
    <3>1. ASSUME NEW q \in Completers PROVE AssembledOf(q)'
      <4>1. q \in Procs \ {p} /\ pr'[q] = pr[q]
        BY <1>0, <2>2, RolesApart DEF UploadEffect, Others
      <4>2. pr[q].pc \in CompletePCs => parts'[pr[q].up] = parts[pr[q].up]
        BY <2>2, <4>1, UploadApart, AtWork DEF Handles, CompletePCs, EndPCs
      <4>3. QED
        BY <1>0, <4>1, <4>2, AssembledKept
    <3>2. QED
      BY <1>0, <2>2, <3>1, StagedAsRecordedUpload DEF ContentInv
  <2>3. CASE p \in Completers /\ CompleteEffect(p)
    <3>1. p \in Enders /\ Others(p) /\ UNCHANGED parts /\ active' \subseteq active
      BY <2>3, RolesApart DEF CompleteEffect
    <3>2. \A u \in Uploads: Handles(p, u)' => u \in active \/ Handles(p, u)
      BY <2>3 DEF CompleteEffect, Handles
    <3>3. \A u \in Uploads, n \in PartNum:
            staged'[u][n] = staged[u][n] \/ (Works(p, u) /\ staged'[u][n] = None)
      BY <2>3, EndDeletes DEF CompleteEffect, EndPCs
    <3>4. StagedAsRecorded'
      BY <1>0, <3>1, <3>2, <3>3, StagedAsRecordedEnd
    <3>5. \A q \in Completers: AssembledOf(q)'
      BY <1>0, <2>3, <3>1, AssembledOwn, AssembledKept DEF Others
    <3>6. QED
      BY <3>4, <3>5 DEF ContentInv
  <2>4. CASE p \in Aborters /\ AbortEffect(p)
    <3>1. p \in Enders /\ Others(p) /\ UNCHANGED parts /\ active' \subseteq active
      BY <2>4, RolesApart DEF AbortEffect
    <3>2. \A u \in Uploads: Handles(p, u)' => u \in active \/ Handles(p, u)
      BY <2>4 DEF AbortEffect, Handles
    <3>3. \A u \in Uploads, n \in PartNum:
            staged'[u][n] = staged[u][n] \/ (Works(p, u) /\ staged'[u][n] = None)
      BY <2>4, EndDeletes DEF AbortEffect, EndPCs
    <3>4. StagedAsRecorded'
      BY <1>0, <3>1, <3>2, <3>3, StagedAsRecordedEnd
    <3>5. \A q \in Completers: AssembledOf(q)'
      BY <1>0, <2>4, <3>1, AssembledKept, RolesApart DEF Others
    <3>6. QED
      BY <3>4, <3>5 DEF ContentInv
  <2>5. CASE p \in Collectors /\ CollectEffect(p)
    <3>1. p \in Enders /\ Others(p) /\ UNCHANGED parts /\ active' \subseteq active
      BY <2>5, RolesApart DEF CollectEffect
    <3>2. \A u \in Uploads: ~Handles(p, u)'
      BY <2>5 DEF CollectEffect, Handles
    <3>3. \A u \in Uploads, n \in PartNum:
            staged'[u][n] = staged[u][n] \/ (Works(p, u) /\ staged'[u][n] = None)
      BY <2>5, EndDeletes DEF CollectEffect, EndPCs
    <3>4. StagedAsRecorded'
      BY <1>0, <3>1, <3>2, <3>3, StagedAsRecordedEnd
    <3>5. \A q \in Completers: AssembledOf(q)'
      BY <1>0, <2>5, <3>1, AssembledKept, RolesApart DEF Others
    <3>6. QED
      BY <3>4, <3>5 DEF ContentInv
  <2>6. CASE ReturnEffect(p)
    <3>1. Others(p) /\ UNCHANGED <<active, parts, staged>> /\ pr'[p].pc = "idle" /\ At(p, "done")
      BY <2>6, IdleProcess DEF ReturnEffect
    <3>2. \A q \in Uploaders: \A u, n: Recording(q, u, n)' <=> Recording(q, u, n)
      BY <3>1, RolesApart DEF Others, Recording
    <3>3. \A u: (\E q \in Procs: Handles(q, u)') => \E q \in Procs: Handles(q, u)
      BY <3>1 DEF Others, Handles
    <3>4. \A q \in Uploaders: At(q, "record")' => At(q, "record") /\ pr'[q] = pr[q]
      BY <3>1, RolesApart DEF Others
    <3>5. StagedAsRecorded'
      BY <1>0, <3>1, <3>2, <3>3, <3>4 DEF StagedAsRecorded
    <3>6. AssembledOf(p)'
      BY <3>1 DEF AssembledOf, CompletePCs
    <3>7. \A q \in Completers: AssembledOf(q)'
      BY <1>0, <3>1, <3>6, AssembledKept DEF Others
    <3>8. QED
      BY <3>5, <3>7 DEF ContentInv
  <2>7. QED
    BY <1>1, <2>1, <2>2, <2>3, <2>4, <2>5, <2>6, Effects
<1>2. CASE Crash
  <2>1. active' = {} /\ \A p \in Procs: pr'[p].pc = "idle"
    BY <1>2, IdleProcess DEF Crash
  <2>2. StagedAsRecorded'
    BY <2>1, RolesApart DEF StagedAsRecorded, Handles
  <2>3. QED
    BY <2>1, <2>2, RolesApart DEF ContentInv, AssembledOf, CompletePCs
<1>3. CASE Rests
  <2>1. StagedAsRecorded'
    BY <1>0, <1>3 DEF Rests, StagedAsRecorded, Handles, Recording
  <2>2. \A q \in Completers: AssembledOf(q)'
    BY <1>0, <1>3, AssembledKept DEF Rests
  <2>3. QED
    BY <2>1, <2>2 DEF ContentInv
<1>4. QED
  BY <1>1, <1>2, <1>3, RestOfNext

(* When clients do not overlap the requests of an upload, a completion that   *)
(* is answered with 200 wrote the chunks its ETag names, although it reads    *)
(* the recorded parts, the staged parts and the recorded parts again, and     *)
(* any number of completions, aborts, GC passes and crashes come between.     *)
(* The calls of the object store succeed: a Put that fails twice over, in the *)
(* manifest and in taking its shard back, leaves another content under the    *)
(* recorded ETag.                                                            *)
THEOREM ETagOfBody == ASSUME ~Overlap, ~IOFaults PROVE Spec => []ETagNamesBody
<1>1. Init => CoopInv /\ ContentInv
  <2> SUFFICES ASSUME Init PROVE CoopInv /\ ContentInv
    OBVIOUS
  <2>1. active = {} /\ \A p \in Procs: pr[p].pc = "idle"
    BY IdleProcess DEF Init
  <2>2. QED
    BY <2>1, RolesApart DEF CoopInv, ContentInv, StagedAsRecorded, AssembledOf, Uploading,
       UploadPCs, Handles, CompletePCs
<1>2. ShapeInv /\ CoopInv /\ ContentInv /\ [Next]_vars => CoopInv' /\ ContentInv'
  BY CoopNext, ContentNext
<1>3. ContentInv => ETagNamesBody
  BY DEF ContentInv, AssembledOf, ETagNamesBody
<1>4. QED
  BY <1>1, <1>2, <1>3, MultipartShape, PTL DEF Spec

---------------------------------------------------------------------------
(* Who removes what is left of an upload, when every call of the object store *)
(* succeeds                                                                  *)

Sweeps(p, u) == pr[p].up = u /\ At(p, "sweep")

(* A handler that will remove all that is staged, or an uploader whose part    *)
(* will come late if somebody ends the upload before                         *)
Covers(p, u) ==
  \/ pr[p].up = u /\ pr[p].pc \in {"stage", "clean", "abort"}
  \/ Sweeps(p, u) /\ Staged(u) \subseteq pr[p].todo

Covered(u) == Staged(u) = {} \/ \E p \in Procs: Covers(p, u)

(* What a completion and an abort have removed stays away.                   *)
Cleaned(p) ==
  /\ At(p, "clean") => \A n \in Staged(pr[p].up): ~(n < pr[p].num)
  /\ At(p, "abort") => /\ Recorded(pr[p].up) \subseteq pr[p].todo
                       /\ Staged(pr[p].up) \cap pr[p].seen = {}

(* The upload is out of the table, or a collector that listed it takes it out. *)
Closing(u) == u \notin active \/ \E p \in Procs: Sweeps(p, u)

CoverInv ==
  /\ \A p \in Procs: Cleaned(p)
  /\ \A u \in Uploads \ late: Closing(u) => Covered(u)

LEMMA CoverStep ==
  ASSUME ShapeInv, CoverInv, NEW p \in Procs, Others(p), Cleaned(p)', late \subseteq late',
         \A u \in Uploads: (\E q \in Procs: Handles(q, u)) =>
           Staged(u)' \subseteq Staged(u) /\ Recorded(u)' \subseteq Recorded(u),
         \A u \in Uploads \ late': Closing(u) =>
           /\ Staged(u)' \subseteq Staged(u)
           /\ Covers(p, u) => Covers(p, u)' \/ Staged(u)' = {},
         \A u \in (active \ active') \ late': Covered(u)',
         \A u \in Uploads \ late': Sweeps(p, u)' => Sweeps(p, u) \/ Covered(u)'
  PROVE  CoverInv'
<1>1. ASSUME NEW q \in Procs PROVE Cleaned(q)'
  <2>1. CASE q # p /\ pr[q].pc \in {"clean", "abort"}
    <3>1. pr'[q] = pr[q] /\ pr[q].up \in Uploads /\ Handles(q, pr[q].up)
      BY <2>1, AtWork DEF Others, Handles, EndPCs
    <3>2. /\ Staged(pr[q].up)' \subseteq Staged(pr[q].up)
          /\ Recorded(pr[q].up)' \subseteq Recorded(pr[q].up)
      BY <3>1
    <3>3. QED
      BY <3>1, <3>2 DEF CoverInv, Cleaned
  <2>2. CASE q # p /\ pr[q].pc \notin {"clean", "abort"}
    BY <2>2 DEF Others, Cleaned
  <2>3. QED
    BY <2>1, <2>2
<1>2. ASSUME NEW u \in Uploads \ late', Closing(u)' PROVE Covered(u)'
  <2>1. CASE u \in active \ active'
    BY <2>1
  <2>2. CASE Sweeps(p, u)' /\ ~Sweeps(p, u)
    BY <2>2
  <2>3. CASE Closing(u)
    <3>1. Covered(u)
      BY <2>3 DEF CoverInv
    <3>2. Staged(u)' \subseteq Staged(u)
      BY <2>3
    <3>3. CASE \E q \in Procs \ {p}: Covers(q, u)
      BY <3>2, <3>3 DEF Others, Covered, Covers, Sweeps
    <3>4. CASE Covers(p, u)
      BY <2>3, <3>4 DEF Covered
    <3>5. CASE Staged(u) = {}
      BY <3>2, <3>5 DEF Covered
    <3>6. QED
      BY <3>1, <3>3, <3>4, <3>5 DEF Covered
  <2>4. QED
    BY <1>2, <2>1, <2>2, <2>3 DEF Closing, Others, Sweeps
<1>3. QED
  BY <1>1, <1>2 DEF CoverInv

(* Nothing is staged of the upload of a handler that is about to end it.     *)
LEMMA StagedRecorded ==
  ASSUME ShapeInv, CoopInv, ContentInv, NEW p \in Procs, pr[p].pc \in {"clean", "abort"}
  PROVE  Staged(pr[p].up) \subseteq Recorded(pr[p].up)
<1>1. pr[p].up \in Uploads /\ Handles(p, pr[p].up)
  BY AtWork DEF Handles, EndPCs
<1>2. \A q \in Uploaders: \A n \in PartNum: ~Recording(q, pr[p].up, n)
  BY <1>1, RolesApart DEF CoopInv, Recording, Uploading, UploadPCs
<1>3. QED
  BY <1>1, <1>2 DEF ContentInv, StagedAsRecorded, Staged, Recorded

LEMMA CompletedIsClean ==
  ASSUME ShapeInv, CoopInv, ContentInv, CoverInv, NEW p \in Completers,
         At(p, "clean"), pr[p].num > Count(pr[p].up)
  PROVE  Staged(pr[p].up) = {}
<1>1. p \in Procs /\ Len(pr[p].body) \in Nat /\ pr[p].num \in Nat
  BY RolesApart DEF ShapeInv, TypeOK, Process
<1>2. Recorded(pr[p].up) = 1..Len(pr[p].body)
  BY DEF ContentInv, AssembledOf
<1>3. Count(pr[p].up) = Len(pr[p].body)
  BY <1>1, <1>2, FS_Interval DEF Count
<1>4. \A n \in Staged(pr[p].up): n \in 1..Len(pr[p].body) /\ ~(n < pr[p].num)
  BY <1>1, <1>2, StagedRecorded DEF CoverInv, Cleaned
<1>5. QED
  BY <1>1, <1>3, <1>4

LEMMA AbortedIsClean ==
  ASSUME ShapeInv, CoopInv, ContentInv, CoverInv, NEW p \in Procs,
         At(p, "abort"), pr[p].todo \subseteq pr[p].seen
  PROVE  Staged(pr[p].up) = {}
BY StagedRecorded DEF CoverInv, Cleaned

(* A deletion that succeeds leaves the part's file out.                      *)
LEMMA Dropped ==
  ASSUME ShapeInv, ~IOFaults, NEW p \in Procs, pr[p].pc \in EndPCs, NEW n \in PartNum,
         DeletePart(pr[p].up, n)
  PROVE  \A u \in Uploads: Staged(u)' = IF u = pr[p].up THEN Staged(u) \ {n} ELSE Staged(u)
<1>1. pr[p].up \in Uploads /\ TypeOK
  BY AtWork DEF ShapeInv
<1>2. QED
  BY <1>1 DEF DeletePart, Drop, Staged, TypeOK

LEMMA CoverUpload ==
  ASSUME ~IOFaults, ShapeInv, CoopInv, CoverInv, NEW p \in Uploaders, UploadEffect(p)
  PROVE  CoverInv'
<1>1. p \in Procs /\ Others(p) /\ active' = active /\ late \subseteq late' /\ TypeOK
  BY UploadApart DEF UploadEffect, ShapeInv
<1>2. pr'[p].pc \in {"stage", "record", "done"}
  BY DEF UploadEffect
<1>3. pr[p].pc \notin {"clean", "abort", "sweep"}
  BY <1>1, RoleOf, RolesApart DEF EndPCs
<1>4. ASSUME NEW u \in Uploads, \E q \in Procs: Handles(q, u)
      PROVE  Staged(u)' \subseteq Staged(u) /\ Recorded(u)' \subseteq Recorded(u)
  BY <1>4, UploadApart DEF Staged, Recorded
<1>5. Cleaned(p)' /\ \A u: ~Sweeps(p, u)'
  BY <1>2 DEF Cleaned, Sweeps
<1>6. ASSUME NEW u \in Uploads \ late', Closing(u)
      PROVE  Staged(u)' = Staged(u) /\ (Covers(p, u) => Covers(p, u)')
  <2>1. CASE pr[p].pc = "stage"
    <3>1. /\ staged' = [staged EXCEPT ![pr[p].up][pr[p].num] = pr[p].body[1]]
          /\ pr[p].up \in late' \/ (pr[p].up \in active /\ ~Swept(pr[p].up))
      BY <2>1 DEF UploadEffect
    <3>2. u # pr[p].up
      <4>1. ASSUME NEW q \in Procs, Sweeps(q, u) PROVE Swept(u)
        BY <4>1, RoleOf DEF Sweeps, Swept
      <4>2. QED
        BY <1>6, <3>1, <4>1 DEF Closing
    <3>3. staged'[u] = staged[u]
      BY <1>1, <3>1, <3>2 DEF TypeOK
    <3>4. QED
      BY <1>3, <3>2, <3>3 DEF Staged, Covers, Sweeps
  <2>2. CASE pr[p].pc # "stage"
    BY <1>3, <2>2 DEF UploadEffect, Staged, Covers, Sweeps
  <2>3. QED
    BY <2>1, <2>2
<1>7. QED
  BY <1>1, <1>4, <1>5, <1>6, CoverStep

LEMMA CoverComplete ==
  ASSUME ~IOFaults, ShapeInv, CoopInv, ContentInv, CoverInv, NEW p \in Completers,
         CompleteEffect(p)
  PROVE  CoverInv'
<1>1. p \in Procs /\ p \in Enders /\ Others(p) /\ UNCHANGED <<parts, late>>
      /\ pr[p].pc # "stage" /\ pr'[p].pc # "stage"
  BY RolesApart DEF CompleteEffect
<1>2. \A u: Recorded(u)' = Recorded(u)
  BY <1>1 DEF Recorded
<1>3. pr[p].pc # "sweep" /\ pr'[p].pc # "sweep" /\ pr[p].pc # "abort" /\ pr'[p].pc # "abort"
  BY DEF CompleteEffect
<1>4. CASE At(p, "clean") /\ At(p, "clean")'
  <2>1. /\ pr'[p].up = pr[p].up /\ pr'[p].num = pr[p].num + 1 /\ pr[p].num \in PartNum
        /\ DeletePart(pr[p].up, pr[p].num) /\ active' = active
    BY <1>4 DEF CompleteEffect
  <2>2. /\ pr[p].up \in Uploads
        /\ \A u \in Uploads: Staged(u)' = IF u = pr[p].up THEN Staged(u) \ {pr[p].num} ELSE Staged(u)
    BY <1>1, <1>4, <2>1, Dropped, AtWork DEF EndPCs
  <2>3. \A n \in Staged(pr[p].up): n \in Nat /\ ~(n < pr[p].num)
    BY <1>1, <1>4, PartNumbers DEF CoverInv, Cleaned, Staged
  <2>4. Cleaned(p)'
    BY <1>3, <2>1, <2>2, <2>3, PartNumbers DEF Cleaned
  <2>5. QED
    BY <1>1, <1>2, <1>3, <1>4, <2>1, <2>2, <2>4, CoverStep DEF Covers, Sweeps
<1>5. CASE ~At(p, "clean")
  <2>1. UNCHANGED <<active, staged>>
    BY <1>5 DEF CompleteEffect
  <2>2. \A u: Staged(u)' = Staged(u)
    BY <2>1 DEF Staged
  <2>3. At(p, "clean")' => pr'[p].num = 1
    BY <1>5 DEF CompleteEffect
  <2>4. \A u: \A n \in Staged(u): ~(n < 1)
    BY PartNumAssumption DEF Staged
  <2>5. Cleaned(p)'
    BY <1>3, <2>2, <2>3, <2>4 DEF Cleaned
  <2>6. QED
    BY <1>1, <1>2, <1>3, <1>5, <2>1, <2>2, <2>5, CoverStep DEF Covers, Sweeps
<1>6. CASE At(p, "clean") /\ ~At(p, "clean")'
  <2>1. pr[p].num > Count(pr[p].up) /\ active' = active \ {pr[p].up} /\ UNCHANGED staged
    BY <1>6 DEF CompleteEffect
  <2>2. \A u: Staged(u)' = Staged(u)
    BY <2>1 DEF Staged
  <2>3. \A u: u = pr[p].up => Staged(u)' = {}
    BY <1>6, <2>1, <2>2, CompletedIsClean
  <2>4. Cleaned(p)'
    BY <1>3, <1>6 DEF Cleaned
  <2>5. /\ \A u \in Uploads: Covers(p, u) => Staged(u)' = {}
        /\ \A u \in active \ active': Covered(u)'
        /\ \A u: ~Sweeps(p, u)'
    BY <1>3, <2>1, <2>3 DEF Covers, Covered, Sweeps
  <2>6. \A u: Staged(u)' \subseteq Staged(u) /\ Recorded(u)' \subseteq Recorded(u)
    BY <1>2, <2>2
  <2>7. QED
    BY <1>1, <2>4, <2>5, <2>6, CoverStep
<1>7. QED
  BY <1>4, <1>5, <1>6

LEMMA CoverAbort ==
  ASSUME ~IOFaults, ShapeInv, CoopInv, ContentInv, CoverInv, NEW p \in Aborters,
         AbortEffect(p)
  PROVE  CoverInv'
<1>1. p \in Procs /\ p \in Enders /\ Others(p) /\ UNCHANGED <<parts, late>>
      /\ pr[p].pc # "stage" /\ pr'[p].pc # "stage"
  BY RolesApart DEF AbortEffect
<1>2. \A u: Recorded(u)' = Recorded(u)
  BY <1>1 DEF Recorded
<1>3. pr[p].pc # "sweep" /\ pr'[p].pc # "sweep" /\ pr[p].pc # "clean" /\ pr'[p].pc # "clean"
  BY DEF AbortEffect
<1>4. CASE At(p, "abort") /\ At(p, "abort")'
  <2>1. PICK n \in PartNum: DeletePart(pr[p].up, n) /\ pr'[p].seen = pr[p].seen \cup {n}
    BY <1>4 DEF AbortEffect
  <2>2. pr'[p].up = pr[p].up /\ pr'[p].todo = pr[p].todo /\ active' = active
    BY <1>4 DEF AbortEffect
  <2>3. /\ pr[p].up \in Uploads
        /\ \A u \in Uploads: Staged(u)' = IF u = pr[p].up THEN Staged(u) \ {n} ELSE Staged(u)
    BY <1>1, <1>4, <2>1, Dropped, AtWork DEF EndPCs
  <2>4. Cleaned(p)'
    BY <1>1, <1>2, <1>3, <1>4, <2>1, <2>2, <2>3 DEF CoverInv, Cleaned
  <2>5. QED
    BY <1>1, <1>2, <1>3, <1>4, <2>2, <2>3, <2>4, CoverStep DEF Covers, Sweeps
<1>5. CASE ~At(p, "abort")
  <2>1. UNCHANGED <<active, staged>>
    BY <1>5 DEF AbortEffect
  <2>2. \A u: Staged(u)' = Staged(u)
    BY <2>1 DEF Staged
  <2>3. At(p, "abort")' => pr'[p].todo = Recorded(pr'[p].up) /\ pr'[p].seen = {}
    BY <1>5 DEF AbortEffect
  <2>4. Cleaned(p)'
    BY <1>2, <1>3, <2>3 DEF Cleaned
  <2>5. QED
    BY <1>1, <1>2, <1>3, <1>5, <2>1, <2>2, <2>4, CoverStep DEF Covers, Sweeps
<1>6. CASE At(p, "abort") /\ ~At(p, "abort")'
  <2>1. pr[p].todo \subseteq pr[p].seen /\ active' = active \ {pr[p].up} /\ UNCHANGED staged
    BY <1>6 DEF AbortEffect
  <2>2. \A u: Staged(u)' = Staged(u)
    BY <2>1 DEF Staged
  <2>3. \A u: u = pr[p].up => Staged(u)' = {}
    BY <1>1, <1>6, <2>1, <2>2, AbortedIsClean
  <2>4. Cleaned(p)'
    BY <1>3, <1>6 DEF Cleaned
  <2>5. /\ \A u \in Uploads: Covers(p, u) => Staged(u)' = {}
        /\ \A u \in active \ active': Covered(u)'
        /\ \A u: ~Sweeps(p, u)'
    BY <1>3, <2>1, <2>3 DEF Covers, Covered, Sweeps
  <2>6. \A u: Staged(u)' \subseteq Staged(u) /\ Recorded(u)' \subseteq Recorded(u)
    BY <1>2, <2>2
  <2>7. QED
    BY <1>1, <2>4, <2>5, <2>6, CoverStep
<1>7. QED
  BY <1>4, <1>5, <1>6

(* Without faults every part that is staged can be read. *)
TornFree == \A u \in Uploads: Readable(u) = Staged(u)

LEMMA TornNext == ~IOFaults /\ ShapeInv /\ TornFree /\ [Next]_vars => TornFree'
<1> SUFFICES ASSUME ~IOFaults, ShapeInv, TornFree, [Next]_vars,
                    NEW u \in Uploads, NEW n \in PartNum
             PROVE  staged'[u][n] # Torn
  BY DEF TornFree, Readable, Staged
<1>0. TypeOK /\ staged[u][n] # Torn /\ None # Torn /\ Torn \notin Chunk
  BY NoneAssumption DEF ShapeInv, TornFree, Readable, Staged
<1>1. ASSUME NEW p \in Procs, Step(p) PROVE staged'[u][n] # Torn
  <2>1. CASE p \in Uploaders /\ pr[p].pc = "stage" /\ UploadEffect(p)
    <3>1. /\ pr[p].up \in Uploads /\ pr[p].num \in PartNum /\ pr[p].body[1] \in Chunk
          /\ staged' = [staged EXCEPT ![pr[p].up][pr[p].num] = pr[p].body[1]]
      BY <2>1, AtWork, RoleOf DEF UploadEffect, ShapeInv, Shape, UploadPCs
    <3>2. QED
      BY <1>0, <3>1 DEF TypeOK
  <2>2. CASE \/ p \in Completers /\ CompleteEffect(p)
             \/ p \in Aborters /\ AbortEffect(p)
             \/ p \in Collectors /\ CollectEffect(p)
    <3>1. \/ UNCHANGED staged
          \/ pr[p].pc \in EndPCs /\ \E m \in PartNum: DeletePart(pr[p].up, m)
      BY <2>2 DEF CompleteEffect, AbortEffect, CollectEffect, EndPCs
    <3>2. QED
      BY <1>0, <3>1, EndDeletes
  <2>3. CASE \/ p \in Initiators /\ InitiateEffect(p)
             \/ p \in Uploaders /\ pr[p].pc # "stage" /\ UploadEffect(p)
             \/ ReturnEffect(p)
    BY <1>0, <2>3 DEF InitiateEffect, UploadEffect, ReturnEffect
  <2>4. QED
    BY <1>1, <2>1, <2>2, <2>3, Effects
<1>2. CASE Crash
  BY <1>0, <1>2 DEF Crash
<1>3. CASE Rests
  BY <1>0, <1>3 DEF Rests
<1>4. QED
  BY <1>1, <1>2, <1>3, RestOfNext

LEMMA CoverCollect ==
  ASSUME ~IOFaults, TornFree, ShapeInv, CoverInv, NEW p \in Collectors,
         CollectEffect(p)
  PROVE  CoverInv'
<1>1. p \in Procs /\ p \in Enders /\ Others(p) /\ UNCHANGED <<parts, late>>
      /\ pr[p].pc # "stage" /\ pr'[p].pc # "stage"
  BY RolesApart DEF CollectEffect
<1>2. \A u: Recorded(u)' = Recorded(u)
  BY <1>1 DEF Recorded
<1>3. pr[p].pc \notin {"clean", "abort"} /\ pr'[p].pc \notin {"clean", "abort"} /\ Cleaned(p)'
  BY DEF CollectEffect, Cleaned
<1>4. CASE At(p, "sweep") /\ At(p, "sweep")'
  <2>1. PICK n \in PartNum: DeletePart(pr[p].up, n) /\ pr'[p].todo = pr[p].todo \ {n}
    BY <1>4 DEF CollectEffect
  <2>2. pr'[p].up = pr[p].up /\ active' = active
    BY <1>4 DEF CollectEffect
  <2>3. \A u \in Uploads: Staged(u)' = IF u = pr[p].up THEN Staged(u) \ {n} ELSE Staged(u)
    BY <1>1, <1>4, <2>1, Dropped DEF EndPCs
  <2>4. ASSUME NEW u \in Uploads, Covers(p, u) PROVE Covers(p, u)'
    BY <1>3, <1>4, <2>1, <2>2, <2>3, <2>4 DEF Covers, Sweeps
  <2>5. QED
    BY <1>1, <1>2, <1>3, <1>4, <2>2, <2>3, <2>4, CoverStep DEF Sweeps
<1>5. CASE At(p, "sweep") /\ ~At(p, "sweep")'
  <2>1. pr[p].todo = {} /\ active' = active \ {pr[p].up} /\ UNCHANGED staged
    BY <1>5 DEF CollectEffect
  <2>2. \A u: Staged(u)' = Staged(u)
    BY <2>1 DEF Staged
  <2>3. \A u \in Uploads: Covers(p, u) => Staged(u)' = {}
    BY <1>1, <1>3, <2>1, <2>2 DEF Covers
  <2>4. \A q \in Procs \ {p}: \A u: Covers(q, u) => Covers(q, u)'
    BY <1>1, <2>2 DEF Others, Covers, Sweeps
  <2>5. ASSUME NEW u \in (active \ active') \ late' PROVE Covered(u)'
    <3>1. u \in Uploads \ late /\ Sweeps(p, u)
      BY <1>1, <1>5, <2>1, AtWork DEF Sweeps, EndPCs
    <3>2. Covered(u)
      BY <1>1, <3>1 DEF CoverInv, Closing
    <3>3. QED
      BY <2>2, <2>3, <2>4, <3>1, <3>2 DEF Covered
  <2>6. QED
    BY <1>1, <1>2, <1>5, <1>3, <2>2, <2>3, <2>5, CoverStep DEF Sweeps
<1>6. CASE ~At(p, "sweep")
  <2>1. UNCHANGED <<active, staged>>
    BY <1>6 DEF CollectEffect
  <2>2. \A u: Staged(u)' = Staged(u)
    BY <2>1 DEF Staged
  <2>3. \A q \in Procs \ {p}: \A u: Covers(q, u) => Covers(q, u)'
    BY <1>1, <2>2 DEF Others, Covers, Sweeps
  <2>4. \A u: ~Covers(p, u)
    BY <1>1, <1>3, <1>6 DEF Covers, Sweeps
  <2>5. ASSUME NEW u \in Uploads \ late', Sweeps(p, u)' PROVE Covered(u)'
    <3>1. /\ pr'[p].up = u /\ u \in Uploads \ late
          /\ pr'[p].todo = Staged(u) \/ Disturbed(u, p)
      BY <1>1, <1>6, <2>5 DEF CollectEffect, Sweeps, TornFree
    <3>2. CASE pr'[p].todo = Staged(u)
      BY <1>1, <2>2, <2>5, <3>2 DEF Covered, Covers
    <3>3. CASE Disturbed(u, p)
      <4>1. PICK q \in Procs \ {p}:
              pr[q].up = u /\ pr[q].pc \in {"stage", "clean", "abort", "sweep"}
        BY <3>3 DEF Disturbed
      <4>2. CASE pr[q].pc \in {"stage", "clean", "abort"}
        BY <2>3, <4>1, <4>2 DEF Covered, Covers
      <4>3. CASE pr[q].pc = "sweep"
        <5>1. Covered(u)
          BY <3>1, <4>1, <4>3 DEF CoverInv, Closing, Sweeps
        <5>2. QED
          BY <2>2, <2>3, <2>4, <5>1 DEF Covered
      <4>4. QED
        BY <4>1, <4>2, <4>3
    <3>4. QED
      BY <3>1, <3>2, <3>3
  <2>6. QED
    BY <1>1, <1>2, <1>3, <2>1, <2>2, <2>4, <2>5, CoverStep
<1>7. QED
  BY <1>4, <1>5, <1>6

LEMMA CoverNext ==
  ~Overlap /\ ~IOFaults /\ ~Crashes /\ ShapeInv /\ CoopInv /\ ContentInv /\ TornFree
    /\ CoverInv /\ [Next]_vars
    => CoverInv'
<1> SUFFICES ASSUME ~Overlap, ~IOFaults, ~Crashes, ShapeInv, CoopInv, ContentInv, TornFree,
                    CoverInv, [Next]_vars
             PROVE  CoverInv'
  OBVIOUS
<1>1. ASSUME NEW p \in Procs, Step(p) PROVE CoverInv'
  <2>1. CASE p \in Initiators /\ InitiateEffect(p)
    <3>1. /\ Others(p) /\ UNCHANGED <<parts, staged, late>>
          /\ pr'[p].pc = "done" /\ active \subseteq active'
      BY <2>1 DEF InitiateEffect
    <3>2. \A u: Staged(u)' = Staged(u) /\ Recorded(u)' = Recorded(u)
      BY <3>1 DEF Staged, Recorded
    <3>3. pr[p].pc \notin {"stage", "clean", "abort", "sweep"}
      BY <2>1, RoleOf, RolesApart DEF EndPCs, UploadPCs
    <3>4. QED
      BY <3>1, <3>2, <3>3, CoverStep DEF Cleaned, Covers, Sweeps
  <2>2. CASE p \in Uploaders /\ UploadEffect(p)
    BY <2>2, CoverUpload
  <2>3. CASE p \in Completers /\ CompleteEffect(p)
    BY <2>3, CoverComplete
  <2>4. CASE p \in Aborters /\ AbortEffect(p)
    BY <2>4, CoverAbort
  <2>5. CASE p \in Collectors /\ CollectEffect(p)
    BY <2>5, CoverCollect
  <2>6. CASE ReturnEffect(p)
    <3>1. /\ Others(p) /\ UNCHANGED <<active, parts, staged, late>>
          /\ pr'[p].pc = "idle" /\ At(p, "done")
      BY <2>6, IdleProcess DEF ReturnEffect
    <3>2. \A u: Staged(u)' = Staged(u) /\ Recorded(u)' = Recorded(u)
      BY <3>1 DEF Staged, Recorded
    <3>3. QED
      BY <3>1, <3>2, CoverStep DEF Cleaned, Covers, Sweeps
  <2>7. QED
    BY <1>1, <2>1, <2>2, <2>3, <2>4, <2>5, <2>6, Effects
<1>2. CASE Crash
  BY <1>2 DEF Crash
<1>3. CASE Rests
  BY <1>3 DEF Rests, CoverInv, Closing, Cleaned, Covered, Covers, Sweeps, Staged, Recorded
<1>4. QED
  BY <1>1, <1>2, <1>3, RestOfNext

(* When clients do not overlap the requests of an upload, calls of the object *)
(* store succeed and the process is not killed, an upload that left the table *)
(* has no staged part once the handlers that worked on it are through, unless *)
(* a part came after a collector had listed the upload: what is staged is     *)
(* what is recorded, so a completion and an abort delete it all, and a GC     *)
(* pass that was answered with an empty listing was so because another        *)
(* handler is deleting it all or a part is still on its way.                 *)
THEOREM NothingOrphaned == ASSUME ~Overlap, ~IOFaults, ~Crashes PROVE Spec => []NoOrphanParts
<1>1. Init => CoopInv /\ ContentInv /\ TornFree /\ CoverInv
  <2> SUFFICES ASSUME Init PROVE CoopInv /\ ContentInv /\ TornFree /\ CoverInv
    OBVIOUS
  <2>1. active = {} /\ \A p \in Procs: pr[p].pc = "idle"
    BY IdleProcess DEF Init
  <2>2. CoopInv /\ ContentInv
    BY <2>1, RolesApart DEF CoopInv, ContentInv, StagedAsRecorded, AssembledOf, Uploading,
       UploadPCs, Handles, CompletePCs
  <2>3. \A u \in Uploads: Staged(u) = {} /\ Readable(u) = {}
    BY DEF Init, Staged, Readable, NoParts
  <2>4. QED
    BY <2>1, <2>2, <2>3 DEF CoverInv, Cleaned, Covered, TornFree
<1>2. ShapeInv /\ CoopInv /\ ContentInv /\ TornFree /\ CoverInv /\ [Next]_vars
        => CoopInv' /\ ContentInv' /\ TornFree' /\ CoverInv'
  BY CoopNext, ContentNext, TornNext, CoverNext
<1>3. ShapeInv /\ CoverInv => NoOrphanParts
  BY DEF ShapeInv, TypeOK, CoverInv, Closing, Covered, Covers, Sweeps, NoOrphanParts, Busy
<1>4. QED
  BY <1>1, <1>2, <1>3, MultipartShape, PTL DEF Spec

=============================================================================
