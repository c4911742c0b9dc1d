--------------------------- MODULE BucketsProofs ---------------------------
(***************************************************************************)
(* What is proved of Buckets for every set of handlers, keys and uploads:    *)
(* DELETE of a bucket never takes an object whose PUT was answered before    *)
(* the DELETE began; and to one client who waits for each answer, a bucket   *)
(* that is not there is empty, and what was put is there.                    *)
(***************************************************************************)
EXTENDS Buckets, TLAPS

(* The inductive invariant.  What a remover remembers as there all along is   *)
(* there now, and is internal once the remover saw the bucket empty.  A PUT  *)
(* under way knows its key.                                                 *)
HeldInv ==
  /\ TypeOK
  /\ \A p \in Procs: pr[p].pc = "put" => pr[p].arg \in Keys
  /\ \A p \in Removers:
       /\ held[p] \subseteq objects
       /\ pr[p].pc \in {"remove", "removeAll"} => held[p] \subseteq Internal

(* Abbreviations that every step uses *)
USE DEF At, Goto, Answer, store, files

(* Nothing is remembered and nobody runs at the start. *)
LEMMA HeldInit == Init => HeldInv
<1> SUFFICES ASSUME Init PROVE HeldInv
  OBVIOUS
<1>1. Idle \in Process /\ Idle.pc = "idle"
  BY DEF Idle, Process, PCs, Args, Statuses
<1>2. Removers \subseteq Procs
  BY DEF Procs
<1>3. pr \in [Procs -> Process] /\ \A p \in Procs: pr[p].pc = "idle"
  BY <1>1 DEF Init
<1>4. held \in [Removers -> SUBSET Keys] /\ \A p \in Removers: held[p] = {}
  BY DEF Init
<1>5. TypeOK
  BY <1>3, <1>4 DEF Init, TypeOK
<1>6. QED
  BY <1>2, <1>3, <1>4, <1>5 DEF HeldInv

(* A step of one handler preserves the invariant if it keeps the types, if    *)
(* the histories stay within the objects and grow for this handler at most,  *)
(* and if the handler passes an emptiness check only with internal keys.     *)
LEMMA HeldStep ==
  ASSUME HeldInv, UNCHANGED serial,
         NEW p \in Procs, NEW pc \in PCs, NEW arg \in Args, NEW status \in Statuses,
         Become(p, pc, arg, status), pc = "put" => arg \in Keys,
         exists' \in BOOLEAN, litter' \in BOOLEAN,
         objects' \subseteq Keys, acked' \subseteq Keys,
         uploads' \subseteq born', born' \subseteq Uploads,
         held' \in [Removers -> SUBSET Keys],
         \A q \in Removers: held'[q] \subseteq objects',
         \A q \in Removers \ {p}: held'[q] \subseteq held[q],
         p \in Removers /\ pc \in {"remove", "removeAll"} => held'[p] \subseteq Internal
  PROVE  HeldInv'
<1>1. [pc |-> pc, arg |-> arg, status |-> status] \in Process
  BY DEF Process
<1>2. pr' \in [Procs -> Process]
  BY <1>1 DEF HeldInv, TypeOK, Become
<1>3. pr'[p].pc = pc /\ \A q \in Procs \ {p}: pr'[q] = pr[q]
  BY DEF HeldInv, TypeOK, Become
<1>4. TypeOK'
  BY <1>2 DEF HeldInv, TypeOK
<1>5. ASSUME NEW q \in Removers
      PROVE  pr'[q].pc \in {"remove", "removeAll"} => held'[q] \subseteq Internal
  <2>1. CASE q = p
    BY <1>3, <2>1
  <2>2. CASE q # p
    BY <1>3, <2>2 DEF HeldInv, Procs
  <2>3. QED
    BY <2>1, <2>2
<1>6. ASSUME NEW q \in Procs, pr'[q].pc = "put" PROVE pr'[q].arg \in Keys
  <2>1. CASE q = p
    BY <1>6, <2>1 DEF HeldInv, TypeOK, Become
  <2>2. CASE q # p
    BY <1>3, <1>6, <2>2 DEF HeldInv
  <2>3. QED
    BY <2>1, <2>2
<1>7. QED
  BY <1>4, <1>5, <1>6 DEF HeldInv

(* ... in particular one that leaves the files alone. *)
LEMMA HeldStore ==
  ASSUME HeldInv, UNCHANGED <<serial, files>>,
         NEW p \in Procs, NEW pc \in PCs, NEW arg \in Args, NEW status \in Statuses,
         Become(p, pc, arg, status), pc = "put" => arg \in Keys,
         exists' \in BOOLEAN, uploads' \subseteq born', born' \subseteq Uploads,
         p \in Removers /\ pc \in {"remove", "removeAll"} => held[p] \subseteq Internal
  PROVE  HeldInv'
<1>1. /\ objects' \subseteq Keys /\ acked' \subseteq Keys /\ litter' \in BOOLEAN
      /\ held' \in [Removers -> SUBSET Keys]
      /\ \A q \in Removers: held'[q] \subseteq objects' /\ held'[q] \subseteq held[q]
  BY DEF HeldInv, TypeOK
<1>2. p \in Removers /\ pc \in {"remove", "removeAll"} => held'[p] \subseteq Internal
  OBVIOUS
<1>3. QED
  BY <1>1, <1>2, HeldStep

(* The constants that occur as arguments of Become *)
LEMMA Marks ==
  /\ \A p \in Procs: TypeOK => pr[p].arg \in Args
  /\ Keys \cup Uploads \cup {None} \subseteq Args
  /\ Statuses = {0, 200, 204, 404, 409, 500}
  /\ PCs = {"idle", "create", "count", "empty", "remove", "removeAll", "unlist",
            "put", "initiate", "write", "complete", "done"}
BY DEF TypeOK, Process, Args, Statuses, PCs

(* PUT /bucket touches no file. *)
LEMMA HeldCreate ==
  ASSUME HeldInv, UNCHANGED serial, NEW p \in Creators,
         CreateCheck(p) \/ CreateCommit(p)
  PROVE  HeldInv'
<1>1. p \in Procs /\ TypeOK
  BY DEF Procs, HeldInv
<1>2. CASE CreateCheck(p)
  <2>1. PICK pc \in {"create", "done"}, s \in {0, 409}: Become(p, pc, pr[p].arg, s)
    BY <1>2 DEF CreateCheck
  <2>2. UNCHANGED <<store, files>>
    BY <1>2 DEF CreateCheck
  <2>3. QED
    BY <1>1, <2>1, <2>2, HeldStore, Marks DEF TypeOK
<1>3. CASE CreateCommit(p)
  <2>1. PICK s \in {200, 500}: Become(p, "done", pr[p].arg, s)
    BY <1>3 DEF CreateCommit
  <2>2. exists' = TRUE /\ UNCHANGED <<uploads, born, files>>
    BY <1>3 DEF CreateCommit
  <2>3. QED
    BY <1>1, <2>1, <2>2, HeldStore, Marks DEF TypeOK
<1>4. QED
  BY <1>2, <1>3

(* The two emptiness checks make the remembered keys internal ones. *)
LEMMA HeldRemove ==
  ASSUME HeldInv, UNCHANGED serial, NEW p \in Removers,
         \/ RemoveCheck(p) \/ RemoveCount(p) \/ RemoveEmpty(p) \/ RemoveAgain(p)
         \/ RemoveTree(p) \/ RemoveTreeFails(p) \/ RemoveUnlist(p)
  PROVE  HeldInv'
<1>1. p \in Procs /\ TypeOK
  BY DEF Procs, HeldInv
<1>2. CASE RemoveCheck(p)
  <2>1. PICK pc \in {"count", "done"}, s \in {0, 404}: Become(p, pc, pr[p].arg, s)
    BY <1>2 DEF RemoveCheck
  <2>2. /\ held' = [held EXCEPT ![p] = acked \cap objects]
        /\ UNCHANGED <<store, objects, litter, acked>>
    BY <1>2 DEF RemoveCheck
  <2>3. /\ held' \in [Removers -> SUBSET Keys]
        /\ \A q \in Removers: held'[q] \subseteq objects'
        /\ \A q \in Removers \ {p}: held'[q] \subseteq held[q]
    BY <2>2 DEF HeldInv, TypeOK
  <2>4. pr[p].arg \in Args /\ pc \in PCs /\ s \in Statuses
    BY <1>1, Marks
  <2>5. QED
    BY <1>1, <2>1, <2>2, <2>3, <2>4, HeldStep DEF TypeOK
<1>3. CASE RemoveCount(p)
  <2>1. PICK pc \in {"empty", "done"}, s \in {0, 409}: Become(p, pc, pr[p].arg, s)
    BY <1>3 DEF RemoveCount
  <2>2. UNCHANGED <<store, files>>
    BY <1>3 DEF RemoveCount
  <2>3. QED
    BY <1>1, <2>1, <2>2, HeldStore, Marks DEF TypeOK
<1>4. CASE RemoveEmpty(p) \/ RemoveAgain(p)
  <2>1. PICK pc \in {"remove", "removeAll", "done"}, s \in {0, 409, 500}:
          /\ Become(p, pc, pr[p].arg, s)
          /\ pc \in {"remove", "removeAll"} => IsBucketEmpty
    BY <1>4 DEF RemoveEmpty, RemoveAgain, CheckEmpty
  <2>2. UNCHANGED <<store, files>>
    BY <1>4 DEF RemoveEmpty, RemoveAgain
  <2>3. pc \in {"remove", "removeAll"} => held[p] \subseteq Internal
    BY <2>1 DEF IsBucketEmpty, HeldInv
  <2>4. QED
    BY <1>1, <2>1, <2>2, <2>3, HeldStore, Marks DEF TypeOK
<1>5. CASE RemoveTree(p)
  <2>1. Become(p, "unlist", pr[p].arg, 0)
    BY <1>5 DEF RemoveTree
  <2>2. /\ objects' = {} /\ litter' = FALSE /\ held' = [q \in Removers |-> {}]
        /\ UNCHANGED <<store, acked>>
    BY <1>5 DEF RemoveTree
  <2>3. /\ held' \in [Removers -> SUBSET Keys]
        /\ \A q \in Removers: held'[q] = {}
    BY <2>2
  <2>4. pr[p].arg \in Args /\ "unlist" \in PCs /\ 0 \in Statuses
    BY <1>1, Marks
  <2>5. QED
    BY <1>1, <2>1, <2>2, <2>3, <2>4, HeldStep DEF TypeOK
<1>6. CASE RemoveUnlist(p)
  <2>1. Become(p, "done", pr[p].arg, 204)
    BY <1>6 DEF RemoveUnlist
  <2>2. exists' = FALSE /\ UNCHANGED <<uploads, born, files>>
    BY <1>6 DEF RemoveUnlist
  <2>3. pr[p].arg \in Args /\ "done" \in PCs /\ 204 \in Statuses
    BY <1>1, Marks
  <2>4. QED
    BY <1>1, <2>1, <2>2, <2>3, HeldStore DEF TypeOK
<1>7. CASE RemoveTreeFails(p)
  <2>1. Become(p, "done", pr[p].arg, 500)
    BY <1>7 DEF RemoveTreeFails
  <2>2. /\ objects' \subseteq objects /\ litter' \in {litter, FALSE}
        /\ held' = [q \in Removers |-> held[q] \cap objects']
        /\ UNCHANGED <<store, acked>>
    BY <1>7 DEF RemoveTreeFails
  <2>3. /\ held' \in [Removers -> SUBSET Keys]
        /\ \A q \in Removers: held'[q] \subseteq objects' /\ held'[q] \subseteq held[q]
        /\ objects' \subseteq Keys /\ litter' \in BOOLEAN
    BY <2>2 DEF HeldInv, TypeOK
  <2>4. pr[p].arg \in Args /\ "done" \in PCs /\ 500 \in Statuses
    BY <1>1, Marks
  <2>5. QED
    BY <1>1, <2>1, <2>2, <2>3, <2>4, HeldStep DEF TypeOK
<1>8. QED
  BY <1>2, <1>3, <1>4, <1>5, <1>6, <1>7

(* A DELETE of a key takes it out of every history with the object. *)
LEMMA HeldWrite ==
  ASSUME HeldInv, UNCHANGED serial, NEW p \in Writers,
         \/ PutCheck(p) \/ PutObject(p) \/ PutFails(p)
         \/ DeleteObject(p) \/ DeleteLitter(p)
  PROVE  HeldInv'
<1>1. p \in Procs /\ TypeOK
  BY DEF Procs, HeldInv
<1>2. CASE PutCheck(p)
  <2>1. PICK pc \in {"put", "done"}, k \in Keys, s \in {0, 404}: Become(p, pc, k, s)
    BY <1>2 DEF PutCheck
  <2>2. UNCHANGED <<store, files>>
    BY <1>2 DEF PutCheck
  <2>3. QED
    BY <1>1, <2>1, <2>2, HeldStore, Marks DEF TypeOK
<1>3. CASE PutObject(p)
  <2>1. Become(p, "done", pr[p].arg, 200)
    BY <1>3 DEF PutObject
  <2>2. /\ objects' = objects \cup {pr[p].arg} /\ acked' = acked \cup {pr[p].arg}
        /\ UNCHANGED <<store, litter, held>>
    BY <1>3 DEF PutObject
  <2>3. pr[p].arg \in Keys /\ pr[p].arg \in Args /\ "done" \in PCs /\ 200 \in Statuses
    BY <1>1, <1>3, Marks DEF PutObject, HeldInv
  <2>4. \A q \in Removers: held'[q] \subseteq objects' /\ held'[q] \subseteq held[q]
    BY <2>2 DEF HeldInv
  <2>5. QED
    BY <1>1, <2>1, <2>2, <2>3, <2>4, HeldStep DEF TypeOK
<1>4. CASE DeleteObject(p)
  <2>1. PICK k \in Keys:
          /\ objects' = objects \ {k} /\ acked' = acked \ {k}
          /\ held' = [q \in Removers |-> held[q] \ {k}]
          /\ Become(p, "done", k, 204)
    BY <1>4 DEF DeleteObject
  <2>2. UNCHANGED <<store, litter>>
    BY <1>4 DEF DeleteObject
  <2>3. /\ held' \in [Removers -> SUBSET Keys]
        /\ \A q \in Removers: held'[q] \subseteq objects' /\ held'[q] \subseteq held[q]
    BY <2>1 DEF HeldInv, TypeOK
  <2>4. k \in Args /\ "done" \in PCs /\ 204 \in Statuses
    BY Marks
  <2>5. QED
    BY <1>1, <2>1, <2>2, <2>3, <2>4, HeldStep DEF TypeOK
<1>5. CASE PutFails(p)
  <2>1. Become(p, "done", pr[p].arg, 500) /\ UNCHANGED <<store, files>>
    BY <1>5 DEF PutFails
  <2>2. pr[p].arg \in Args /\ "done" \in PCs /\ 500 \in Statuses
    BY <1>1, Marks
  <2>3. QED
    BY <1>1, <2>1, <2>2, HeldStore DEF TypeOK
<1>6. CASE DeleteLitter(p)
  <2>1. /\ litter' = FALSE /\ UNCHANGED <<store, objects, acked, held>>
        /\ Become(p, "done", None, 204)
    BY <1>6 DEF DeleteLitter
  <2>2. None \in Args /\ "done" \in PCs /\ 204 \in Statuses
    BY Marks
  <2>3. /\ held' \in [Removers -> SUBSET Keys] /\ objects' \subseteq Keys /\ acked' \subseteq Keys
        /\ \A q \in Removers: held'[q] \subseteq objects' /\ held'[q] \subseteq held[q]
    BY <2>1 DEF HeldInv, TypeOK
  <2>4. /\ exists' \in BOOLEAN /\ litter' \in BOOLEAN
        /\ uploads' \subseteq born' /\ born' \subseteq Uploads
    BY <2>1 DEF HeldInv, TypeOK
  <2>5. p \notin Removers \/ "done" \notin {"remove", "removeAll"}
    OBVIOUS
  <2>6. QED
    BY <1>1, <2>1, <2>2, <2>3, <2>4, <2>5, HeldStep
<1>7. QED
  BY <1>2, <1>3, <1>4, <1>5, <1>6

(* Uploads are no files. *)
LEMMA HeldInitiate ==
  ASSUME HeldInv, UNCHANGED serial, NEW p \in Initiators,
         InitiateCheck(p) \/ InitiateCommit(p)
  PROVE  HeldInv'
<1>1. p \in Procs /\ TypeOK
  BY DEF Procs, HeldInv
<1>2. CASE InitiateCheck(p)
  <2>1. PICK pc \in {"initiate", "done"}, s \in {0, 404}: Become(p, pc, pr[p].arg, s)
    BY <1>2 DEF InitiateCheck
  <2>2. UNCHANGED <<store, files>>
    BY <1>2 DEF InitiateCheck
  <2>3. pr[p].arg \in Args /\ pc \in PCs /\ s \in Statuses
    BY <1>1, Marks
  <2>4. QED
    BY <1>1, <2>1, <2>2, <2>3, HeldStore DEF TypeOK
<1>3. CASE InitiateCommit(p)
  <2>1. PICK u \in Uploads \ born:
          /\ uploads' = uploads \cup {u} /\ born' = born \cup {u}
          /\ Become(p, "done", u, 200)
    BY <1>3 DEF InitiateCommit
  <2>2. UNCHANGED <<exists, files>>
    BY <1>3 DEF InitiateCommit
  <2>3. u \in Args /\ "done" \in PCs /\ 200 \in Statuses
    BY Marks
  <2>4. QED
    BY <1>1, <2>1, <2>2, <2>3, HeldStore DEF TypeOK
<1>4. QED
  BY <1>2, <1>3

(* Completion only adds an object; abort touches none. *)
LEMMA HeldEnd ==
  ASSUME HeldInv, UNCHANGED serial, NEW p \in Enders,
         \/ CompleteBegin(p) \/ CompleteWrite(p) \/ CompleteFails(p)
         \/ CompleteCommit(p) \/ Abort(p)
  PROVE  HeldInv'
<1>1. p \in Procs /\ TypeOK
  BY DEF Procs, HeldInv
<1>2. CASE CompleteBegin(p)
  <2>1. PICK u \in born, pc \in {"write", "done"}, s \in {0, 404}: Become(p, pc, u, s)
    BY <1>2 DEF CompleteBegin
  <2>2. UNCHANGED <<store, files>>
    BY <1>2 DEF CompleteBegin
  <2>3. u \in Args /\ pc \in PCs /\ s \in Statuses
    BY <1>1, Marks DEF TypeOK
  <2>4. QED
    BY <1>1, <2>1, <2>2, <2>3, HeldStore DEF TypeOK
<1>3. CASE CompleteWrite(p)
  <2>1. PICK k \in Keys: objects' = objects \cup {k} /\ acked' = acked \cup {k}
    BY <1>3 DEF CompleteWrite
  <2>2. Become(p, "complete", pr[p].arg, 0) /\ UNCHANGED <<store, litter, held>>
    BY <1>3 DEF CompleteWrite
  <2>3. pr[p].arg \in Args /\ "complete" \in PCs /\ 0 \in Statuses
    BY <1>1, Marks
  <2>4. \A q \in Removers: held'[q] \subseteq objects' /\ held'[q] \subseteq held[q]
    BY <2>1, <2>2 DEF HeldInv
  <2>5. QED
    BY <1>1, <2>1, <2>2, <2>3, <2>4, HeldStep DEF TypeOK
<1>4. CASE CompleteCommit(p)
  <2>1. PICK s \in {200, 500}: Become(p, "done", pr[p].arg, s)
    BY <1>4 DEF CompleteCommit
  <2>2. uploads' = uploads \ {pr[p].arg} /\ UNCHANGED <<exists, born, files>>
    BY <1>4 DEF CompleteCommit
  <2>3. pr[p].arg \in Args /\ "done" \in PCs /\ s \in Statuses
    BY <1>1, Marks
  <2>4. QED
    BY <1>1, <2>1, <2>2, <2>3, HeldStore DEF TypeOK
<1>5. CASE Abort(p)
  <2>1. PICK u \in born, s \in {204, 404}:
          uploads' = uploads \ {u} /\ Become(p, "done", u, s)
    BY <1>5 DEF Abort
  <2>2. UNCHANGED <<exists, born, files>>
    BY <1>5 DEF Abort
  <2>3. u \in Args /\ "done" \in PCs /\ s \in Statuses
    BY <1>1, Marks DEF TypeOK
  <2>4. QED
    BY <1>1, <2>1, <2>2, <2>3, HeldStore DEF TypeOK
<1>6. CASE CompleteFails(p)
  <2>1. Become(p, "done", pr[p].arg, 500) /\ UNCHANGED <<store, files>>
    BY <1>6 DEF CompleteFails
  <2>2. pr[p].arg \in Args /\ "done" \in PCs /\ 500 \in Statuses
    BY <1>1, Marks
  <2>3. QED
    BY <1>1, <2>1, <2>2, HeldStore DEF TypeOK
<1>7. QED
  BY <1>2, <1>3, <1>4, <1>5, <1>6

(* A handler that answered forgets what it did. *)
LEMMA HeldReturn ==
  ASSUME HeldInv, UNCHANGED serial, NEW p \in Procs, Return(p)
  PROVE  HeldInv'
<1>1. Become(p, "idle", None, 0) /\ UNCHANGED <<store, files>>
  BY DEF Return, Idle, Become
<1>2. None \in Args /\ "idle" \in PCs /\ 0 \in Statuses /\ TypeOK
  BY Marks DEF HeldInv
<1>3. QED
  BY <1>1, <1>2, HeldStore DEF TypeOK

(* No handler survives a crash: none is past an emptiness check. *)
LEMMA HeldCrash == HeldInv /\ UNCHANGED serial /\ Crash => HeldInv'
<1> SUFFICES ASSUME HeldInv, UNCHANGED serial, Crash PROVE HeldInv'
  OBVIOUS
<1>1. Idle \in Process /\ Idle.pc = "idle"
  BY DEF Idle, Process, PCs, Args, Statuses
<1>2. pr' \in [Procs -> Process] /\ \A p \in Procs: pr'[p].pc = "idle"
  BY <1>1 DEF Crash
<1>3. litter' \in BOOLEAN
  BY DEF Crash, Writing, HeldInv, TypeOK
<1>4. TypeOK' /\ \A p \in Removers: held'[p] \subseteq objects'
  BY <1>2, <1>3 DEF Crash, HeldInv, TypeOK
<1>5. QED
  BY <1>2, <1>4 DEF HeldInv, Procs

(* Every step preserves the invariant. *)
LEMMA HeldNext == HeldInv /\ [Next]_vars => HeldInv'
<1> SUFFICES ASSUME HeldInv, [Next]_vars PROVE HeldInv'
  OBVIOUS
<1>1. CASE UNCHANGED vars
  BY <1>1 DEF vars, HeldInv, TypeOK
<1>2. CASE Crash /\ UNCHANGED serial
  BY <1>2, HeldCrash
<1>3. ASSUME NEW p \in Procs, Step(p), UNCHANGED serial PROVE HeldInv'
  BY <1>3, HeldCreate, HeldRemove, HeldWrite, HeldInitiate, HeldEnd, HeldReturn DEF Step
<1>4. QED
  BY <1>1, <1>2, <1>3 DEF Next

(* What a remover remembers is there, in every state of the system. *)
THEOREM BucketsHeld == Spec => []HeldInv
BY HeldInit, HeldNext, PTL DEF Spec

(* The store, the files and the handlers keep their types, with any number   *)
(* of handlers, keys and uploads, crashes included.                         *)
THEOREM BucketsTypeCorrect == Spec => []TypeOK
<1>1. HeldInv => TypeOK
  BY DEF HeldInv
<1>2. QED
  BY <1>1, BucketsHeld, PTL

(* Between the last emptiness check of RemoveBucket and its RemoveAll no key  *)
(* outside ".multipart/" whose PUT was answered before the request to delete *)
(* began can be there, so RemoveAll takes none.                              *)
THEOREM EarlierPuts == Spec => EarlierPutsSurvive
<1>1. HeldInv => \A p \in Removers: pr[p].pc = "removeAll" => held[p] \subseteq Internal
  BY DEF HeldInv
<1>2. HeldInv /\ [Next]_vars =>
        [\A p \in Removers: pr[p].pc = "removeAll" /\ pr'[p].pc \in {"unlist", "done"}
           => held[p] \cap objects \subseteq Internal]_vars
  BY <1>1
<1>3. QED
  BY <1>2, BucketsHeld, PTL DEF Spec, EarlierPutsSurvive

---------------------------------------------------------------------------
(* One client, who waits for each answer *)

(* What the store and the files say of one another at any moment. *)
Consistent ==
  /\ ~litter
  /\ ~exists => objects = {} /\ uploads = {}
  /\ acked \ Internal \subseteq objects /\ objects \subseteq acked

(* What a handler on its way found out still holds, since nobody else runs. *)
Knows(p) ==
  /\ pr[p].pc \in {"count", "empty", "remove", "removeAll", "unlist", "put", "initiate"}
       => exists
  /\ pr[p].pc \in {"empty", "remove", "removeAll", "unlist"} => uploads = {}
  /\ pr[p].pc = "removeAll" => objects \subseteq Internal
  /\ pr[p].pc = "unlist" => objects = {}
  /\ pr[p].pc \in {"write", "complete"} => pr[p].arg \in uploads

Others(p) == \A q \in Procs \ {p}: pr[q].pc = "idle"

SerialInv ==
  serial => /\ Consistent
            /\ \A p \in Procs: Knows(p) /\ (pr[p].pc # "idle" => Others(p))

LEMMA SerialInit == Init => SerialInv
BY DEF Init, SerialInv, Consistent, Knows, Idle

(* A handler that takes a step is the only one that runs. *)
LEMMA RunsAlone ==
  ASSUME SerialInv, serial, NEW p \in Procs, Step(p)
  PROVE  Others(p)
<1>1. CASE MayBegin(p)
  BY <1>1 DEF MayBegin, Others
<1>2. CASE ~MayBegin(p)
  <2>1. pr[p].pc # "idle"
    BY <1>2 DEF Step, CreateCheck, CreateCommit, RemoveCheck, RemoveCount, RemoveEmpty,
                RemoveAgain, RemoveTree, RemoveTreeFails, RemoveUnlist, PutCheck, PutObject, PutFails,
                DeleteObject, DeleteLitter, InitiateCheck, InitiateCommit, CompleteBegin,
                CompleteWrite, CompleteFails, CompleteCommit, Abort, Return
  <2>2. QED
    BY <2>1 DEF SerialInv
<1>3. QED
  BY <1>1, <1>2

(* It is enough to look at the handler that takes the step. *)
LEMMA SerialStep ==
  ASSUME TypeOK, serial, UNCHANGED serial, NEW p \in Procs, Others(p),
         NEW pc \in PCs, NEW arg \in Args, NEW status,
         Become(p, pc, arg, status), Consistent',
         /\ pc \in {"count", "empty", "remove", "removeAll", "unlist", "put", "initiate"}
              => exists'
         /\ pc \in {"empty", "remove", "removeAll", "unlist"} => uploads' = {}
         /\ pc = "removeAll" => objects' \subseteq Internal
         /\ pc = "unlist" => objects' = {}
         /\ pc \in {"write", "complete"} => arg \in uploads'
  PROVE  SerialInv'
<1>1. /\ pr'[p].pc = pc /\ pr'[p].arg = arg
      /\ \A q \in Procs \ {p}: pr'[q].pc = "idle"
  BY DEF TypeOK, Become, Others
<1>2. Knows(p)' /\ Others(p)'
  BY <1>1 DEF Knows, Others
<1>3. ASSUME NEW q \in Procs, q # p PROVE Knows(q)' /\ pr'[q].pc = "idle"
  BY <1>1, <1>3 DEF Knows
<1>4. QED
  BY <1>2, <1>3 DEF SerialInv

(* A step that leaves files and store alone, to a place where as much is known *)
LEMMA SerialStore ==
  ASSUME TypeOK, serial, SerialInv, UNCHANGED <<serial, store, files>>,
         NEW p \in Procs, Others(p),
         NEW pc \in PCs, NEW arg \in Args, NEW status,
         Become(p, pc, arg, status),
         /\ pc \in {"count", "empty", "remove", "removeAll", "unlist", "put", "initiate"}
              => exists
         /\ pc \in {"empty", "remove", "removeAll", "unlist"} => uploads = {}
         /\ pc = "removeAll" => objects \subseteq Internal
         /\ pc = "unlist" => objects = {}
         /\ pc \in {"write", "complete"} => arg \in uploads
  PROVE  SerialInv'
<1>1. Consistent'
  BY DEF SerialInv, Consistent
<1>2. /\ pc \in {"count", "empty", "remove", "removeAll", "unlist", "put", "initiate"}
           => exists'
      /\ pc \in {"empty", "remove", "removeAll", "unlist"} => uploads' = {}
      /\ pc = "removeAll" => objects' \subseteq Internal
      /\ pc = "unlist" => objects' = {}
      /\ pc \in {"write", "complete"} => arg \in uploads'
  OBVIOUS
<1>3. QED
  BY <1>1, <1>2, SerialStep

LEMMA SerialCreate ==
  ASSUME TypeOK, serial, SerialInv, UNCHANGED serial, NEW p \in Creators, p \in Procs, Others(p),
         CreateCheck(p) \/ CreateCommit(p)
  PROVE  SerialInv'
<1>1. pr[p].arg \in Args
  BY Marks
<1>2. CASE CreateCheck(p)
  <2>1. PICK pc \in {"create", "done"}, s \in {0, 409}: Become(p, pc, pr[p].arg, s)
    BY <1>2 DEF CreateCheck
  <2>2. UNCHANGED <<store, files>> /\ pc \in PCs
    BY <1>2, Marks DEF CreateCheck
  <2>3. QED
    BY <1>1, <2>1, <2>2, SerialStore
<1>3. CASE CreateCommit(p)
  <2>1. PICK s: Become(p, "done", pr[p].arg, s)
    BY <1>3 DEF CreateCommit
  <2>2. Consistent'
    BY <1>3 DEF CreateCommit, SerialInv, Consistent
  <2>3. QED
    BY <1>1, <2>1, <2>2, SerialStep, Marks
<1>4. QED
  BY <1>2, <1>3

LEMMA SerialRemove ==
  ASSUME TypeOK, serial, SerialInv, UNCHANGED serial, NEW p \in Removers, p \in Procs, Others(p),
         \/ RemoveCheck(p) \/ RemoveCount(p) \/ RemoveEmpty(p) \/ RemoveAgain(p)
         \/ RemoveTree(p) \/ RemoveTreeFails(p) \/ RemoveUnlist(p)
  PROVE  SerialInv'
<1>1. pr[p].arg \in Args /\ Knows(p) /\ Consistent
  BY Marks DEF SerialInv
<1>2. CASE RemoveCheck(p)
  <2>1. PICK pc \in {"count", "done"}, s \in {0, 404}:
          Become(p, pc, pr[p].arg, s) /\ (pc = "count" => exists)
    BY <1>2 DEF RemoveCheck
  <2>2. UNCHANGED <<store, objects, litter, acked>> /\ pc \in PCs
    BY <1>2, Marks DEF RemoveCheck
  <2>3. Consistent' /\ (pc = "count" => exists')
    BY <1>1, <2>1, <2>2 DEF Consistent
  <2>4. QED
    BY <1>1, <2>1, <2>2, <2>3, SerialStep
<1>3. CASE RemoveCount(p)
  <2>1. PICK pc \in {"empty", "done"}, s \in {0, 409}:
          Become(p, pc, pr[p].arg, s) /\ (pc = "empty" => uploads = {})
    BY <1>3 DEF RemoveCount
  <2>2. UNCHANGED <<store, files>> /\ pc \in PCs /\ exists
    BY <1>1, <1>3, Marks DEF RemoveCount, Knows
  <2>3. QED
    BY <1>1, <2>1, <2>2, SerialStore
<1>4. CASE RemoveEmpty(p) \/ RemoveAgain(p)
  <2>1. PICK pc \in {"remove", "removeAll", "done"}, s \in {0, 409, 500}:
          /\ Become(p, pc, pr[p].arg, s)
          /\ pc \in {"remove", "removeAll"} => IsBucketEmpty
    BY <1>4 DEF RemoveEmpty, RemoveAgain, CheckEmpty
  <2>2. UNCHANGED <<store, files>> /\ pc \in PCs /\ exists /\ uploads = {}
    BY <1>1, <1>4, Marks DEF RemoveEmpty, RemoveAgain, Knows
  <2>3. pc = "removeAll" => objects \subseteq Internal
    BY <2>1 DEF IsBucketEmpty
  <2>4. QED
    BY <1>1, <2>1, <2>2, <2>3, SerialStore
<1>5. CASE RemoveTree(p)
  <2>1. Become(p, "unlist", pr[p].arg, 0) /\ "unlist" \in PCs
    BY <1>5, Marks DEF RemoveTree
  <2>2. exists /\ uploads = {} /\ objects \subseteq Internal
    BY <1>1, <1>5 DEF RemoveTree, Knows
  <2>3. objects' = {} /\ ~litter' /\ UNCHANGED <<store, acked>>
    BY <1>5 DEF RemoveTree
  <2>4. Consistent'
    BY <1>1, <2>2, <2>3 DEF Consistent
  <2>5. QED
    BY <1>1, <2>1, <2>2, <2>3, <2>4, SerialStep
<1>6. CASE RemoveUnlist(p)
  <2>1. Become(p, "done", pr[p].arg, 204) /\ "done" \in PCs
    BY <1>6, Marks DEF RemoveUnlist
  <2>2. Consistent'
    BY <1>1, <1>6 DEF RemoveUnlist, Knows, Consistent
  <2>3. QED
    BY <1>1, <2>1, <2>2, SerialStep
<1>7. CASE RemoveTreeFails(p)
  <2>1. Become(p, "done", pr[p].arg, 500) /\ "done" \in PCs
    BY <1>7, Marks DEF RemoveTreeFails
  <2>2. exists /\ objects \subseteq Internal
    BY <1>1, <1>7 DEF RemoveTreeFails, Knows
  <2>3. objects' \subseteq objects /\ UNCHANGED <<store, acked>>
    BY <1>7 DEF RemoveTreeFails
  <2>4. litter = FALSE /\ litter' = FALSE
    BY <1>1, <1>7 DEF RemoveTreeFails, Consistent, TypeOK
  <2>5. Consistent'
    BY <1>1, <2>2, <2>3, <2>4 DEF Consistent
  <2>6. QED
    BY <1>1, <2>1, <2>5, SerialStep
<1>8. QED
  BY <1>2, <1>3, <1>4, <1>5, <1>6, <1>7

LEMMA SerialWrite ==
  ASSUME TypeOK, HeldInv, serial, SerialInv, UNCHANGED serial, NEW p \in Writers, p \in Procs,
         Others(p),
         \/ PutCheck(p) \/ PutObject(p) \/ PutFails(p)
         \/ DeleteObject(p) \/ DeleteLitter(p)
  PROVE  SerialInv'
<1>1. pr[p].arg \in Args /\ Knows(p) /\ Consistent
  BY Marks DEF SerialInv
<1>2. CASE PutCheck(p)
  <2>1. PICK pc \in {"put", "done"}, k \in Keys, s \in {0, 404}:
          Become(p, pc, k, s) /\ (pc = "put" => exists)
    BY <1>2 DEF PutCheck
  <2>2. UNCHANGED <<store, files>> /\ pc \in PCs /\ k \in Args
    BY <1>2, Marks DEF PutCheck
  <2>3. QED
    BY <2>1, <2>2, SerialStore
<1>3. CASE PutObject(p)
  <2>1. Become(p, "done", pr[p].arg, 200) /\ "done" \in PCs
    BY <1>3, Marks DEF PutObject
  <2>2. exists
    BY <1>1, <1>3 DEF PutObject, Knows
  <2>3. Consistent'
    BY <1>1, <1>3, <2>2 DEF PutObject, Consistent
  <2>4. QED
    BY <1>1, <2>1, <2>3, SerialStep
<1>4. CASE DeleteObject(p)
  <2>1. PICK k \in Keys:
          /\ objects' = objects \ {k} /\ acked' = acked \ {k}
          /\ Become(p, "done", k, 204)
    BY <1>4 DEF DeleteObject
  <2>2. UNCHANGED <<store, litter>>
    BY <1>4 DEF DeleteObject
  <2>3. Consistent'
    BY <1>1, <2>1, <2>2 DEF Consistent
  <2>4. k \in Args /\ "done" \in PCs
    BY Marks
  <2>5. QED
    BY <2>1, <2>3, <2>4, SerialStep
<1>5. CASE PutFails(p)
  <2>1. Become(p, "done", pr[p].arg, 500) /\ UNCHANGED <<store, files>> /\ "done" \in PCs
    BY <1>5, Marks DEF PutFails
  <2>2. QED
    BY <1>1, <2>1, SerialStore
<1>6. CASE DeleteLitter(p)
  BY <1>1, <1>6 DEF DeleteLitter, Consistent
<1>7. QED
  BY <1>2, <1>3, <1>4, <1>5, <1>6

LEMMA SerialInitiate ==
  ASSUME TypeOK, serial, SerialInv, UNCHANGED serial, NEW p \in Initiators, p \in Procs, Others(p),
         InitiateCheck(p) \/ InitiateCommit(p)
  PROVE  SerialInv'
<1>1. pr[p].arg \in Args /\ Knows(p) /\ Consistent
  BY Marks DEF SerialInv
<1>2. CASE InitiateCheck(p)
  <2>1. PICK pc \in {"initiate", "done"}, s \in {0, 404}:
          Become(p, pc, pr[p].arg, s) /\ (pc = "initiate" => exists)
    BY <1>2 DEF InitiateCheck
  <2>2. UNCHANGED <<store, files>> /\ pc \in PCs
    BY <1>2, Marks DEF InitiateCheck
  <2>3. QED
    BY <1>1, <2>1, <2>2, SerialStore
<1>3. CASE InitiateCommit(p)
  <2>1. PICK u \in Uploads: Become(p, "done", u, 200)
    BY <1>3 DEF InitiateCommit
  <2>2. exists /\ UNCHANGED <<exists, files>>
    BY <1>1, <1>3 DEF InitiateCommit, Knows
  <2>3. Consistent'
    BY <1>1, <2>2 DEF Consistent
  <2>4. u \in Args /\ "done" \in PCs
    BY Marks
  <2>5. QED
    BY <2>1, <2>3, <2>4, SerialStep
<1>4. QED
  BY <1>2, <1>3

LEMMA SerialEnd ==
  ASSUME TypeOK, serial, SerialInv, UNCHANGED serial, NEW p \in Enders, p \in Procs, Others(p),
         \/ CompleteBegin(p) \/ CompleteWrite(p) \/ CompleteFails(p)
         \/ CompleteCommit(p) \/ Abort(p)
  PROVE  SerialInv'
<1>1. pr[p].arg \in Args /\ Knows(p) /\ Consistent
  BY Marks DEF SerialInv
<1>2. CASE CompleteBegin(p)
  <2>1. PICK u \in born, pc \in {"write", "done"}, s \in {0, 404}:
          Become(p, pc, u, s) /\ (pc = "write" => u \in uploads)
    BY <1>2 DEF CompleteBegin
  <2>2. UNCHANGED <<store, files>> /\ pc \in PCs /\ u \in Args
    BY <1>2, Marks DEF CompleteBegin, TypeOK
  <2>3. QED
    BY <2>1, <2>2, SerialStore
<1>3. CASE CompleteWrite(p)
  <2>1. PICK k \in Keys: objects' = objects \cup {k} /\ acked' = acked \cup {k}
    BY <1>3 DEF CompleteWrite
  <2>2. Become(p, "complete", pr[p].arg, 0) /\ "complete" \in PCs /\ UNCHANGED <<store, litter>>
    BY <1>3, Marks DEF CompleteWrite
  <2>3. pr[p].arg \in uploads
    BY <1>1, <1>3 DEF CompleteWrite, Knows
  <2>4. Consistent'
    BY <1>1, <2>1, <2>2, <2>3 DEF Consistent
  <2>5. QED
    BY <1>1, <2>2, <2>3, <2>4, SerialStep
<1>4. CASE CompleteCommit(p)
  <2>1. PICK s: Become(p, "done", pr[p].arg, s)
    BY <1>4 DEF CompleteCommit
  <2>2. Consistent' /\ "done" \in PCs
    BY <1>1, <1>4, Marks DEF CompleteCommit, Consistent
  <2>3. QED
    BY <1>1, <2>1, <2>2, SerialStep
<1>5. CASE Abort(p)
  <2>1. PICK u \in born, s \in {204, 404}:
          uploads' = uploads \ {u} /\ Become(p, "done", u, s)
    BY <1>5 DEF Abort
  <2>2. Consistent'
    BY <1>1, <1>5, <2>1 DEF Abort, Consistent
  <2>3. u \in Args /\ "done" \in PCs
    BY Marks DEF TypeOK
  <2>4. QED
    BY <2>1, <2>2, <2>3, SerialStep
<1>6. CASE CompleteFails(p)
  <2>1. Become(p, "done", pr[p].arg, 500) /\ UNCHANGED <<store, files>> /\ "done" \in PCs
    BY <1>6, Marks DEF CompleteFails
  <2>2. QED
    BY <1>1, <2>1, SerialStore
<1>7. QED
  BY <1>2, <1>3, <1>4, <1>5, <1>6

LEMMA SerialNext == HeldInv /\ SerialInv /\ [Next]_vars => SerialInv'
<1> SUFFICES ASSUME HeldInv, SerialInv, [Next]_vars PROVE SerialInv'
  OBVIOUS
<1>1. CASE UNCHANGED vars
  BY <1>1 DEF vars, SerialInv, Consistent, Knows, Others
<1>2. CASE ~serial \/ Crash
  BY <1>2 DEF Next, Crash, SerialInv, vars
<1>3. ASSUME NEW p \in Procs, Step(p), UNCHANGED serial, serial PROVE SerialInv'
  <2>1. Others(p) /\ TypeOK
    BY <1>3, RunsAlone DEF HeldInv
  <2>2. CASE Return(p)
    <3>1. Become(p, "idle", None, 0) /\ UNCHANGED <<store, files>>
      BY <2>2 DEF Return, Idle, Become
    <3>2. None \in Args /\ "idle" \in PCs
      BY Marks
    <3>3. QED
      BY <1>3, <2>1, <3>1, <3>2, SerialStore
  <2>3. CASE p \in Creators /\ (CreateCheck(p) \/ CreateCommit(p))
    BY <1>3, <2>1, <2>3, SerialCreate
  <2>4. CASE p \in Initiators /\ (InitiateCheck(p) \/ InitiateCommit(p))
    BY <1>3, <2>1, <2>4, SerialInitiate
  <2>5. QED
    BY <1>3, <2>1, <2>2, <2>3, <2>4, SerialRemove, SerialWrite, SerialEnd DEF Step
<1>4. QED
  BY <1>1, <1>2, <1>3 DEF Next

(* The handlers of buckets, objects and uploads together, in any sequence of   *)
(* requests of one client who waits for each answer, restarts not among them: a *)
(* bucket that is not there has neither objects nor uploads, and an object is  *)
(* there exactly when it was put, those under ".multipart/" excepted, which go *)
(* with their bucket.                                                        *)
THEOREM GoneIsEmpty == Spec => []GoneMeansEmpty
<1>1. SerialInv => GoneMeansEmpty
  BY DEF SerialInv, GoneMeansEmpty, Consistent
<1>2. HeldInv /\ SerialInv /\ [Next]_vars => SerialInv'
  BY SerialNext
<1>3. QED
  BY <1>1, <1>2, SerialInit, BucketsHeld, PTL DEF Spec

============================================================================
