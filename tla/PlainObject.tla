---------------------------- MODULE PlainObject ----------------------------
(***************************************************************************)
(* Keys stored as plain files: the path of a key is the path of its file,   *)
(* so a key that ends in a directory's name, or a directory that goes away  *)
(* when its last file does, ties the requests of different keys together.   *)
(* The data directory may also hold sealed objects, written while sealed    *)
(* mode was on: a directory with a manifest.  Their PUT and DELETE are one  *)
(* step here (SealedObject opens them), those of plain files are not.       *)
(***************************************************************************)
EXTENDS Integers, FiniteSets

CONSTANTS Writers,   \* handlers of PUT /bucket/key
          Readers,   \* handlers of GET and HEAD /bucket/key
          Deleters,  \* handlers of DELETE /bucket/key
          Keys,      \* object keys
          Paths,     \* the paths under objects/<bucket>, Keys among them
          Parent,    \* the directory each path is in
          Root,      \* objects/<bucket> itself
          Versions,  \* what a PUT may write
          Modes,     \* the settings of sealed.enabled a restart may choose
          None,      \* no file there
          Dir        \* a directory is there

ASSUME PathAssumption ==
  /\ Keys \subseteq Paths /\ Root \notin Paths
  /\ Parent \in [Paths -> Paths \cup {Root}]
ASSUME ModeAssumption == "plain" \in Modes /\ Modes \subseteq {"plain", "sealed"}
ASSUME ReaderAssumption == Readers \cap (Writers \cup Deleters) = {}
ASSUME MarkAssumption == None # Dir /\ {None, Dir} \cap Versions = {}

VARIABLES serial,  \* is there one client only, who waits for each answer
          mode,    \* LocalFS.sealedEnabled
          tree,    \* what is at each path: None, Dir or a file's version
          sealed,  \* the version whose manifest and shard are in a directory
          acked,   \* history: the version each key's last answers left there
          pr       \* what each handler is doing

vars == <<serial, mode, tree, sealed, acked, pr>>
disk == <<tree, sealed>>
setting == <<serial, mode>>

Procs == Writers \cup Readers \cup Deleters
Nodes == Versions \cup {None, Dir}

Process ==
  [pc: {"idle", "temp", "body", "rename", "stat", "open", "md5", "remove",
        "readDir", "rmdir", "done"},
   key: Keys \cup {None}, at: Paths \cup {Root, None},
   size: Nodes, body: Nodes, etag: Nodes,
   status: {0, 200, 204, 404, 500}]

Idle == [pc |-> "idle", key |-> None, at |-> None, size |-> None,
         body |-> None, etag |-> None, status |-> 0]

(* A path is used only inside a directory. *)
Hung == \A p \in Paths:
          tree[p] # None /\ Parent[p] # Root => tree[Parent[p]] = Dir

TypeOK ==
  /\ serial \in BOOLEAN
  /\ mode \in {"plain", "sealed"}
  /\ tree \in [Paths -> Nodes] /\ Hung
  /\ sealed \in [Keys -> Versions \cup {None}]
  /\ \A k \in Keys: sealed[k] # None => tree[k] = Dir
  /\ acked \in [Keys -> Versions \cup {None}]
  /\ pr \in [Procs -> Process]

(* Many clients meet a server in plain mode only: what they do to sealed    *)
(* objects is the subject of SealedObject.                                  *)
Init ==
  /\ serial \in BOOLEAN
  /\ mode \in (IF serial THEN Modes ELSE {"plain"})
  /\ tree = [p \in Paths |-> None]
  /\ sealed = [k \in Keys |-> None]
  /\ acked = [k \in Keys |-> None]
  /\ pr = [p \in Procs |-> Idle]

At(p, pc) == pr[p].pc = pc
Goto(p, pc) == pr' = [pr EXCEPT ![p].pc = pc]
Answer(p, status) == pr' = [pr EXCEPT ![p].pc = "done", ![p].status = status]
MayBegin(p) == At(p, "idle") /\ (serial => \A q \in Procs: At(q, "idle"))
Begin(p, pc, k, v, status) ==
  pr' = [pr EXCEPT ![p] = [Idle EXCEPT !.pc = pc, !.key = k, !.body = v,
                                       !.status = status]]

(* The directories above a path: the least set of them that holds the path's  *)
(* own and, with each, the one that one is in.                               *)
Above(D, k) == \A p \in D \cup {k}: Parent[p] # Root => Parent[p] \in D
Ancestors(k) == {d \in Paths: \A D \in SUBSET Paths: Above(D, k) => d \in D}

(* os.MkdirAll makes what is missing above a path, unless a file is there. *)
Blocked(dirs) == \E d \in dirs: tree[d] \notin {None, Dir}
WithDirs(dirs) == [p \in Paths |-> IF p \in dirs THEN Dir ELSE tree[p]]

HasTemp(d) == \E w \in Writers: pr[w].pc \in {"body", "rename"} /\ Parent[pr[w].key] = d
Empty(d) ==
  /\ \A p \in Paths: Parent[p] = d => tree[p] = None
  /\ d \in Keys => sealed[d] = None
  /\ ~HasTemp(d)

---------------------------------------------------------------------------
(* Put in sealed mode.  The object's directory has the key's path. *)
PutSealed(p) ==
  /\ MayBegin(p) /\ mode = "sealed"
  /\ \E k \in Keys, v \in Versions:
       LET dirs == Ancestors(k) \cup {k} IN
       IF Blocked(dirs)
         THEN Begin(p, "done", k, v, 500) /\ UNCHANGED <<disk, acked>>
         ELSE /\ tree' = WithDirs(dirs)
              /\ sealed' = [sealed EXCEPT ![k] = v]
              /\ acked' = [acked EXCEPT ![k] = v]
              /\ Begin(p, "done", k, v, 200)
  /\ UNCHANGED setting

(* Put in plain mode: MkdirAll, CreateTemp, copy and Sync, Rename *)
PutMkdir(p) ==
  /\ MayBegin(p) /\ mode = "plain"
  /\ \E k \in Keys, v \in Versions:
       IF Blocked(Ancestors(k))
         THEN Begin(p, "done", k, v, 500) /\ UNCHANGED tree
         ELSE Begin(p, "temp", k, v, 0) /\ tree' = WithDirs(Ancestors(k))
  /\ UNCHANGED <<setting, sealed, acked>>

ParentThere(k) == Parent[k] = Root \/ tree[Parent[k]] = Dir

(* Variant: takes the directory it made for granted *)
PutTempBlind(p) ==
  /\ At(p, "temp")
  /\ Goto(p, "body")
  /\ UNCHANGED <<setting, disk, acked>>

PutTemp(p) ==
  /\ At(p, "temp")
  /\ IF ParentThere(pr[p].key) THEN Goto(p, "body") ELSE Answer(p, 500)
  /\ UNCHANGED <<setting, disk, acked>>

(* The copy fails with the client, with errTooLarge or with the disk. *)
PutBody(p) ==
  /\ At(p, "body")
  /\ Goto(p, "rename") \/ Answer(p, 500)
  /\ UNCHANGED <<setting, disk, acked>>

(* A file does not replace a directory; the temp file is removed. *)
PutRename(p) ==
  /\ At(p, "rename")
  /\ LET k == pr[p].key IN
       IF tree[k] = Dir
         THEN Answer(p, 500) /\ UNCHANGED <<tree, acked>>
         ELSE /\ tree' = [tree EXCEPT ![k] = pr[p].body]
              /\ acked' = [acked EXCEPT ![k] = pr[p].body]
              /\ Answer(p, 200)
  /\ UNCHANGED <<setting, sealed>>

---------------------------------------------------------------------------
(* Get and Head look for a manifest, and then at the plain file: three times *)
(* by its name, or twice for Head.                                           *)
ReadManifest(p) ==
  /\ MayBegin(p)
  /\ \E k \in Keys:
       pr' = [pr EXCEPT ![p] =
                IF sealed[k] = None
                  THEN [Idle EXCEPT !.pc = "stat", !.key = k]
                  ELSE [pc |-> "done", key |-> k, at |-> None, size |-> sealed[k],
                        body |-> sealed[k], etag |-> sealed[k], status |-> 200]]
  /\ UNCHANGED <<setting, disk, acked>>

(* os.Stat: the Content-Length *)
ReadStat(p) ==
  /\ At(p, "stat")
  /\ LET here == tree[pr[p].key] IN
       \/ here = None /\ Answer(p, 404)
       \/ /\ here # None
          /\ \E next \in {"open", "md5"}:
               pr' = [pr EXCEPT ![p].pc = next, ![p].size = here, ![p].body = here]
  /\ UNCHANGED <<setting, disk, acked>>

(* os.Open: the body *)
GetOpen(p) ==
  /\ At(p, "open")
  /\ LET here == tree[pr[p].key] IN
       \/ here = None /\ Answer(p, 404)
       \/ here # None /\ pr' = [pr EXCEPT ![p].pc = "md5", ![p].body = here]
  /\ UNCHANGED <<setting, disk, acked>>

(* Variant: the sum is not looked at, so a directory is served *)
ReadMD5Unread(p) ==
  /\ At(p, "md5")
  /\ pr' = [pr EXCEPT ![p].pc = "done", ![p].etag = tree[pr[p].key],
                      ![p].status = 200]
  /\ UNCHANGED <<setting, disk, acked>>

(* md5File opens the path again; a directory cannot be read. *)
ReadMD5(p) ==
  /\ At(p, "md5")
  /\ LET here == tree[pr[p].key] IN
       IF here \in {None, Dir} THEN Answer(p, 404)
       ELSE pr' = [pr EXCEPT ![p].pc = "done", ![p].etag = here, ![p].status = 200]
  /\ UNCHANGED <<setting, disk, acked>>

---------------------------------------------------------------------------
(* Delete of a sealed object goes by its manifest, then tidies up from the *)
(* object's own directory.                                                 *)
DeleteManifest(p) ==
  /\ MayBegin(p)
  /\ \E k \in Keys:
       IF sealed[k] = None
         THEN Begin(p, "remove", k, None, 0) /\ UNCHANGED <<sealed, acked>>
         ELSE /\ sealed' = [sealed EXCEPT ![k] = None]
              /\ acked' = [acked EXCEPT ![k] = None]
              /\ pr' = [pr EXCEPT ![p] = [Idle EXCEPT !.pc = "readDir", !.key = k,
                                                      !.at = k]]
  /\ UNCHANGED <<setting, tree>>

(* os.Remove takes a file, or a directory that is empty. *)
Removable(x) == tree[x] # None /\ (tree[x] = Dir => Empty(x))

DeleteFile(p) ==
  /\ At(p, "remove")
  /\ LET k == pr[p].key IN
       IF Removable(k)
         THEN /\ tree' = [tree EXCEPT ![k] = None]
              /\ acked' = [acked EXCEPT ![k] = None]
              /\ pr' = [pr EXCEPT ![p].pc = "readDir", ![p].at = Parent[k]]
         ELSE Answer(p, 404) /\ UNCHANGED <<tree, acked>>
  /\ UNCHANGED <<setting, sealed>>

(* removeEmptyParents climbs while what it reads is an empty directory... *)
ParentsRead(p) ==
  /\ At(p, "readDir")
  /\ LET d == pr[p].at IN
       IF d # Root /\ tree[d] = Dir /\ Empty(d) THEN Goto(p, "rmdir")
                                                ELSE Answer(p, 204)
  /\ UNCHANGED <<setting, disk, acked>>

(* Variant: what is in the directory by now goes with it *)
ParentsRemoveAll(p) ==
  /\ At(p, "rmdir")
  /\ LET d == pr[p].at IN
       /\ tree' = [x \in Paths |-> IF x = d \/ Parent[x] = d THEN None ELSE tree[x]]
       /\ pr' = [pr EXCEPT ![p].pc = "readDir", ![p].at = Parent[d]]
  /\ UNCHANGED <<setting, sealed, acked>>

(* ... and removes by name whatever is there by then. *)
ParentsRemove(p) ==
  /\ At(p, "rmdir")
  /\ LET d == pr[p].at IN
       IF Removable(d)
         THEN /\ tree' = [tree EXCEPT ![d] = None]
              /\ pr' = [pr EXCEPT ![p].pc = "readDir", ![p].at = Parent[d]]
         ELSE Answer(p, 204) /\ UNCHANGED tree
  /\ UNCHANGED <<setting, sealed, acked>>

---------------------------------------------------------------------------
Return(p) ==
  /\ At(p, "done")
  /\ pr' = [pr EXCEPT ![p] = Idle]
  /\ UNCHANGED <<setting, disk, acked>>

(* The server is stopped, with no request under way, and started again with *)
(* another configuration.                                                   *)
Restart ==
  /\ serial
  /\ \A p \in Procs: At(p, "idle")
  /\ mode' \in Modes \ {mode}
  /\ UNCHANGED <<serial, disk, acked, pr>>

Step(p) ==
  \/ p \in Writers /\
       (PutSealed(p) \/ PutMkdir(p) \/ PutTemp(p) \/ PutBody(p) \/ PutRename(p))
  \/ p \in Readers /\
       (ReadManifest(p) \/ ReadStat(p) \/ GetOpen(p) \/ ReadMD5(p))
  \/ p \in Deleters /\
       (DeleteManifest(p) \/ DeleteFile(p) \/ ParentsRead(p) \/ ParentsRemove(p))
  \/ Return(p)

Next == Restart \/ \E p \in Procs: Step(p)

Spec == Init /\ [][Next]_vars

---------------------------------------------------------------------------
(* Properties *)

Stored(k) == IF sealed[k] # None THEN sealed[k]
             ELSE IF tree[k] = Dir THEN None ELSE tree[k]

(* What a PUT of a key left stays until a PUT or a DELETE of that same key:   *)
(* a failed overwrite, a restart in the other mode, and the tidying up of     *)
(* directories for other keys leave it alone.  The exception the code makes:  *)
(* requests for a key that is also a directory of others, and those for the   *)
(* others, must not overlap.                                                  *)
HoldsKeys(k) == \E p \in Paths: Parent[p] = k
PutsStay == \A k \in Keys: serial \/ ~HoldsKeys(k) => Stored(k) = acked[k]

(* For one client, a GET or HEAD answers with what the last PUT of the key    *)
(* wrote, and 404 if there is none, through any sequence of requests and of   *)
(* restarts that enable or disable sealed mode (README.md: "mix sealed/plain  *)
(* safely"), with keys that are each other's directories.                     *)
ReadsMatchAcks ==
  serial => \A p \in Readers:
    At(p, "done") =>
      IF acked[pr[p].key] = None THEN pr[p].status = 404
      ELSE /\ pr[p].status = 200
           /\ acked[pr[p].key] = pr[p].size /\ pr[p].size = pr[p].body
           /\ pr[p].body = pr[p].etag

===========================================================================
