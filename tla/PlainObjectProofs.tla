------------------------- MODULE PlainObjectProofs -------------------------
(***************************************************************************)
(* What is proved of PlainObject for every set of handlers, keys, paths and  *)
(* versions: the tree is a tree, what a PUT left stays until a PUT or DELETE *)
(* of the same key, and one client reads what was written.                   *)
(***************************************************************************)
EXTENDS PlainObject, TLAPS

---------------------------------------------------------------------------
(* The handlers *)

Record(pc, key, at, size, body, etag, status) ==
  [pc |-> pc, key |-> key, at |-> at, size |-> size, body |-> body, etag |-> etag,
   status |-> status]

(* Handler p goes on as r; the others stay where they are. *)
Becomes(p, r) ==
  /\ pr' \in [Procs -> Process]
  /\ pr'[p] = r
  /\ \A q \in Procs \ {p}: pr'[q] = pr[q]

Handlers == pr \in [Procs -> Process]

LEMMA HandlerIs ==
  ASSUME NEW e \in Process
  PROVE  e = Record(e.pc, e.key, e.at, e.size, e.body, e.etag, e.status)
BY DEF Process, Record

LEMMA BecomesIs ==
  ASSUME Handlers, NEW p \in Procs, NEW r \in Process, pr' = [pr EXCEPT ![p] = r]
  PROVE  Becomes(p, r)
BY DEF Handlers, Becomes

LEMMA GotoIs ==
  ASSUME Handlers, NEW p \in Procs, NEW pc, Goto(p, pc),
         NEW r \in Process,
         r = Record(pc, pr[p].key, pr[p].at, pr[p].size, pr[p].body, pr[p].etag, pr[p].status)
  PROVE  Becomes(p, r)
<1> DEFINE e == pr[p]
<1>1. e \in Process
  BY DEF Handlers
<1>2. e = Record(e.pc, e.key, e.at, e.size, e.body, e.etag, e.status)
  BY <1>1, HandlerIs
<1>3. pr' = [pr EXCEPT ![p] = [e EXCEPT !.pc = pc]]
  BY DEF Goto
<1>4. r = Record(pc, e.key, e.at, e.size, e.body, e.etag, e.status)
  OBVIOUS
<1> HIDE DEF e
<1>5. [e EXCEPT !.pc = pc] = r
  BY <1>2, <1>4 DEF Record
<1> QED BY <1>3, <1>5, BecomesIs

LEMMA AnswerIs ==
  ASSUME Handlers, NEW p \in Procs, NEW status, Answer(p, status),
         NEW r \in Process,
         r = Record("done", pr[p].key, pr[p].at, pr[p].size, pr[p].body, pr[p].etag, status)
  PROVE  Becomes(p, r)
<1> DEFINE e == pr[p]
           d == [e EXCEPT !.pc = "done"]
           f == [d EXCEPT !.status = status]
<1>1. e \in Process
  BY DEF Handlers
<1>2. e = Record(e.pc, e.key, e.at, e.size, e.body, e.etag, e.status)
  BY <1>1, HandlerIs
<1>3. pr' = [pr EXCEPT ![p] = f]
  BY DEF Answer, Handlers
<1>4. r = Record("done", e.key, e.at, e.size, e.body, e.etag, status)
  OBVIOUS
<1> HIDE DEF e
<1>5. d = Record("done", e.key, e.at, e.size, e.body, e.etag, e.status)
  BY <1>2 DEF Record
<1> HIDE DEF d
<1>6. f = r
  BY <1>4, <1>5 DEF Record
<1> QED BY <1>3, <1>6, BecomesIs

LEMMA BeginIs ==
  ASSUME Handlers, NEW p \in Procs, NEW pc, NEW k, NEW v, NEW status, Begin(p, pc, k, v, status),
         Record(pc, k, None, None, v, None, status) \in Process
  PROVE  Becomes(p, Record(pc, k, None, None, v, None, status))
<1> DEFINE e0 == Idle
           e1 == [e0 EXCEPT !.pc = pc]
           e2 == [e1 EXCEPT !.key = k]
           e3 == [e2 EXCEPT !.body = v]
           e4 == [e3 EXCEPT !.status = status]
<1>1. pr' = [pr EXCEPT ![p] = e4]
  BY DEF Begin
<1>2. e0 = Record("idle", None, None, None, None, None, 0)
  BY DEF Idle, Record
<1> HIDE DEF e0
<1>3. e1 = Record(pc, None, None, None, None, None, 0)
  BY <1>2 DEF Record
<1> HIDE DEF e1
<1>4. e2 = Record(pc, k, None, None, None, None, 0)
  BY <1>3 DEF Record
<1> HIDE DEF e2
<1>5. e3 = Record(pc, k, None, None, v, None, 0)
  BY <1>4 DEF Record
<1> HIDE DEF e3
<1>6. e4 = Record(pc, k, None, None, v, None, status)
  BY <1>5 DEF Record
<1> QED BY <1>1, <1>6, BecomesIs

---------------------------------------------------------------------------
(* What a step does to the disk *)

DiskInv ==
  /\ tree \in [Paths -> Nodes] /\ Hung
  /\ sealed \in [Keys -> Versions \cup {None}]
  /\ \A k \in Keys: sealed[k] # None => tree[k] = Dir
  /\ acked \in [Keys -> Versions \cup {None}]

Same == UNCHANGED <<tree, sealed, acked>>

MakesDirs(dirs) ==
  /\ dirs \subseteq Paths /\ ~Blocked(dirs)
  /\ \A d \in dirs: Parent[d] # Root => Parent[d] \in dirs
  /\ tree' = WithDirs(dirs)

Makes(k) == MakesDirs(Ancestors(k)) /\ UNCHANGED <<sealed, acked>>

Seals(k, v) ==
  /\ MakesDirs(Ancestors(k) \cup {k})
  /\ sealed' = [sealed EXCEPT ![k] = v]
  /\ acked' = [acked EXCEPT ![k] = v]

Renames(k, v) ==
  /\ tree[k] # Dir
  /\ tree' = [tree EXCEPT ![k] = v]
  /\ acked' = [acked EXCEPT ![k] = v]
  /\ UNCHANGED sealed

Unseals(k) ==
  /\ sealed[k] # None
  /\ sealed' = [sealed EXCEPT ![k] = None]
  /\ acked' = [acked EXCEPT ![k] = None]
  /\ UNCHANGED tree

Deletes(k) ==
  /\ Removable(k)
  /\ tree' = [tree EXCEPT ![k] = None]
  /\ acked' = [acked EXCEPT ![k] = None]
  /\ UNCHANGED sealed

Tidies(d) ==
  /\ Removable(d)
  /\ tree' = [tree EXCEPT ![d] = None]
  /\ UNCHANGED <<sealed, acked>>

Changes ==
  \/ Same
  \/ \E k \in Keys: Makes(k) \/ Unseals(k) \/ Deletes(k)
  \/ \E k \in Keys, v \in Versions: Seals(k, v) \/ (ParentThere(k) /\ Renames(k, v))

(* The directories above a path are closed under Parent. *)
LEMMA AncestorsClosed ==
  ASSUME NEW k \in Keys
  PROVE  /\ Ancestors(k) \subseteq Paths
         /\ Parent[k] # Root => Parent[k] \in Ancestors(k)
         /\ \A d \in Ancestors(k): Parent[d] # Root => Parent[d] \in Ancestors(k)
<1> USE PathAssumption
<1>1. ASSUME NEW d \in Ancestors(k) \cup {k}, Parent[d] # Root PROVE Parent[d] \in Ancestors(k)
  <2>1. d \in Paths /\ Parent[d] \in Paths
    BY <1>1 DEF Ancestors
  <2>2. ASSUME NEW D \in SUBSET Paths, Above(D, k) PROVE Parent[d] \in D
    <3>1. d \in D \cup {k}
      BY <1>1, <2>2 DEF Ancestors
    <3> QED BY <1>1, <2>2, <3>1 DEF Above
  <2> QED BY <2>1, <2>2 DEF Ancestors
<1> QED BY <1>1 DEF Ancestors

(* Every step keeps the tree a tree and the sealed objects in directories... *)
LEMMA DiskMakes ==
  ASSUME DiskInv, NEW dirs, MakesDirs(dirs)
  PROVE  /\ tree' \in [Paths -> Nodes] /\ Hung'
         /\ \A p \in Paths: tree[p] = Dir => tree'[p] = Dir
         /\ \A p \in dirs: tree'[p] = Dir
         /\ \A p \in Paths: tree'[p] # tree[p] => tree'[p] = Dir /\ tree[p] = None
<1> USE PathAssumption
<1>1. \A p \in Paths: tree'[p] = IF p \in dirs THEN Dir ELSE tree[p]
  BY DEF MakesDirs, WithDirs
<1>2. tree' \in [Paths -> Nodes]
  BY DEF DiskInv, MakesDirs, WithDirs, Nodes
<1>3. \A p \in dirs: tree[p] \in {None, Dir}
  BY DEF MakesDirs, Blocked
<1>4. Hung'
  <2> SUFFICES ASSUME NEW p \in Paths, tree'[p] # None, Parent[p] # Root
               PROVE  tree'[Parent[p]] = Dir
    BY DEF Hung
  <2>1. Parent[p] \in Paths
    OBVIOUS
  <2>2. CASE p \in dirs
    BY <1>1, <2>1, <2>2 DEF MakesDirs
  <2>3. CASE p \notin dirs
    BY <1>1, <2>1, <2>3 DEF DiskInv, Hung
  <2> QED BY <2>2, <2>3
<1> QED BY <1>1, <1>2, <1>3, <1>4 DEF MakesDirs

LEMMA DiskRemoves ==
  ASSUME DiskInv, NEW x \in Paths, Removable(x), tree' = [tree EXCEPT ![x] = None]
  PROVE  /\ tree' \in [Paths -> Nodes] /\ Hung'
         /\ x \in Keys => sealed[x] = None
         /\ tree[x] = Dir => ~HasTemp(x)
<1> USE PathAssumption
<1>1. tree' \in [Paths -> Nodes] /\ tree'[x] = None /\ \A p \in Paths \ {x}: tree'[p] = tree[p]
  BY DEF DiskInv, Nodes
<1>2. \A p \in Paths: Parent[p] = x => tree[p] = None
  BY DEF DiskInv, Hung, Removable, Empty
<1>3. Hung'
  <2> SUFFICES ASSUME NEW p \in Paths, tree'[p] # None, Parent[p] # Root
               PROVE  tree'[Parent[p]] = Dir
    BY DEF Hung
  <2>1. Parent[p] \in Paths /\ p # x /\ tree[p] # None
    BY <1>1
  <2>2. Parent[p] # x
    BY <1>2, <2>1
  <2> QED BY <1>1, <2>1, <2>2 DEF DiskInv, Hung
<1>4. x \in Keys => sealed[x] = None
  BY DEF DiskInv, Removable, Empty
<1> QED BY <1>1, <1>3, <1>4 DEF Removable, Empty

LEMMA DiskRenames ==
  ASSUME DiskInv, NEW k \in Keys, NEW v \in Versions, ParentThere(k), Renames(k, v)
  PROVE  /\ DiskInv' /\ \A p \in Paths: tree[p] = Dir => tree'[p] = Dir
         /\ sealed[k] = None
<1> USE PathAssumption, MarkAssumption
<1>1. tree' \in [Paths -> Nodes] /\ tree'[k] = v /\ \A p \in Paths \ {k}: tree'[p] = tree[p]
  BY DEF DiskInv, Nodes, Renames
<1>2. Hung'
  <2> SUFFICES ASSUME NEW p \in Paths, tree'[p] # None, Parent[p] # Root
               PROVE  tree'[Parent[p]] = Dir
    BY DEF Hung
  <2>1. Parent[p] \in Paths
    OBVIOUS
  <2>2. tree[Parent[p]] = Dir
    BY <1>1, <2>1 DEF DiskInv, Hung, ParentThere
  <2> QED BY <1>1, <2>1, <2>2 DEF Renames
<1>3. sealed[k] = None /\ sealed' = sealed
  BY DEF DiskInv, Renames
<1>4. /\ sealed' \in [Keys -> Versions \cup {None}]
      /\ \A j \in Keys: sealed'[j] # None => tree'[j] = Dir
  BY <1>1, <1>3 DEF DiskInv
<1>5. acked' \in [Keys -> Versions \cup {None}]
  BY DEF DiskInv, Renames
<1> QED BY <1>1, <1>2, <1>3, <1>4, <1>5 DEF DiskInv, Renames

(* Whatever a step does to the disk, it keeps it in order; and a directory      *)
(* that goes away holds no temp file.                                        *)
LEMMA DiskStep ==
  ASSUME DiskInv, Changes \/ \E d \in Paths: Tidies(d)
  PROVE  /\ DiskInv'
         /\ \A d \in Paths: tree[d] = Dir /\ HasTemp(d) => tree'[d] = Dir
<1> USE PathAssumption
<1>1. CASE Same
  BY <1>1 DEF Same, DiskInv, Hung
<1>2. ASSUME NEW k \in Keys, Makes(k) PROVE DiskInv' /\ \A d \in Paths: tree[d] = Dir => tree'[d] = Dir
  <2>1. /\ tree' \in [Paths -> Nodes] /\ Hung'
        /\ \A p \in Paths: tree[p] = Dir => tree'[p] = Dir
    BY <1>2, DiskMakes DEF Makes
  <2> QED BY <1>2, <2>1 DEF Makes, DiskInv
<1>3. ASSUME NEW k \in Keys, NEW v \in Versions, Seals(k, v)
      PROVE  DiskInv' /\ \A d \in Paths: tree[d] = Dir => tree'[d] = Dir
  <2>1. /\ tree' \in [Paths -> Nodes] /\ Hung'
        /\ \A p \in Paths: tree[p] = Dir => tree'[p] = Dir
        /\ tree'[k] = Dir
    BY <1>3, DiskMakes DEF Seals
  <2>2. /\ sealed' \in [Keys -> Versions \cup {None}] /\ acked' \in [Keys -> Versions \cup {None}]
        /\ \A j \in Keys: sealed'[j] # None => j = k \/ sealed[j] # None
    BY <1>3 DEF Seals, DiskInv
  <2> QED BY <2>1, <2>2 DEF DiskInv
<1>4. ASSUME NEW k \in Keys, Unseals(k)
      PROVE  DiskInv' /\ \A d \in Paths: tree[d] = Dir => tree'[d] = Dir
  <2>1. /\ sealed' \in [Keys -> Versions \cup {None}] /\ acked' \in [Keys -> Versions \cup {None}]
        /\ \A j \in Keys: sealed'[j] # None => sealed[j] # None
        /\ tree' = tree
    BY <1>4 DEF Unseals, DiskInv
  <2> QED BY <2>1 DEF DiskInv, Hung
<1>5. ASSUME NEW k \in Keys, NEW v \in Versions, ParentThere(k), Renames(k, v)
      PROVE  DiskInv' /\ \A d \in Paths: tree[d] = Dir => tree'[d] = Dir
  BY <1>5, DiskRenames
<1>6. ASSUME NEW x \in Paths, Removable(x), tree' = [tree EXCEPT ![x] = None],
             UNCHANGED sealed, acked' \in [Keys -> Versions \cup {None}]
      PROVE  DiskInv' /\ \A d \in Paths: tree[d] = Dir /\ HasTemp(d) => tree'[d] = Dir
  <2>1. /\ tree' \in [Paths -> Nodes] /\ Hung' /\ (x \in Keys => sealed[x] = None)
        /\ (tree[x] = Dir => ~HasTemp(x))
    BY <1>6, DiskRemoves
  <2>2. \A d \in Paths \ {x}: tree'[d] = tree[d]
    BY <1>6 DEF DiskInv
  <2>3. \A k \in Keys: sealed'[k] # None => tree'[k] = Dir
    BY <1>6, <2>1, <2>2 DEF DiskInv
  <2>4. \A d \in Paths: tree[d] = Dir /\ HasTemp(d) => tree'[d] = Dir
    BY <2>1, <2>2
  <2> QED BY <1>6, <2>1, <2>3, <2>4 DEF DiskInv
<1>7. ASSUME NEW k \in Keys, Deletes(k)
      PROVE  DiskInv' /\ \A d \in Paths: tree[d] = Dir /\ HasTemp(d) => tree'[d] = Dir
  <2>1. acked' \in [Keys -> Versions \cup {None}] /\ k \in Paths
    BY <1>7 DEF Deletes, DiskInv
  <2> QED BY <1>6, <1>7, <2>1 DEF Deletes
<1>8. ASSUME NEW d \in Paths, Tidies(d)
      PROVE  DiskInv' /\ \A x \in Paths: tree[x] = Dir /\ HasTemp(x) => tree'[x] = Dir
  <2>1. acked' \in [Keys -> Versions \cup {None}]
    BY <1>8 DEF Tidies, DiskInv
  <2> QED BY <1>6, <1>8, <2>1 DEF Tidies
<1> QED BY <1>1, <1>2, <1>3, <1>4, <1>5, <1>7, <1>8 DEF Changes

(* ... and leaves each key what its last PUT or DELETE left there, a tidied     *)
(* file excepted.                                                            *)
LEMMA StoredKept ==
  ASSUME DiskInv, NEW j \in Keys, Stored(j) = acked[j],
         Changes \/ \E d \in Paths: Tidies(d) /\ (d = j => tree[d] = Dir)
  PROVE  Stored(j)' = acked'[j]
<1> USE PathAssumption, MarkAssumption
<1>1. CASE Same
  BY <1>1 DEF Same, Stored
<1>2. ASSUME NEW k \in Keys, Makes(k) PROVE Stored(j)' = acked'[j]
  <2>1. \A p \in Paths: tree'[p] # tree[p] => tree'[p] = Dir /\ tree[p] = None
    BY <1>2, DiskMakes DEF Makes
  <2> QED BY <1>2, <2>1 DEF Makes, Stored
<1>3. ASSUME NEW k \in Keys, NEW v \in Versions, Seals(k, v) PROVE Stored(j)' = acked'[j]
  <2>1. \A p \in Paths: tree'[p] # tree[p] => tree'[p] = Dir /\ tree[p] = None
    BY <1>3, DiskMakes DEF Seals
  <2>2. CASE j = k
    <3>1. sealed'[j] = v /\ acked'[j] = v
      BY <1>3, <2>2 DEF Seals, DiskInv
    <3> QED BY <3>1 DEF Stored
  <2>3. CASE j # k
    <3>1. sealed'[j] = sealed[j] /\ acked'[j] = acked[j]
      BY <1>3, <2>3 DEF Seals, DiskInv
    <3> QED BY <2>1, <3>1 DEF Stored
  <2> QED BY <2>2, <2>3
<1>4. ASSUME NEW k \in Keys, Unseals(k) PROVE Stored(j)' = acked'[j]
  <2>1. CASE j = k
    <3>1. sealed'[j] = None /\ acked'[j] = None /\ tree'[j] = Dir
      BY <1>4, <2>1 DEF Unseals, DiskInv
    <3> QED BY <3>1 DEF Stored
  <2>2. CASE j # k
    BY <1>4, <2>2 DEF Unseals, DiskInv, Stored
  <2> QED BY <2>1, <2>2
<1>5. ASSUME NEW k \in Keys, NEW v \in Versions, ParentThere(k), Renames(k, v)
      PROVE  Stored(j)' = acked'[j]
  <2>1. sealed[k] = None /\ sealed' = sealed
    BY <1>5, DiskRenames DEF Renames
  <2>2. CASE j = k
    <3>1. sealed'[j] = None /\ acked'[j] = v /\ tree'[j] = v
      BY <1>5, <2>1, <2>2 DEF Renames, DiskInv
    <3> QED BY <3>1 DEF Stored
  <2>3. CASE j # k
    BY <1>5, <2>3 DEF Renames, DiskInv, Stored
  <2> QED BY <2>2, <2>3
<1>6. ASSUME NEW k \in Keys, Deletes(k) PROVE Stored(j)' = acked'[j]
  <2>1. sealed[k] = None /\ sealed' = sealed
    BY <1>6, DiskRemoves DEF Deletes
  <2>2. CASE j = k
    <3>1. sealed'[j] = None /\ acked'[j] = None /\ tree'[j] = None
      BY <1>6, <2>1, <2>2 DEF Deletes, DiskInv
    <3> QED BY <3>1 DEF Stored
  <2>3. CASE j # k
    BY <1>6, <2>3 DEF Deletes, DiskInv, Stored
  <2> QED BY <2>2, <2>3
<1>7. ASSUME NEW d \in Paths, Tidies(d), d = j => tree[d] = Dir PROVE Stored(j)' = acked'[j]
  <2>1. (d \in Keys => sealed[d] = None) /\ sealed' = sealed /\ acked' = acked
    BY <1>7, DiskRemoves DEF Tidies
  <2>2. CASE j = d
    <3>1. sealed'[j] = None /\ tree'[j] = None /\ tree[j] = Dir
      BY <1>7, <2>1, <2>2 DEF Tidies, DiskInv
    <3> QED BY <2>1, <3>1 DEF Stored
  <2>3. CASE j # d
    BY <1>7, <2>1, <2>3 DEF Tidies, DiskInv, Stored
  <2> QED BY <2>2, <2>3
<1> QED BY <1>1, <1>2, <1>3, <1>4, <1>5, <1>6, <1>7 DEF Changes

---------------------------------------------------------------------------
(* What a step does, handler by handler *)

Shape(p, e) ==
  /\ e.pc # "idle" => e.key \in Keys
  /\ e.pc \in {"temp", "body", "rename"} => p \in Writers /\ e.body \in Versions
  /\ e.pc \in {"stat", "open", "md5"} => p \in Readers
  /\ e.pc \in {"remove", "readDir", "rmdir"} => p \in Deleters
  /\ e.pc = "readDir" => e.at \in Paths \cup {Root}
  /\ e.pc = "rmdir" => e.at \in Paths

HandlerInv == Handlers /\ \A p \in Procs: Shape(p, pr[p])

(* The handler as it is, but for its place and its answer *)
With(p, pc, status) ==
  Record(pc, pr[p].key, pr[p].at, pr[p].size, pr[p].body, pr[p].etag, status)

Climbed(p, d) ==
  Record("readDir", pr[p].key, d, pr[p].size, pr[p].body, pr[p].etag, pr[p].status)

PutEffect(p) ==
  \/ /\ MayBegin(p) /\ mode = "sealed"
     /\ \E k \in Keys, v \in Versions:
          Seals(k, v) /\ Becomes(p, Record("done", k, None, None, v, None, 200))
  \/ /\ MayBegin(p)
     /\ \E k \in Keys, v \in Versions:
          Same /\ Becomes(p, Record("done", k, None, None, v, None, 500))
  \/ /\ MayBegin(p)
     /\ \E k \in Keys, v \in Versions:
          Makes(k) /\ Becomes(p, Record("temp", k, None, None, v, None, 0))
  \/ /\ At(p, "temp") /\ ParentThere(pr[p].key)
     /\ Same /\ Becomes(p, With(p, "body", pr[p].status))
  \/ At(p, "body") /\ Same /\ Becomes(p, With(p, "rename", pr[p].status))
  \/ pr[p].pc \in {"temp", "body", "rename"} /\ Same /\ Becomes(p, With(p, "done", 500))
  \/ At(p, "rename") /\ Renames(pr[p].key, pr[p].body) /\ Becomes(p, With(p, "done", 200))

ReadEffect(p) ==
  /\ Same
  /\ \/ /\ MayBegin(p)
        /\ \E k \in Keys:
             sealed[k] = None /\ Becomes(p, Record("stat", k, None, None, None, None, 0))
     \/ /\ MayBegin(p)
        /\ \E k \in Keys:
             /\ sealed[k] # None
             /\ Becomes(p, Record("done", k, None, sealed[k], sealed[k], sealed[k], 200))
     \/ /\ pr[p].pc \in {"stat", "open", "md5"} /\ tree[pr[p].key] \in {None, Dir}
        /\ (tree[pr[p].key] = Dir => At(p, "md5"))
        /\ Becomes(p, With(p, "done", 404))
     \/ /\ At(p, "stat") /\ tree[pr[p].key] # None
        /\ \E next \in {"open", "md5"}:
             Becomes(p, Record(next, pr[p].key, pr[p].at, tree[pr[p].key], tree[pr[p].key],
                               pr[p].etag, pr[p].status))
     \/ /\ At(p, "open") /\ tree[pr[p].key] # None
        /\ Becomes(p, Record("md5", pr[p].key, pr[p].at, pr[p].size, tree[pr[p].key],
                             pr[p].etag, pr[p].status))
     \/ /\ At(p, "md5") /\ tree[pr[p].key] \notin {None, Dir}
        /\ Becomes(p, Record("done", pr[p].key, pr[p].at, pr[p].size, pr[p].body,
                             tree[pr[p].key], 200))

DeleteEffect(p) ==
  \/ /\ MayBegin(p)
     /\ \E k \in Keys: Same /\ Becomes(p, Record("remove", k, None, None, None, None, 0))
  \/ /\ MayBegin(p)
     /\ \E k \in Keys: Unseals(k) /\ Becomes(p, Record("readDir", k, k, None, None, None, 0))
  \/ At(p, "remove") /\ Deletes(pr[p].key) /\ Becomes(p, Climbed(p, Parent[pr[p].key]))
  \/ At(p, "remove") /\ Same /\ Becomes(p, With(p, "done", 404))
  \/ /\ At(p, "readDir") /\ pr[p].at # Root /\ tree[pr[p].at] = Dir
     /\ Same /\ Becomes(p, With(p, "rmdir", pr[p].status))
  \/ pr[p].pc \in {"readDir", "rmdir"} /\ Same /\ Becomes(p, With(p, "done", 204))
  \/ At(p, "rmdir") /\ Tidies(pr[p].at) /\ Becomes(p, Climbed(p, Parent[pr[p].at]))

Effect(p) ==
  \/ p \in Writers /\ PutEffect(p)
  \/ p \in Readers /\ ReadEffect(p)
  \/ p \in Deleters /\ DeleteEffect(p)
  \/ At(p, "done") /\ Same /\ Becomes(p, Idle)

(* The values a handler holds *)
LEMMA WithIs ==
  ASSUME Handlers, NEW p \in Procs,
         NEW pc \in {"idle", "temp", "body", "rename", "stat", "open", "md5", "remove",
                     "readDir", "rmdir", "done"},
         NEW status \in {0, 200, 204, 404, 500}
  PROVE  With(p, pc, status) \in Process
BY DEF Handlers, With, Record, Process

LEMMA GoesWith ==
  ASSUME Handlers, NEW p \in Procs,
         NEW pc \in {"temp", "body", "rename", "stat", "open", "md5", "remove",
                     "readDir", "rmdir", "done"}, Goto(p, pc)
  PROVE  Becomes(p, With(p, pc, pr[p].status))
<1>1. pr[p].status \in {0, 200, 204, 404, 500}
  BY DEF Handlers, Process
<1> DEFINE r == With(p, pc, pr[p].status)
<1>2. r \in Process
  BY <1>1, WithIs
<1>3. r = Record(pc, pr[p].key, pr[p].at, pr[p].size, pr[p].body, pr[p].etag, pr[p].status)
  BY DEF With
<1> HIDE DEF r
<1>4. Becomes(p, r)
  BY <1>2, <1>3, GotoIs
<1> QED BY <1>4 DEF r

LEMMA AnswersWith ==
  ASSUME Handlers, NEW p \in Procs, NEW status \in {0, 200, 204, 404, 500}, Answer(p, status)
  PROVE  Becomes(p, With(p, "done", status))
<1> DEFINE r == With(p, "done", status)
<1>2. r \in Process
  BY WithIs
<1>3. r = Record("done", pr[p].key, pr[p].at, pr[p].size, pr[p].body, pr[p].etag, status)
  BY DEF With
<1> HIDE DEF r
<1>4. Becomes(p, r)
  BY <1>2, <1>3, AnswerIs
<1> QED BY <1>4 DEF r

LEMMA BeginsAs ==
  ASSUME Handlers, NEW p \in Procs, NEW k \in Keys, NEW v \in Versions \cup {None},
         NEW pc \in {"temp", "stat", "remove", "done"}, NEW status \in {0, 200, 500},
         Begin(p, pc, k, v, status)
  PROVE  Becomes(p, Record(pc, k, None, None, v, None, status))
<1>1. Record(pc, k, None, None, v, None, status) \in Process
  BY DEF Record, Process, Nodes
<1> QED BY <1>1, BeginIs

LEMMA PutEffects ==
  ASSUME HandlerInv, NEW p \in Procs,
         PutSealed(p) \/ PutMkdir(p) \/ PutTemp(p) \/ PutBody(p) \/ PutRename(p)
  PROVE  PutEffect(p)
<1> USE PathAssumption
<1>h. Handlers /\ \A k \in Keys: k \in Paths
  BY DEF HandlerInv
<1>1. CASE PutSealed(p)
  <2>1. MayBegin(p) /\ mode = "sealed"
    BY <1>1 DEF PutSealed
  <2>2. PICK k \in Keys, v \in Versions:
          LET dirs == Ancestors(k) \cup {k} IN
          IF Blocked(dirs)
            THEN Begin(p, "done", k, v, 500) /\ UNCHANGED <<disk, acked>>
            ELSE /\ tree' = WithDirs(dirs)
                 /\ sealed' = [sealed EXCEPT ![k] = v]
                 /\ acked' = [acked EXCEPT ![k] = v]
                 /\ Begin(p, "done", k, v, 200)
    BY <1>1 DEF PutSealed
  <2> DEFINE dirs == Ancestors(k) \cup {k}
  <2>3. CASE Blocked(dirs)
    <3>1. Begin(p, "done", k, v, 500) /\ Same
      BY <2>2, <2>3 DEF disk, Same
    <3>2. Becomes(p, Record("done", k, None, None, v, None, 500))
      BY <1>h, <3>1, BeginsAs
    <3> QED BY <2>1, <3>1, <3>2 DEF PutEffect
  <2>4. CASE ~Blocked(dirs)
    <3>1. /\ tree' = WithDirs(dirs) /\ sealed' = [sealed EXCEPT ![k] = v]
          /\ acked' = [acked EXCEPT ![k] = v] /\ Begin(p, "done", k, v, 200)
      BY <2>2, <2>4
    <3>2. Becomes(p, Record("done", k, None, None, v, None, 200))
      BY <1>h, <3>1, BeginsAs
    <3>3. MakesDirs(dirs)
      <4>1. dirs \subseteq Paths /\ \A d \in dirs: Parent[d] # Root => Parent[d] \in dirs
        BY AncestorsClosed
      <4> QED BY <2>4, <3>1, <4>1 DEF MakesDirs
    <3>4. Seals(k, v)
      BY <3>1, <3>3 DEF Seals
    <3> QED BY <2>1, <3>2, <3>4 DEF PutEffect
  <2> QED BY <2>3, <2>4
<1>2. CASE PutMkdir(p)
  <2>1. PICK k \in Keys, v \in Versions:
          IF Blocked(Ancestors(k))
            THEN Begin(p, "done", k, v, 500) /\ UNCHANGED tree
            ELSE Begin(p, "temp", k, v, 0) /\ tree' = WithDirs(Ancestors(k))
    BY <1>2 DEF PutMkdir
  <2>2. MayBegin(p) /\ UNCHANGED <<sealed, acked>>
    BY <1>2 DEF PutMkdir
  <2>3. CASE Blocked(Ancestors(k))
    <3>1. Becomes(p, Record("done", k, None, None, v, None, 500)) /\ Same
      BY <1>h, <2>1, <2>2, <2>3, BeginsAs DEF Same
    <3> QED BY <2>2, <3>1 DEF PutEffect
  <2>4. CASE ~Blocked(Ancestors(k))
    <3>1. Begin(p, "temp", k, v, 0) /\ tree' = WithDirs(Ancestors(k))
      BY <2>1, <2>4
    <3>2. Becomes(p, Record("temp", k, None, None, v, None, 0))
      BY <1>h, <3>1, BeginsAs
    <3>3. Makes(k)
      BY <2>2, <2>4, <3>1, AncestorsClosed DEF Makes, MakesDirs
    <3> QED BY <2>2, <3>2, <3>3 DEF PutEffect
  <2> QED BY <2>3, <2>4
<1>3. CASE PutTemp(p)
  <2>1. At(p, "temp") /\ Same
    BY <1>3 DEF PutTemp, Same, disk
  <2>2. CASE ParentThere(pr[p].key) /\ Goto(p, "body")
    BY <1>h, <2>1, <2>2, GoesWith DEF PutEffect
  <2>3. CASE Answer(p, 500)
    BY <1>h, <2>1, <2>3, AnswersWith DEF PutEffect, At
  <2> QED BY <1>3, <2>2, <2>3 DEF PutTemp
<1>4. CASE PutBody(p)
  <2>1. At(p, "body") /\ Same
    BY <1>4 DEF PutBody, Same, disk
  <2>2. CASE Goto(p, "rename")
    BY <1>h, <2>1, <2>2, GoesWith DEF PutEffect
  <2>3. CASE Answer(p, 500)
    BY <1>h, <2>1, <2>3, AnswersWith DEF PutEffect, At
  <2> QED BY <1>4, <2>2, <2>3 DEF PutBody
<1>5. CASE PutRename(p)
  <2>1. At(p, "rename") /\ UNCHANGED sealed
    BY <1>5 DEF PutRename
  <2>2. CASE tree[pr[p].key] = Dir
    <3>1. Answer(p, 500) /\ Same
      BY <1>5, <2>1, <2>2 DEF PutRename, Same
    <3> QED BY <1>h, <2>1, <3>1, AnswersWith DEF PutEffect, At
  <2>3. CASE tree[pr[p].key] # Dir
    <3>1. Answer(p, 200) /\ Renames(pr[p].key, pr[p].body)
      BY <1>5, <2>1, <2>3 DEF PutRename, Renames
    <3> QED BY <1>h, <2>1, <3>1, AnswersWith DEF PutEffect
  <2> QED BY <2>2, <2>3
<1> QED BY <1>1, <1>2, <1>3, <1>4, <1>5

(* Updates of several fields of a handler, as records *)
Stats(p, x, y, z) == pr' = [pr EXCEPT ![p].pc = x, ![p].size = y, ![p].body = z]

LEMMA StatIs ==
  ASSUME Handlers, NEW p \in Procs, NEW x, NEW y, NEW z,
         Stats(p, x, y, z),
         NEW r, r = Record(x, pr[p].key, pr[p].at, y, z, pr[p].etag, pr[p].status)
  PROVE  pr' = [pr EXCEPT ![p] = r]
<1> DEFINE e == pr[p]
           a == [e EXCEPT !.pc = x]
           b == [a EXCEPT !.size = y]
           c == [b EXCEPT !.body = z]
<1>1. e \in Process
  BY DEF Handlers
<1>2. e = Record(e.pc, e.key, e.at, e.size, e.body, e.etag, e.status)
  BY <1>1, HandlerIs
<1>3. pr' = [pr EXCEPT ![p] = c]
  BY DEF Handlers, Stats
<1>4. r = Record(x, e.key, e.at, y, z, e.etag, e.status)
  OBVIOUS
<1> HIDE DEF e
<1>5. a = Record(x, e.key, e.at, e.size, e.body, e.etag, e.status)
  BY <1>2 DEF Record
<1> HIDE DEF a
<1>6. b = Record(x, e.key, e.at, y, e.body, e.etag, e.status)
  BY <1>5 DEF Record
<1> HIDE DEF b
<1>7. c = Record(x, e.key, e.at, y, z, e.etag, e.status)
  BY <1>6 DEF Record
<1> HIDE DEF c
<1> QED BY <1>3, <1>4, <1>7

Opens(p, x, z) == pr' = [pr EXCEPT ![p].pc = x, ![p].body = z]

LEMMA OpenIs ==
  ASSUME Handlers, NEW p \in Procs, NEW x, NEW z,
         Opens(p, x, z),
         NEW r, r = Record(x, pr[p].key, pr[p].at, pr[p].size, z, pr[p].etag, pr[p].status)
  PROVE  pr' = [pr EXCEPT ![p] = r]
<1> DEFINE e == pr[p]
           a == [e EXCEPT !.pc = x]
           b == [a EXCEPT !.body = z]
<1>1. e \in Process
  BY DEF Handlers
<1>2. e = Record(e.pc, e.key, e.at, e.size, e.body, e.etag, e.status)
  BY <1>1, HandlerIs
<1>3. pr' = [pr EXCEPT ![p] = b]
  BY DEF Handlers, Opens
<1>4. r = Record(x, e.key, e.at, e.size, z, e.etag, e.status)
  OBVIOUS
<1> HIDE DEF e
<1>5. a = Record(x, e.key, e.at, e.size, e.body, e.etag, e.status)
  BY <1>2 DEF Record
<1> HIDE DEF a
<1>6. b = Record(x, e.key, e.at, e.size, z, e.etag, e.status)
  BY <1>5 DEF Record
<1> HIDE DEF b
<1> QED BY <1>3, <1>4, <1>6

Sums(p, x, y, z) == pr' = [pr EXCEPT ![p].pc = x, ![p].etag = y, ![p].status = z]

LEMMA SumIs ==
  ASSUME Handlers, NEW p \in Procs, NEW x, NEW y, NEW z,
         Sums(p, x, y, z),
         NEW r, r = Record(x, pr[p].key, pr[p].at, pr[p].size, pr[p].body, y, z)
  PROVE  pr' = [pr EXCEPT ![p] = r]
<1> DEFINE e == pr[p]
           a == [e EXCEPT !.pc = x]
           b == [a EXCEPT !.etag = y]
           c == [b EXCEPT !.status = z]
<1>1. e \in Process
  BY DEF Handlers
<1>2. e = Record(e.pc, e.key, e.at, e.size, e.body, e.etag, e.status)
  BY <1>1, HandlerIs
<1>3. pr' = [pr EXCEPT ![p] = c]
  BY DEF Handlers, Sums
<1>4. r = Record(x, e.key, e.at, e.size, e.body, y, z)
  OBVIOUS
<1> HIDE DEF e
<1>5. a = Record(x, e.key, e.at, e.size, e.body, e.etag, e.status)
  BY <1>2 DEF Record
<1> HIDE DEF a
<1>6. b = Record(x, e.key, e.at, e.size, e.body, y, e.status)
  BY <1>5 DEF Record
<1> HIDE DEF b
<1>7. c = Record(x, e.key, e.at, e.size, e.body, y, z)
  BY <1>6 DEF Record
<1> HIDE DEF c
<1> QED BY <1>3, <1>4, <1>7

Climbs(p, x, y) == pr' = [pr EXCEPT ![p].pc = x, ![p].at = y]

LEMMA ClimbIs ==
  ASSUME Handlers, NEW p \in Procs, NEW x, NEW y,
         Climbs(p, x, y),
         NEW r, r = Record(x, pr[p].key, y, pr[p].size, pr[p].body, pr[p].etag, pr[p].status)
  PROVE  pr' = [pr EXCEPT ![p] = r]
<1> DEFINE e == pr[p]
           a == [e EXCEPT !.pc = x]
           b == [a EXCEPT !.at = y]
<1>1. e \in Process
  BY DEF Handlers
<1>2. e = Record(e.pc, e.key, e.at, e.size, e.body, e.etag, e.status)
  BY <1>1, HandlerIs
<1>3. pr' = [pr EXCEPT ![p] = b]
  BY DEF Handlers, Climbs
<1>4. r = Record(x, e.key, y, e.size, e.body, e.etag, e.status)
  OBVIOUS
<1> HIDE DEF e
<1>5. a = Record(x, e.key, e.at, e.size, e.body, e.etag, e.status)
  BY <1>2 DEF Record
<1> HIDE DEF a
<1>6. b = Record(x, e.key, y, e.size, e.body, e.etag, e.status)
  BY <1>5 DEF Record
<1> HIDE DEF b
<1> QED BY <1>3, <1>4, <1>6

LEMMA ReadEffects ==
  ASSUME HandlerInv, DiskInv, NEW p \in Procs,
         ReadManifest(p) \/ ReadStat(p) \/ GetOpen(p) \/ ReadMD5(p)
  PROVE  ReadEffect(p)
<1> USE PathAssumption
<1>h. /\ Handlers /\ Shape(p, pr[p]) /\ pr[p] \in Process
      /\ \A k \in Keys: k \in Paths /\ sealed[k] \in Versions \cup {None} /\ tree[k] \in Nodes
  BY DEF HandlerInv, Handlers, DiskInv
<1>s. Same
  BY DEF ReadManifest, ReadStat, GetOpen, ReadMD5, Same, disk
<1>1. CASE ReadManifest(p)
  <2>1. PICK k \in Keys:
          pr' = [pr EXCEPT ![p] =
                   IF sealed[k] = None
                     THEN [Idle EXCEPT !.pc = "stat", !.key = k]
                     ELSE [pc |-> "done", key |-> k, at |-> None, size |-> sealed[k],
                           body |-> sealed[k], etag |-> sealed[k], status |-> 200]]
    BY <1>1 DEF ReadManifest
  <2>2. MayBegin(p)
    BY <1>1 DEF ReadManifest
  <2>3. CASE sealed[k] = None
    <3> DEFINE e0 == Idle  e1 == [e0 EXCEPT !.pc = "stat"]  e2 == [e1 EXCEPT !.key = k]
               r == Record("stat", k, None, None, None, None, 0)
    <3>1. pr' = [pr EXCEPT ![p] = e2]
      BY <2>1, <2>3
    <3>2. e0 = Record("idle", None, None, None, None, None, 0)
      BY DEF Idle, Record
    <3> HIDE DEF e0
    <3>3. e1 = Record("stat", None, None, None, None, None, 0)
      BY <3>2 DEF Record
    <3> HIDE DEF e1
    <3>4. e2 = r
      BY <3>3 DEF Record
    <3>5. r \in Process
      BY DEF Record, Process, Nodes
    <3> HIDE DEF e2, r
    <3>6. Becomes(p, r)
      BY <1>h, <3>1, <3>4, <3>5, BecomesIs
    <3> QED BY <1>s, <2>2, <2>3, <3>6 DEF ReadEffect, r
  <2>4. CASE sealed[k] # None
    <3> DEFINE r == Record("done", k, None, sealed[k], sealed[k], sealed[k], 200)
    <3>1. pr' = [pr EXCEPT ![p] = r]
      BY <2>1, <2>4 DEF Record
    <3>2. r \in Process
      BY <1>h DEF Record, Process, Nodes
    <3> HIDE DEF r
    <3>3. Becomes(p, r)
      BY <1>h, <3>1, <3>2, BecomesIs
    <3> QED BY <1>s, <2>2, <2>4, <3>3 DEF ReadEffect, r
  <2> QED BY <2>3, <2>4
<1> DEFINE here == tree[pr[p].key]
<1>t. pr[p].pc \in {"stat", "open", "md5"} => here \in Nodes
  BY <1>h DEF Shape
<1>2. ASSUME Answer(p, 404), pr[p].pc \in {"stat", "open", "md5"}, here \in {None, Dir},
             here = Dir => At(p, "md5")
      PROVE  ReadEffect(p)
  BY <1>h, <1>s, <1>2, AnswersWith DEF ReadEffect
<1>3. CASE ReadStat(p)
  <2>1. At(p, "stat") /\ here \in Nodes
    BY <1>3, <1>t DEF ReadStat, At
  <2>2. CASE here = None /\ Answer(p, 404)
    BY <1>2, <2>1, <2>2, MarkAssumption DEF At
  <2>3. ASSUME here # None, NEW next \in {"open", "md5"},
               pr' = [pr EXCEPT ![p].pc = next, ![p].size = here, ![p].body = here]
        PROVE  ReadEffect(p)
    <3> DEFINE r == Record(next, pr[p].key, pr[p].at, here, here, pr[p].etag, pr[p].status)
    <3>1. r = Record(next, pr[p].key, pr[p].at, here, here, pr[p].etag, pr[p].status)
      OBVIOUS
    <3>2. r \in Process
      BY <1>h, <2>1 DEF Record, Process
    <3> HIDE DEF r
    <3>3. pr' = [pr EXCEPT ![p] = r]
      <4>1. Stats(p, next, here, here)
        BY <2>3 DEF Stats
      <4> HIDE DEF here
      <4> QED BY <1>h, <3>1, <4>1, StatIs
    <3>4. Becomes(p, r)
      BY <1>h, <3>2, <3>3, BecomesIs
    <3> QED BY <1>s, <2>1, <2>3, <3>4 DEF ReadEffect, r
  <2> QED BY <1>3, <2>2, <2>3 DEF ReadStat
<1>4. CASE GetOpen(p)
  <2>1. At(p, "open") /\ here \in Nodes
    BY <1>4, <1>t DEF GetOpen, At
  <2>2. CASE here = None /\ Answer(p, 404)
    BY <1>2, <2>1, <2>2, MarkAssumption DEF At
  <2>3. ASSUME here # None, pr' = [pr EXCEPT ![p].pc = "md5", ![p].body = here]
        PROVE  ReadEffect(p)
    <3> DEFINE r == Record("md5", pr[p].key, pr[p].at, pr[p].size, here, pr[p].etag,
                           pr[p].status)
    <3>1. r = Record("md5", pr[p].key, pr[p].at, pr[p].size, here, pr[p].etag,
                     pr[p].status)
      OBVIOUS
    <3>2. r \in Process
      BY <1>h, <2>1 DEF Record, Process
    <3> HIDE DEF r
    <3>3. pr' = [pr EXCEPT ![p] = r]
      <4>1. Opens(p, "md5", here)
        BY <2>3 DEF Opens
      <4> HIDE DEF here
      <4> QED BY <1>h, <3>1, <4>1, OpenIs
    <3>4. Becomes(p, r)
      BY <1>h, <3>2, <3>3, BecomesIs
    <3> QED BY <1>s, <2>1, <2>3, <3>4 DEF ReadEffect, r
  <2> QED BY <1>4, <2>2, <2>3 DEF GetOpen
<1>5. CASE ReadMD5(p)
  <2>1. At(p, "md5") /\ here \in Nodes
    BY <1>5, <1>t DEF ReadMD5, At
  <2>2. CASE here \in {None, Dir}
    <3>1. Answer(p, 404)
      BY <1>5, <2>2 DEF ReadMD5
    <3> QED BY <1>2, <2>1, <2>2, <3>1 DEF At
  <2>3. CASE here \notin {None, Dir}
    <3> DEFINE r == Record("done", pr[p].key, pr[p].at, pr[p].size, pr[p].body, here, 200)
    <3>1. pr' = [pr EXCEPT ![p].pc = "done", ![p].etag = here, ![p].status = 200]
      BY <1>5, <2>3 DEF ReadMD5
    <3>2. r = Record("done", pr[p].key, pr[p].at, pr[p].size, pr[p].body, here, 200)
      OBVIOUS
    <3>3. r \in Process
      BY <1>h, <2>1 DEF Record, Process
    <3> HIDE DEF r
    <3>5. pr' = [pr EXCEPT ![p] = r]
      <4>1. Sums(p, "done", here, 200)
        BY <3>1 DEF Sums
      <4> HIDE DEF here
      <4> QED BY <1>h, <3>2, <4>1, SumIs
    <3>4. Becomes(p, r)
      BY <1>h, <3>3, <3>5, BecomesIs
    <3> QED BY <1>s, <2>1, <2>3, <3>4 DEF ReadEffect, r
  <2> QED BY <2>2, <2>3
<1> QED BY <1>1, <1>3, <1>4, <1>5

LEMMA ClimbsTo ==
  ASSUME Handlers, NEW p \in Procs, NEW d \in Paths \cup {Root},
         Climbs(p, "readDir", d)
  PROVE  Becomes(p, Climbed(p, d))
<1> DEFINE r == Climbed(p, d)
<1>1. r = Record("readDir", pr[p].key, d, pr[p].size, pr[p].body, pr[p].etag, pr[p].status)
  BY DEF Climbed
<1>2. r \in Process
  BY DEF Handlers, Climbed, Record, Process
<1> HIDE DEF r
<1>4. pr' = [pr EXCEPT ![p] = r]
  BY <1>1, ClimbIs
<1>3. Becomes(p, r)
  BY <1>2, <1>4, BecomesIs
<1> QED BY <1>3 DEF r

LEMMA DeleteEffects ==
  ASSUME HandlerInv, NEW p \in Procs,
         DeleteManifest(p) \/ DeleteFile(p) \/ ParentsRead(p) \/ ParentsRemove(p)
  PROVE  DeleteEffect(p)
<1> USE PathAssumption
<1>h. Handlers /\ Shape(p, pr[p]) /\ \A k \in Keys: k \in Paths
  BY DEF HandlerInv
<1>1. CASE DeleteManifest(p)
  <2>1. PICK k \in Keys:
          IF sealed[k] = None
            THEN Begin(p, "remove", k, None, 0) /\ UNCHANGED <<sealed, acked>>
            ELSE /\ sealed' = [sealed EXCEPT ![k] = None]
                 /\ acked' = [acked EXCEPT ![k] = None]
                 /\ pr' = [pr EXCEPT ![p] = [Idle EXCEPT !.pc = "readDir", !.key = k,
                                                         !.at = k]]
    BY <1>1 DEF DeleteManifest
  <2>2. MayBegin(p) /\ UNCHANGED tree
    BY <1>1 DEF DeleteManifest
  <2>3. CASE sealed[k] = None
    <3>1. Becomes(p, Record("remove", k, None, None, None, None, 0)) /\ Same
      BY <1>h, <2>1, <2>2, <2>3, BeginsAs DEF Same
    <3> QED BY <2>2, <3>1 DEF DeleteEffect
  <2>4. CASE sealed[k] # None
    <3> DEFINE e0 == Idle  e1 == [e0 EXCEPT !.pc = "readDir"]  e2 == [e1 EXCEPT !.key = k]
               e3 == [e2 EXCEPT !.at = k]
               r == Record("readDir", k, k, None, None, None, 0)
    <3>1. pr' = [pr EXCEPT ![p] = e3]
      BY <2>1, <2>4
    <3>2. e0 = Record("idle", None, None, None, None, None, 0)
      BY DEF Idle, Record
    <3> HIDE DEF e0
    <3>3. e1 = Record("readDir", None, None, None, None, None, 0)
      BY <3>2 DEF Record
    <3> HIDE DEF e1
    <3>4. e2 = Record("readDir", k, None, None, None, None, 0)
      BY <3>3 DEF Record
    <3> HIDE DEF e2
    <3>5. e3 = r
      BY <3>4 DEF Record
    <3>6. r \in Process
      BY <1>h DEF Record, Process, Nodes
    <3> HIDE DEF e3, r
    <3>7. Becomes(p, r)
      BY <1>h, <3>1, <3>5, <3>6, BecomesIs
    <3>8. Unseals(k)
      BY <2>1, <2>2, <2>4 DEF Unseals
    <3> QED BY <2>2, <3>7, <3>8 DEF DeleteEffect, r
  <2> QED BY <2>3, <2>4
<1>2. CASE DeleteFile(p)
  <2>1. At(p, "remove") /\ UNCHANGED sealed /\ pr[p].key \in Keys
    BY <1>h, <1>2 DEF DeleteFile, At, Shape
  <2>2. CASE Removable(pr[p].key)
    <3>1. /\ Climbs(p, "readDir", Parent[pr[p].key])
          /\ Deletes(pr[p].key)
      BY <1>2, <2>1, <2>2 DEF DeleteFile, Deletes, Climbs
    <3>2. Parent[pr[p].key] \in Paths \cup {Root}
      BY <1>h, <2>1
    <3>3. Becomes(p, Climbed(p, Parent[pr[p].key]))
      BY <1>h, <3>1, <3>2, ClimbsTo
    <3> QED BY <2>1, <3>1, <3>3 DEF DeleteEffect
  <2>3. CASE ~Removable(pr[p].key)
    <3>1. Answer(p, 404) /\ Same
      BY <1>2, <2>1, <2>3 DEF DeleteFile, Same
    <3> QED BY <1>h, <2>1, <3>1, AnswersWith DEF DeleteEffect
  <2> QED BY <2>2, <2>3
<1>3. CASE ParentsRead(p)
  <2>1. At(p, "readDir") /\ Same
    BY <1>3 DEF ParentsRead, Same, disk
  <2>2. CASE pr[p].at # Root /\ tree[pr[p].at] = Dir /\ Goto(p, "rmdir")
    BY <1>h, <2>1, <2>2, GoesWith DEF DeleteEffect
  <2>3. CASE Answer(p, 204)
    BY <1>h, <2>1, <2>3, AnswersWith DEF DeleteEffect, At
  <2> QED BY <1>3, <2>2, <2>3 DEF ParentsRead
<1>4. CASE ParentsRemove(p)
  <2>1. At(p, "rmdir") /\ UNCHANGED <<sealed, acked>> /\ pr[p].at \in Paths
    BY <1>h, <1>4 DEF ParentsRemove, At, Shape
  <2>2. CASE Removable(pr[p].at)
    <3>1. /\ Climbs(p, "readDir", Parent[pr[p].at])
          /\ Tidies(pr[p].at)
      BY <1>4, <2>1, <2>2 DEF ParentsRemove, Tidies, Climbs
    <3>2. Parent[pr[p].at] \in Paths \cup {Root}
      BY <2>1
    <3>3. Becomes(p, Climbed(p, Parent[pr[p].at]))
      BY <1>h, <3>1, <3>2, ClimbsTo
    <3> QED BY <2>1, <3>1, <3>3 DEF DeleteEffect
  <2>3. CASE ~Removable(pr[p].at)
    <3>1. Answer(p, 204) /\ Same
      BY <1>4, <2>1, <2>3 DEF ParentsRemove, Same
    <3> QED BY <1>h, <2>1, <3>1, AnswersWith DEF DeleteEffect, At
  <2> QED BY <2>2, <2>3
<1> QED BY <1>1, <1>2, <1>3, <1>4

LEMMA Effects ==
  ASSUME HandlerInv, DiskInv, NEW p \in Procs, Step(p)
  PROVE  Effect(p) /\ UNCHANGED setting
<1>1. CASE Return(p)
  <2>1. Idle \in Process /\ Handlers
    BY DEF Idle, Process, Nodes, HandlerInv
  <2>2. Becomes(p, Idle)
    BY <1>1, <2>1, BecomesIs DEF Return
  <2> QED BY <1>1, <2>2 DEF Return, Effect, Same, disk
<1>2. CASE p \in Writers /\ (PutSealed(p) \/ PutMkdir(p) \/ PutTemp(p) \/ PutBody(p) \/ PutRename(p))
  BY <1>2, PutEffects DEF Effect, PutSealed, PutMkdir, PutTemp, PutBody, PutRename
<1>3. CASE p \in Readers /\ (ReadManifest(p) \/ ReadStat(p) \/ GetOpen(p) \/ ReadMD5(p))
  BY <1>3, ReadEffects DEF Effect, ReadManifest, ReadStat, GetOpen, ReadMD5
<1>4. CASE p \in Deleters /\
             (DeleteManifest(p) \/ DeleteFile(p) \/ ParentsRead(p) \/ ParentsRemove(p))
  BY <1>4, DeleteEffects DEF Effect, DeleteManifest, DeleteFile, ParentsRead, ParentsRemove
<1> QED BY <1>1, <1>2, <1>3, <1>4 DEF Step

---------------------------------------------------------------------------
(* The inductive invariant *)

(* The directory of a temp file stays. *)
TempInv == \A p \in Procs: pr[p].pc \in {"body", "rename"} => ParentThere(pr[p].key)

(* Many clients meet plain objects only, and what they tidy up are directories  *)
(* of keys.                                                                  *)
PlainInv ==
  ~serial => /\ mode = "plain" /\ \A k \in Keys: sealed[k] = None
             /\ \A p \in Procs: pr[p].pc \in {"readDir", "rmdir"} =>
                  pr[p].at = Root \/ HoldsKeys(pr[p].at)

(* One client's requests find what they saw before. *)
Others(p) == \A q \in Procs \ {p}: pr[q].pc = "idle"

Answered(e) ==
  IF acked[e.key] = None THEN e.status = 404
  ELSE e.status = 200 /\ e.size = acked[e.key] /\ e.body = acked[e.key] /\ e.etag = acked[e.key]

Sees(p, e) ==
  /\ e.pc \in {"stat", "open", "md5"} => sealed[e.key] = None
  /\ e.pc \in {"open", "md5"} =>
       tree[e.key] # None /\ e.size = tree[e.key] /\ e.body = tree[e.key]
  /\ p \in Readers /\ e.pc = "done" => Answered(e)
  /\ e.pc = "rmdir" => tree[e.at] = Dir

SoloInv ==
  serial => \A p \in Procs: Sees(p, pr[p]) /\ (pr[p].pc # "idle" => Others(p))

TreeInv ==
  /\ serial \in BOOLEAN /\ mode \in {"plain", "sealed"}
  /\ HandlerInv /\ DiskInv /\ TempInv

Inv == TreeInv /\ PlainInv /\ SoloInv /\ PutsStay

LEMMA InvInit == Init => Inv
<1> SUFFICES ASSUME Init PROVE Inv
  OBVIOUS
<1> USE MarkAssumption, ModeAssumption, PathAssumption DEF Init
<1>1. Idle \in Process /\ Idle.pc = "idle"
  BY DEF Idle, Process, Nodes
<1>2. pr \in [Procs -> Process] /\ \A p \in Procs: pr[p].pc = "idle"
  BY <1>1
<1>3. HandlerInv /\ TempInv
  BY <1>2 DEF HandlerInv, Handlers, Shape, TempInv
<1>4. DiskInv
  BY DEF DiskInv, Hung, Nodes
<1>5. PlainInv /\ SoloInv
  BY <1>2 DEF PlainInv, SoloInv, Sees
<1>6. PutsStay
  BY DEF PutsStay, Stored
<1>7. serial \in BOOLEAN /\ mode \in {"plain", "sealed"}
  OBVIOUS
<1> QED BY <1>3, <1>4, <1>5, <1>6, <1>7 DEF Inv, TreeInv

(* Where a step of each handler leaves it *)
LEMMA PutEnds ==
  ASSUME NEW p \in Writers, Shape(p, pr[p]), PutEffect(p)
  PROVE  /\ Shape(p, pr'[p])
         /\ pr'[p].pc \in {"temp", "body", "rename", "done"}
         /\ MayBegin(p) \/ pr[p].pc # "idle"
         /\ pr'[p].pc \in {"body", "rename"} =>
              /\ Same /\ pr'[p].key = pr[p].key
              /\ (At(p, "temp") /\ ParentThere(pr[p].key)) \/ At(p, "body")
<1>1. CASE MayBegin(p) /\ \E k \in Keys, v \in Versions, pc \in {"temp", "done"}, st \in {0, 200, 500}:
             Becomes(p, Record(pc, k, None, None, v, None, st))
  BY <1>1 DEF Becomes, Record, Shape
<1>2. CASE /\ At(p, "temp") /\ ParentThere(pr[p].key)
           /\ Same /\ Becomes(p, With(p, "body", pr[p].status))
  BY <1>2 DEF Becomes, With, Record, At, Shape
<1>3. CASE At(p, "body") /\ Same /\ Becomes(p, With(p, "rename", pr[p].status))
  BY <1>3 DEF Becomes, With, Record, At, Shape
<1>4. CASE /\ pr[p].pc \in {"temp", "body", "rename"}
           /\ \E st \in {200, 500}: Becomes(p, With(p, "done", st))
  BY <1>4 DEF Becomes, With, Record, Shape
<1> QED BY <1>1, <1>2, <1>3, <1>4 DEF PutEffect, At

LEMMA ReadEnds ==
  ASSUME NEW p \in Readers, Shape(p, pr[p]), ReadEffect(p)
  PROVE  /\ Shape(p, pr'[p])
         /\ pr'[p].pc \in {"stat", "open", "md5", "done"}
         /\ MayBegin(p) \/ pr[p].pc # "idle"
<1>1. \E pc \in {"stat", "open", "md5", "done"}, key \in Keys:
        \E at, size, body, etag, st: Becomes(p, Record(pc, key, at, size, body, etag, st))
  BY DEF ReadEffect, With, Shape, At
<1>2. pr'[p].pc \in {"stat", "open", "md5", "done"} /\ pr'[p].key \in Keys
  BY <1>1 DEF Becomes, Record
<1>3. MayBegin(p) \/ pr[p].pc # "idle"
  BY DEF ReadEffect, At
<1> QED BY <1>2, <1>3 DEF Shape

LEMMA DeleteEnds ==
  ASSUME NEW p \in Deleters, Shape(p, pr[p]), DeleteEffect(p)
  PROVE  /\ Shape(p, pr'[p])
         /\ pr'[p].pc \in {"remove", "readDir", "rmdir", "done"}
         /\ MayBegin(p) \/ pr[p].pc # "idle"
         /\ pr'[p].pc = "rmdir" =>
              Same /\ At(p, "readDir") /\ pr'[p].at = pr[p].at /\ tree[pr[p].at] = Dir
         /\ pr'[p].pc = "readDir" =>
              \/ \E k \in Keys: Unseals(k)
              \/ At(p, "remove") /\ pr'[p].at = Parent[pr[p].key]
              \/ At(p, "rmdir") /\ pr'[p].at = Parent[pr[p].at]
<1> USE PathAssumption
<1>0. \A k \in Keys: k \in Paths
  OBVIOUS
<1>1. CASE MayBegin(p) /\ \E k \in Keys: Becomes(p, Record("remove", k, None, None, None, None, 0))
  BY <1>1 DEF Becomes, Record, Shape
<1>2. CASE /\ MayBegin(p)
           /\ \E k \in Keys: Unseals(k) /\ Becomes(p, Record("readDir", k, k, None, None, None, 0))
  BY <1>2 DEF Becomes, Record, Shape
<1>3. CASE At(p, "remove") /\ Becomes(p, Climbed(p, Parent[pr[p].key]))
  BY <1>3 DEF Becomes, Climbed, Record, At, Shape
<1>4. CASE /\ pr[p].pc \in {"remove", "readDir", "rmdir"}
           /\ \E st \in {204, 404}: Becomes(p, With(p, "done", st))
  BY <1>4 DEF Becomes, With, Record, Shape
<1>5. CASE /\ At(p, "readDir") /\ pr[p].at # Root /\ tree[pr[p].at] = Dir
           /\ Same /\ Becomes(p, With(p, "rmdir", pr[p].status))
  BY <1>5 DEF Becomes, With, Record, At, Shape
<1>6. CASE At(p, "rmdir") /\ Becomes(p, Climbed(p, Parent[pr[p].at]))
  BY <1>6 DEF Becomes, Climbed, Record, At, Shape
<1> QED BY <1>1, <1>2, <1>3, <1>4, <1>5, <1>6 DEF DeleteEffect, At

LEMMA Returned ==
  ASSUME NEW p \in Procs, At(p, "done"), Becomes(p, Idle)
  PROVE  pr'[p].pc = "idle" /\ pr[p].pc # "idle"
BY DEF At, Becomes, Idle

LEMMA ShapeStep ==
  ASSUME HandlerInv, NEW p \in Procs, Effect(p)
  PROVE  HandlerInv' /\ \A q \in Procs \ {p}: pr'[q] = pr[q]
<1> USE PathAssumption
<1>1. Shape(p, pr[p]) /\ \A k \in Keys: k \in Paths
  BY DEF HandlerInv
<1>2. CASE p \in Writers /\ PutEffect(p)
  <2>1. Handlers' /\ \A q \in Procs \ {p}: pr'[q] = pr[q]
    BY <1>2 DEF PutEffect, Becomes, Handlers
  <2>2. Shape(p, pr'[p])
    BY <1>1, <1>2, PutEnds
  <2> QED BY <2>1, <2>2 DEF HandlerInv, Shape
<1>3. CASE p \in Readers /\ ReadEffect(p)
  <2>1. Handlers' /\ \A q \in Procs \ {p}: pr'[q] = pr[q]
    BY <1>3 DEF ReadEffect, Becomes, Handlers
  <2>2. Shape(p, pr'[p])
    BY <1>1, <1>3, ReadEnds
  <2> QED BY <2>1, <2>2 DEF HandlerInv, Shape
<1>4. CASE p \in Deleters /\ DeleteEffect(p)
  <2>1. Handlers' /\ \A q \in Procs \ {p}: pr'[q] = pr[q]
    BY <1>4 DEF DeleteEffect, Becomes, Handlers
  <2>2. Shape(p, pr'[p])
    BY <1>1, <1>4, DeleteEnds
  <2> QED BY <2>1, <2>2 DEF HandlerInv, Shape
<1>5. CASE At(p, "done") /\ Same /\ Becomes(p, Idle)
  <2>1. Handlers' /\ (\A q \in Procs \ {p}: pr'[q] = pr[q]) /\ pr'[p].pc = "idle"
    BY <1>5 DEF Becomes, Handlers, Idle
  <2> QED BY <2>1 DEF HandlerInv, Shape
<1> QED BY <1>2, <1>3, <1>4, <1>5 DEF Effect

LEMMA EffectChanges ==
  ASSUME HandlerInv, TempInv, NEW p \in Procs, Effect(p)
  PROVE  Changes \/ (At(p, "rmdir") /\ pr[p].at \in Paths /\ Tidies(pr[p].at))
<1>1. Shape(p, pr[p])
  BY DEF HandlerInv
<1>2. CASE p \in Writers /\ PutEffect(p)
  BY <1>1, <1>2 DEF PutEffect, Changes, TempInv, Shape, At
<1>3. CASE p \in Readers /\ ReadEffect(p)
  BY <1>3 DEF ReadEffect, Changes
<1>4. CASE p \in Deleters /\ DeleteEffect(p)
  BY <1>1, <1>4 DEF DeleteEffect, Changes, Shape, At
<1>5. CASE At(p, "done") /\ Same /\ Becomes(p, Idle)
  BY <1>5 DEF Changes
<1> QED BY <1>2, <1>3, <1>4, <1>5 DEF Effect

LEMMA TempStep ==
  ASSUME TreeInv, NEW p \in Procs, Effect(p)
  PROVE  TempInv'
<1> USE PathAssumption
<1>1. /\ \A d \in Paths: tree[d] = Dir /\ HasTemp(d) => tree'[d] = Dir
  BY EffectChanges, DiskStep DEF TreeInv
<1>2. \A q \in Procs \ {p}: pr'[q] = pr[q]
  BY ShapeStep DEF TreeInv
<1> SUFFICES ASSUME NEW w \in Procs, pr'[w].pc \in {"body", "rename"}
             PROVE  ParentThere(pr[w].key)'
  BY DEF TempInv
<1>3. CASE w # p
  <2>1. pr'[w] = pr[w] /\ Shape(w, pr[w]) /\ ParentThere(pr[w].key) /\ pr[w].pc \in {"body", "rename"}
    BY <1>2, <1>3 DEF TreeInv, HandlerInv, TempInv
  <2>2. w \in Writers /\ pr[w].key \in Paths
    BY <2>1 DEF Shape
  <2>3. CASE Parent[pr[w].key] = Root
    BY <2>1, <2>3 DEF ParentThere
  <2>4. CASE Parent[pr[w].key] # Root
    <3>1. Parent[pr[w].key] \in Paths /\ tree[Parent[pr[w].key]] = Dir
      BY <2>1, <2>2, <2>4 DEF ParentThere
    <3>2. HasTemp(Parent[pr[w].key])
      BY <2>1, <2>2 DEF HasTemp
    <3> QED BY <1>1, <2>1, <3>1, <3>2 DEF ParentThere
  <2> QED BY <2>3, <2>4
<1>4. CASE w = p
  <2>1. p \in Writers /\ PutEffect(p)
    BY <1>4, ReadEnds, DeleteEnds, Returned DEF Effect, TreeInv, HandlerInv
  <2>2. Same /\ pr'[p].key = pr[p].key /\ ParentThere(pr[p].key)
    BY <1>4, <2>1, PutEnds DEF TreeInv, HandlerInv, TempInv, At
  <2> QED BY <1>4, <2>2 DEF Same, ParentThere
<1> QED BY <1>3, <1>4

LEMMA TreeStep ==
  ASSUME TreeInv, NEW p \in Procs, Effect(p), UNCHANGED setting
  PROVE  TreeInv'
<1>1. DiskInv'
  BY EffectChanges, DiskStep DEF TreeInv
<1>2. HandlerInv'
  BY ShapeStep DEF TreeInv
<1> QED BY <1>1, <1>2, TempStep DEF TreeInv, setting

LEMMA PlainStep ==
  ASSUME TreeInv, PlainInv, NEW p \in Procs, Effect(p), UNCHANGED setting
  PROVE  PlainInv'
<1> USE PathAssumption
<1> SUFFICES ASSUME ~serial PROVE PlainInv'
  BY DEF PlainInv, setting
<1>1. mode = "plain" /\ (\A k \in Keys: sealed[k] = None) /\ UNCHANGED <<mode, serial>>
  BY DEF PlainInv, setting
<1>2. UNCHANGED sealed
  BY <1>1 DEF Effect, PutEffect, ReadEffect, DeleteEffect, Same, Makes, Renames, Unseals,
              Deletes, Tidies
<1>3. ASSUME NEW q \in Procs, pr'[q].pc \in {"readDir", "rmdir"}
      PROVE  pr'[q].at = Root \/ HoldsKeys(pr'[q].at)
  <2>1. CASE q # p
    <3>1. pr'[q] = pr[q]
      BY <2>1, ShapeStep DEF TreeInv
    <3> QED BY <1>3, <3>1 DEF PlainInv
  <2>2. CASE q = p
    <3>1. p \in Deleters /\ DeleteEffect(p) /\ Shape(p, pr[p])
      BY <1>3, <2>2, PutEnds, ReadEnds, Returned DEF Effect, TreeInv, HandlerInv
    <3>2. CASE pr'[p].pc = "rmdir"
      <4>1. At(p, "readDir") /\ pr'[p].at = pr[p].at
        BY <3>1, <3>2, DeleteEnds
      <4> QED BY <2>2, <4>1 DEF PlainInv, At
    <3>3. CASE pr'[p].pc = "readDir"
      <4>2. \A k \in Keys: ~Unseals(k)
        BY <1>1 DEF Unseals
      <4>3. \E x \in Paths: pr'[p].at = Parent[x]
        BY <3>1, <3>3, <4>2, DeleteEnds DEF Shape, At
      <4> QED BY <2>2, <4>3 DEF HoldsKeys
    <3> QED BY <1>3, <2>2, <3>2, <3>3
  <2> QED BY <2>1, <2>2
<1> QED BY <1>1, <1>2, <1>3 DEF PlainInv

(* One client: the request under way is alone, and what it saw is still there. *)
LEMMA SeesRead ==
  ASSUME TreeInv, PutsStay, serial, NEW p \in Readers, Sees(p, pr[p]), ReadEffect(p)
  PROVE  Sees(p, pr[p])'
<1> USE MarkAssumption
<1>s. Same /\ p \in Procs
  BY DEF ReadEffect, Procs
<1>k. \A k \in Keys: Stored(k) = acked[k]
  BY DEF PutsStay
<1>h. Shape(p, pr[p])
  BY <1>s DEF TreeInv, HandlerInv
<1>1. ASSUME NEW k \in Keys, sealed[k] = None,
             Becomes(p, Record("stat", k, None, None, None, None, 0))
      PROVE  Sees(p, pr[p])'
  <2>1. pr'[p].pc = "stat" /\ pr'[p].key = k
    BY <1>1 DEF Becomes, Record
  <2> QED BY <1>s, <1>1, <2>1 DEF Sees, Same
<1>2. ASSUME NEW k \in Keys, sealed[k] # None,
             Becomes(p, Record("done", k, None, sealed[k], sealed[k], sealed[k], 200))
      PROVE  Sees(p, pr[p])'
  <2>1. /\ pr'[p].pc = "done" /\ pr'[p].key = k /\ pr'[p].size = sealed[k]
        /\ pr'[p].body = sealed[k] /\ pr'[p].etag = sealed[k] /\ pr'[p].status = 200
    BY <1>2 DEF Becomes, Record
  <2>2. acked[k] = sealed[k]
    BY <1>k, <1>2 DEF Stored
  <2> QED BY <1>s, <1>2, <2>1, <2>2 DEF Sees, Same, Answered
<1>3. CASE /\ pr[p].pc \in {"stat", "open", "md5"} /\ tree[pr[p].key] \in {None, Dir}
           /\ Becomes(p, With(p, "done", 404))
  <2>1. pr'[p].pc = "done" /\ pr'[p].key = pr[p].key /\ pr'[p].status = 404
    BY <1>3 DEF Becomes, With, Record
  <2>2. pr[p].key \in Keys /\ sealed[pr[p].key] = None
    BY <1>h, <1>3 DEF Shape, Sees
  <2>3. acked[pr[p].key] = None
    BY <1>k, <1>3, <2>2 DEF Stored
  <2> QED BY <1>s, <2>1, <2>3 DEF Sees, Same, Answered
<1>4. ASSUME At(p, "stat"), tree[pr[p].key] # None, NEW next \in {"open", "md5"},
             Becomes(p, Record(next, pr[p].key, pr[p].at, tree[pr[p].key], tree[pr[p].key],
                               pr[p].etag, pr[p].status))
      PROVE  Sees(p, pr[p])'
  <2>1. /\ pr'[p].pc = next /\ pr'[p].key = pr[p].key
        /\ pr'[p].size = tree[pr[p].key] /\ pr'[p].body = tree[pr[p].key]
    BY <1>4 DEF Becomes, Record
  <2>2. sealed[pr[p].key] = None
    BY <1>4 DEF Sees, At
  <2> QED BY <1>s, <1>4, <2>1, <2>2 DEF Sees, Same
<1>5. CASE /\ At(p, "open") /\ tree[pr[p].key] # None
           /\ Becomes(p, Record("md5", pr[p].key, pr[p].at, pr[p].size, tree[pr[p].key],
                                pr[p].etag, pr[p].status))
  <2>1. /\ pr'[p].pc = "md5" /\ pr'[p].key = pr[p].key
        /\ pr'[p].size = pr[p].size /\ pr'[p].body = tree[pr[p].key]
    BY <1>5 DEF Becomes, Record
  <2>2. sealed[pr[p].key] = None /\ pr[p].size = tree[pr[p].key]
    BY <1>5 DEF Sees, At
  <2> QED BY <1>s, <1>5, <2>1, <2>2 DEF Sees, Same
<1>6. CASE /\ At(p, "md5") /\ tree[pr[p].key] \notin {None, Dir}
           /\ Becomes(p, Record("done", pr[p].key, pr[p].at, pr[p].size, pr[p].body,
                                tree[pr[p].key], 200))
  <2>1. /\ pr'[p].pc = "done" /\ pr'[p].key = pr[p].key /\ pr'[p].size = pr[p].size
        /\ pr'[p].body = pr[p].body /\ pr'[p].etag = tree[pr[p].key] /\ pr'[p].status = 200
    BY <1>6 DEF Becomes, Record
  <2>2. /\ pr[p].key \in Keys /\ sealed[pr[p].key] = None
        /\ pr[p].size = tree[pr[p].key] /\ pr[p].body = tree[pr[p].key]
    BY <1>h, <1>6 DEF Shape, Sees, At
  <2>3. acked[pr[p].key] = tree[pr[p].key]
    BY <1>k, <1>6, <2>2 DEF Stored
  <2> QED BY <1>s, <1>6, <2>1, <2>2, <2>3 DEF Sees, Same, Answered
<1> QED BY <1>1, <1>2, <1>3, <1>4, <1>5, <1>6 DEF ReadEffect

LEMMA SoloStep ==
  ASSUME TreeInv, SoloInv, PutsStay, NEW p \in Procs, Effect(p), UNCHANGED setting
  PROVE  SoloInv'
<1> USE ReaderAssumption
<1> SUFFICES ASSUME serial PROVE SoloInv'
  BY DEF SoloInv, setting
<1>0. Shape(p, pr[p])
  BY DEF TreeInv, HandlerInv
<1>1. Sees(p, pr[p]) /\ \A q \in Procs: pr[q].pc # "idle" => Others(q)
  BY DEF SoloInv
<1>2. MayBegin(p) \/ pr[p].pc # "idle"
  BY <1>0, PutEnds, ReadEnds, DeleteEnds, Returned DEF Effect
<1>3. Others(p)
  BY <1>1, <1>2 DEF MayBegin, Others, At
<1>4. \A q \in Procs \ {p}: pr'[q] = pr[q] /\ pr[q].pc = "idle"
  BY <1>3, ShapeStep DEF TreeInv, Others
<1>5. Sees(p, pr[p])'
  <2>1. CASE p \in Writers /\ PutEffect(p)
    <3>1. pr'[p].pc \in {"temp", "body", "rename", "done"} /\ p \notin Readers
      BY <1>0, <2>1, PutEnds
    <3> QED BY <3>1 DEF Sees
  <2>2. CASE p \in Readers /\ ReadEffect(p)
    BY <1>1, <2>2, SeesRead
  <2>3. CASE p \in Deleters /\ DeleteEffect(p)
    <3>1. /\ pr'[p].pc \in {"remove", "readDir", "rmdir", "done"} /\ p \notin Readers
          /\ pr'[p].pc = "rmdir" => Same /\ pr'[p].at = pr[p].at /\ tree[pr[p].at] = Dir
      BY <1>0, <2>3, DeleteEnds
    <3> QED BY <3>1 DEF Sees, Same
  <2>4. CASE At(p, "done") /\ Same /\ Becomes(p, Idle)
    <3>1. pr'[p].pc = "idle"
      BY <2>4, Returned
    <3> QED BY <3>1 DEF Sees
  <2> QED BY <2>1, <2>2, <2>3, <2>4 DEF Effect
<1>6. \A q \in Procs \ {p}: Sees(q, pr[q])'
  BY <1>4 DEF Sees
<1>7. Others(p)'
  BY <1>4 DEF Others
<1> QED BY <1>4, <1>5, <1>6, <1>7 DEF SoloInv

LEMMA StayStep ==
  ASSUME TreeInv, PlainInv, SoloInv, PutsStay, NEW p \in Procs, Effect(p), UNCHANGED setting
  PROVE  PutsStay'
<1> USE PathAssumption
<1> SUFFICES ASSUME NEW j \in Keys, serial \/ ~HoldsKeys(j) PROVE Stored(j)' = acked'[j]
  BY DEF PutsStay, HoldsKeys, setting
<1>1. Stored(j) = acked[j] /\ DiskInv
  BY DEF PutsStay, TreeInv
<1>2. CASE Changes
  BY <1>1, <1>2, StoredKept
<1>3. CASE At(p, "rmdir") /\ pr[p].at \in Paths /\ Tidies(pr[p].at)
  <2>1. pr[p].at = j => tree[pr[p].at] = Dir
    BY <1>3 DEF SoloInv, Sees, PlainInv, At, TreeInv
  <2> QED BY <1>1, <1>3, <2>1, StoredKept
<1> QED BY <1>2, <1>3, EffectChanges DEF TreeInv

LEMMA InvNext == Inv /\ [Next]_vars => Inv'
<1> SUFFICES ASSUME Inv, [Next]_vars PROVE Inv'
  OBVIOUS
<1>1. CASE UNCHANGED <<serial, tree, sealed, acked, pr>> /\ (mode' = mode \/ Restart)
  <2>1. mode' \in {"plain", "sealed"} /\ (~serial => mode' = mode)
    BY <1>1, ModeAssumption DEF Inv, TreeInv, Restart
  <2>2. DiskInv' /\ HandlerInv' /\ TempInv'
    BY <1>1 DEF Inv, TreeInv, DiskInv, Hung, HandlerInv, Handlers, Shape, TempInv, ParentThere
  <2>3. PlainInv'
    BY <1>1, <2>1 DEF Inv, PlainInv
  <2>4. SoloInv'
    BY <1>1 DEF Inv, SoloInv, Sees, Answered, Others
  <2>5. PutsStay'
    BY <1>1 DEF Inv, PutsStay, Stored
  <2> QED BY <1>1, <2>1, <2>2, <2>3, <2>4, <2>5 DEF Inv, TreeInv
<1>2. ASSUME NEW p \in Procs, Step(p) PROVE Inv'
  <2>1. Effect(p) /\ UNCHANGED setting
    BY <1>2, Effects DEF Inv, TreeInv
  <2> QED BY <2>1, TreeStep, PlainStep, SoloStep, StayStep DEF Inv
<1> QED BY <1>1, <1>2 DEF Next, Restart, vars, disk

---------------------------------------------------------------------------
(* The theorems *)

LEMMA Invariant == Spec => []Inv
BY InvInit, InvNext, PTL DEF Spec

(* Type correctness: each path is used inside a directory only, a sealed object *)
(* is in a directory, and a handler's steps are those of its kind of request.  *)
THEOREM PlainTypeCorrect == Spec => []TypeOK
<1>1. Inv => TypeOK
  BY DEF Inv, TreeInv, HandlerInv, Handlers, DiskInv, TypeOK
<1> QED BY <1>1, Invariant, PTL

(* A temp file's directory is there until LocalFS renames the temp file or      *)
(* gives it up: removeEmptyParents never takes it away from a PUT under way.   *)
THEOREM TempsStayInPlace == Spec => []TempInv
<1>1. Inv => TempInv
  BY DEF Inv, TreeInv
<1> QED BY <1>1, Invariant, PTL

(* What a PUT left stays until a PUT or DELETE of the same key, through the     *)
(* tidying up of the parents of other keys, failed requests and restarts; many  *)
(* clients at once may lose only a key that is a directory of other keys, when  *)
(* removeEmptyParents takes by name the file that replaced the directory.      *)
THEOREM PutsStayThere == Spec => []PutsStay
<1>1. Inv => PutsStay
  BY DEF Inv
<1> QED BY <1>1, Invariant, PTL

(* One client's GET or HEAD answers with the size, the body and the ETag of the *)
(* last PUT, or 404, whichever way each object was stored.                     *)
THEOREM ReadsMatch == Spec => []ReadsMatchAcks
<1>1. Inv => ReadsMatchAcks
  <2> SUFFICES ASSUME Inv, serial, NEW p \in Readers, At(p, "done")
               PROVE  Answered(pr[p])
    BY DEF ReadsMatchAcks, Answered
  <2> QED BY DEF Inv, SoloInv, Sees, At, Procs
<1> QED BY <1>1, Invariant, PTL
=============================================================================
