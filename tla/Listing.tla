------------------------------ MODULE Listing ------------------------------
(***************************************************************************)
(* ListObjectsV2: a client that lists a bucket page by page with the        *)
(* continuation tokens it is given (handleListObjectsV2 over LocalFS.List), *)
(* while other clients put and delete objects between, and under, the       *)
(* pages.  What List finds is translated from its walk of the directory     *)
(* tree: a plain object is a file at its key, a sealed object is a directory*)
(* at its key, and PUTs put their temp files, and leave directories, among  *)
(* them.  A page is one step, but for the file that goes away under it.     *)
(*                                                                          *)
(* A key is a sequence of characters, and characters are numbers in the     *)
(* order of their bytes; the delimiter is one character or absent.          *)
(***************************************************************************)
EXTENDS Integers, Sequences, FiniteSets, SequencesExt, FiniteSetsExt

CONSTANTS Keys,     \* the keys clients use
          Slash, Dot, \* the characters "/" and "."
          TempNames,  \* the names os.CreateTemp may give to the file of a PUT
          PrefixArgs, \* values of the parameter prefix
          Delims,   \* values of the parameter delimiter, <<>> or one character
          Starts,   \* values of the parameter start-after
          Sizes,    \* values of the parameter max-keys
          MaxLeft,  \* bound on the temp files and failed PUTs of the start
          MaxChurn  \* bound on the changes of a behavior

(* What filepath.Clean changes in a key: elements that are empty or dots     *)
Elements(k) ==
  LET edges == {0, Len(k) + 1} \cup {i \in 1..Len(k): k[i] = Slash}
      next(i) == Min({j \in edges: j > i})
  IN  {SubSeq(k, i + 1, next(i) - 1): i \in edges \ {Len(k) + 1}}

(* A request without a key is a request for the bucket.  Keys are clean, and *)
(* none is the name of a temp file; those named object.meta or data.ss1, and *)
(* those under .multipart/, which the walk takes for its own, are left out.  *)
ASSUME KeyAssumption ==
  /\ Keys \subseteq Seq(Nat) \ {<<>>} /\ Slash \in Nat
  /\ \A k \in Keys: Elements(k) \cap {<<>>, <<Dot>>, <<Dot, Dot>>} = {}
ASSUME TempAssumption ==
  /\ TempNames \subseteq Seq(Nat) \ {<<>>}
  /\ \A k \in Keys: Elements(k) \cap TempNames = {}
ASSUME RequestAssumption ==
  /\ PrefixArgs \cup Delims \cup Starts \subseteq Seq(Nat)
  /\ \A d \in Delims: Len(d) <= 1
  /\ Sizes \subseteq Nat \ {0}
ASSUME BoundAssumption == MaxLeft \in Nat /\ MaxChurn \in Nat

VARIABLES sealed,  \* are the objects sealed
          files,   \* the keys that have an object
          temps,   \* the temp files in the tree, of PUTs under way or killed
          dirs,    \* the directories in the tree
          puts,    \* the PUTs under way: the key and the temp file of each
          req,     \* the parameters of the listing
          token,   \* continuation token, start-after at first
          got,     \* the keys and common prefixes listed so far
          state,   \* "more" pages, or "ended", or "broken" off
          stable,  \* history: the keys there ever since the listing began
          churn    \* how many changes there were

tree == <<sealed, files, temps, dirs, puts>>
listing == <<req, token, got, state>>
vars == <<tree, listing, stable, churn>>

---------------------------------------------------------------------------
(* Go's order of strings *)
Less(s, t) ==
  \/ IsStrictPrefix(s, t)
  \/ \E i \in 1..Len(s):
       /\ i <= Len(t) /\ s[i] < t[i]
       /\ \A j \in 1..i-1: s[j] = t[j]

Drop(s, n) == SubSeq(s, n + 1, Len(s))

(* strings.Index(strings.TrimPrefix(s, prefix), delimiter) >= 0 *)
RollsUp(s) ==
  /\ req.delim # <<>>
  /\ Contains(Drop(s, Len(req.prefix)), req.delim[1])

(* Variant: prefix + part[:idx] *)
CommonPrefixShort(s) ==
  LET n == Len(req.prefix)
      i == CHOOSE i \in n+1..Len(s):
             s[i] = req.delim[1] /\ \A j \in n+1..i-1: s[j] # req.delim[1]
  IN  SubSeq(s, 1, i - 1)

(* prefix + part[:idx+len(delimiter)] *)
CommonPrefix(s) ==
  LET n == Len(req.prefix)
      i == CHOOSE i \in n+1..Len(s):
             s[i] = req.delim[1] /\ \A j \in n+1..i-1: s[j] # req.delim[1]
  IN  SubSeq(s, 1, i)

Matches(s) == IsPrefix(req.prefix, s)

(* Variant: the continuation token itself is listed again *)
AfterOrAt(s) == token = <<>> \/ ~Less(s, token)

After(s) == token = <<>> \/ Less(token, s)

(* The directories above a file, with a trailing slash: a sealed object is a *)
(* file in the directory of its key.                                        *)
Above(s) == {SubSeq(s, 1, i): i \in {j \in 1..Len(s): s[j] = Slash}}
DirsOf(s) == Above(IF sealed /\ s \in Keys THEN Append(s, Slash) ELSE s)

(* A directory that is a common prefix, or lies below one, is not entered. *)
Consumed(d) == Matches(d) /\ RollsUp(d)
Visited(s) == \A d \in DirsOf(s): ~Consumed(d)

(* List knows a file of an object from a temp file by nothing. *)
Entries == files \cup temps
FoundKeys == {s \in Entries: Visited(s) /\ Matches(s) /\ ~RollsUp(s) /\ After(s)}

FoundPrefixes ==
  {p \in {CommonPrefix(d): d \in {d \in dirs: Consumed(d)}}
      \cup {CommonPrefix(s): s \in {s \in Entries: Visited(s) /\ Matches(s) /\ RollsUp(s)}}:
     After(p)}

Found == FoundKeys \cup FoundPrefixes

(* sort.Strings, and the first maxKeys of the keys and prefixes together *)
Page ==
  LET all == Found
  IN  {s \in all: Cardinality({t \in all: Less(t, s)}) < req.max}

IsTruncated == Cardinality(Found) > req.max

(* Variant: the token is the first item that did not fit *)
NextTokenExcluded ==
  LET rest == Found \ Page IN CHOOSE s \in rest: \A t \in rest: ~Less(t, s)

(* The greater of the last key and the last prefix of the page *)
NextToken == LET page == Page IN CHOOSE s \in page: \A t \in page: ~Less(s, t)

---------------------------------------------------------------------------
(* The temp files that CreateTemp may make below a chain of directories, in   *)
(* the deepest, and those of a PUT of the key, in the directory of its file  *)
TempsBelow(D) ==
  LET deepest == {d \in D \cup {<<>>}: \A e \in D: Len(e) <= Len(d)}
  IN  {d \o n: d \in deepest, n \in TempNames}

TempsOf(k) == TempsBelow(DirsOf(k))

(* A plain object cannot lie where a directory is. *)
Apart(F, D) == sealed \/ \A f \in F: Append(f, Slash) \notin D

UpTo(n, S) == {T \in SUBSET S: IsFiniteSet(T) /\ Cardinality(T) <= n}

(* Earlier PUTs may have failed, under keys of which only directories are    *)
(* left, been killed, with a temp file left, or be under way.                *)
Init ==
  /\ sealed \in BOOLEAN
  /\ files \in SUBSET Keys /\ IsFiniteSet(files)
  /\ temps \in UpTo(MaxLeft, UNION {TempsOf(k): k \in Keys})
  /\ \E failed \in UpTo(MaxLeft - Cardinality(temps), Keys):
       dirs = UNION {DirsOf(s): s \in files \cup temps \cup failed}
  /\ Apart(files, dirs)
  /\ puts \in SUBSET {p \in Keys \X temps: p[2] \in TempsOf(p[1])}
  /\ \A p, q \in puts: p[2] = q[2] => p = q
  /\ req \in [prefix: PrefixArgs, delim: Delims, start: Starts, max: Sizes]
  /\ token = req.start
  /\ got = {} /\ state = "more"
  /\ stable = files /\ churn = 0

(* One request of the client *)
ListPage ==
  /\ state = "more"
  /\ got' = got \cup Page
  /\ state' = IF IsTruncated THEN "more" ELSE "ended"
  /\ token' = IF IsTruncated THEN NextToken ELSE token
  /\ UNCHANGED <<tree, req, stable, churn>>

(* Other clients change the tree while the listing is under way. *)
Churn ==
  /\ state = "more" /\ churn < MaxChurn /\ churn' = churn + 1
  /\ UNCHANGED <<sealed, req, token, got>>

(* A file that List opens goes away after the walk read its directory: "no   *)
(* such file" ends the walk, and List answers with nothing, not truncated    *)
(* and without an error.  A sealed object whose manifest is gone is skipped. *)
MayBreak(s) ==
  LET opened == s \in FoundKeys /\ (s \in temps \/ ~sealed)
  IN  state' \in {"more"} \cup IF opened THEN {"broken"} ELSE {}

(* MkdirAll, and CreateTemp under a name that is free *)
PutBegin ==
  /\ Churn
  /\ \E k \in Keys: \E t \in TempsOf(k) \ (temps \cup {p[2]: p \in puts}):
       /\ Apart(files, DirsOf(t)) /\ dirs' = dirs \cup DirsOf(t)
       /\ temps' = temps \cup {t} /\ puts' = puts \cup {<<k, t>>}
  /\ UNCHANGED <<files, state, stable>>

(* The temp file becomes the object, unless a directory lies there or a      *)
(* client deleted the temp file under its listed name.                      *)
PutEnd(p) ==
  /\ Churn
  /\ p[2] \in temps /\ Apart({p[1]}, dirs)
  /\ files' = files \cup {p[1]}
  /\ temps' = temps \ {p[2]} /\ puts' = puts \ {p}
  /\ MayBreak(p[2])
  /\ UNCHANGED <<dirs, stable>>

(* The body is refused or cut short: the temp file is removed, and the       *)
(* directories stay.                                                        *)
PutFails(p) ==
  /\ Churn
  /\ temps' = temps \ {p[2]} /\ puts' = puts \ {p}
  /\ MayBreak(p[2])
  /\ UNCHANGED <<files, dirs, stable>>

(* removeEmptyParents: the directories at and above s with nothing else below*)
Emptied(s) ==
  {d \in Above(Append(s, Slash)):
     /\ \A f \in Entries \ {s}: d \notin DirsOf(f)
     /\ \A e \in dirs \ Above(Append(s, Slash)): ~IsPrefix(d, e)}

(* DELETE of an object, or of what else lies under a key: a temp file or an  *)
(* empty directory                                                          *)
DeleteKey(s) ==
  /\ Churn
  /\ s \in Entries \/ Append(s, Slash) \in Emptied(s)
  /\ files' = files \ {s} /\ temps' = temps \ {s}
  /\ dirs' = dirs \ Emptied(s)
  /\ stable' = stable \ {s}
  /\ MayBreak(s)
  /\ UNCHANGED puts

(* The client has its listing. *)
Finished == state # "more" /\ UNCHANGED vars

Next ==
  \/ ListPage
  \/ PutBegin
  \/ \E p \in puts: PutEnd(p) \/ PutFails(p)
  \/ \E s \in Entries \cup {Front(d): d \in dirs}: DeleteKey(s)
  \/ Finished

Spec == Init /\ [][Next]_vars

(* The client goes on asking for the next page. *)
FairSpec == Spec /\ WF_vars(ListPage)

---------------------------------------------------------------------------
(* Properties *)

(* What S3 lists for a key: the key, or the common prefix it rolls up to. *)
Entry(k) ==
  LET cuts == {i \in Len(req.prefix)+1..Len(k): req.delim = <<k[i]>>}
  IN  IF cuts = {} THEN k ELSE SubSeq(k, 1, Min(cuts))

(* Sealed objects are directories, and the delimiter "/" rolls them up. *)
AsPrefixes == sealed /\ req.delim = <<Slash>>

(* The pages together are one sorted list without repetition: what the next  *)
(* page has to offer lies behind everything listed before, whether the token *)
(* is a key or a common prefix, and whatever is put and deleted in between.  *)
PagesInOrder ==
  state = "more" => \A g \in got, e \in Page: Less(g, e)

(* A key that was there during the whole listing is listed, as itself or by  *)
(* its common prefix, whatever else is put and deleted and however the pages *)
(* are cut.  The exceptions the code makes: a walk that is broken off when a *)
(* file it listed goes away (of a plain object that is deleted, of a PUT that*)
(* ends or fails), and sealed objects under the delimiter "/".               *)
StableKeysListed ==
  state = "ended" /\ ~AsPrefixes => \A k \in stable:
    Matches(k) /\ (req.start = <<>> \/ Less(req.start, Entry(k)))
      => Entry(k) \in got

(* What is listed that stands for no key: temp files, and directories with a *)
(* common prefix that are left of failed PUTs                                *)
Leavings == temps \cup {d \in dirs: Consumed(d) /\ \A k \in files: d \notin DirsOf(k)}

(* Without puts and deletes the listing is what S3 promises, the keys and    *)
(* the common prefixes of keys asked for, and those of the leavings of PUTs: *)
(* nothing else.                                                             *)
ListingExact ==
  state = "ended" /\ churn = 0 /\ ~AsPrefixes =>
    got = {e \in {Entry(s): s \in {s \in files \cup Leavings: Matches(s)}}:
                    req.start = <<>> \/ Less(req.start, e)}

(* Every listing comes to an end. *)
ListingEnds == <>(state # "more")
=============================================================================
