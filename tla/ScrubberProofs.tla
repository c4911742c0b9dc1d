--------------------------- MODULE ScrubberProofs ---------------------------
(***************************************************************************)
(* What is proved of Scrubber, for any number of keys, of requests and of   *)
(* verifying goroutines and any capacity of the channels.  The inductive    *)
(* invariants:                                                              *)
(*   ShapeInv   what the variables may hold at each point of a pass          *)
(*   CountInv   errors against scanned objects                              *)
(*   LoopInv    the loop goroutine against its pass                         *)
(*   OnceInv    where a key is: unvisited, queued or verified, never twice   *)
(*   FoundInv   what a pass has found of the objects that did not change     *)
(***************************************************************************)
EXTENDS Scrubber, FiniteSetTheorems, SequenceTheorems, WellFoundedInduction, TLAPS

PassRec == [pc: {"off", "run", "ended"}, cancelled: BOOLEAN,
            walk: {"read", "visit", "send", "closed"},
            names: SUBSET Key, jobs: Seq(Key), err: BOOLEAN]
VerifierRec == [pc: {"idle", "check", "enqueue", "count", "exited"},
                key: Key \cup {None}, stale: BOOLEAN]
SeenRec == [steady: SUBSET Key, verified: [Key -> Nat], failed: SUBSET Key, asked: SUBSET Key]

(* A pass that is off has everything yet to do; a verifier that left saw the  *)
(* channel closed and empty.                                                 *)
Shape(p) ==
  /\ pass[p].pc = "off" => pass[p] = NoPass /\ vf[p] = [v \in Verifiers |-> Waiting]
                                            /\ seen[p] = Nothing
  /\ pass[p].walk = "read" => pass[p].jobs = <<>>
  /\ pass[p].walk = "send" => pass[p].names # {}
  /\ \A v \in Verifiers:
       /\ vf[p][v].pc \in {"check", "enqueue"} => vf[p][v].key \in Key
       /\ vf[p][v].pc = "exited" => pass[p].walk = "closed" /\ pass[p].jobs = <<>>
       /\ pass[p].pc = "ended" => vf[p][v].pc = "exited"

ShapeInv == TypeOK /\ \A p \in Passes: Shape(p)

---------------------------------------------------------------------------
(* The next entry of a directory that has one left *)
LEMMA NextNameIn ==
  ASSUME NEW p, pass[p].names \subseteq Key, pass[p].names # {}
  PROVE  NextName(p) \in pass[p].names
<1>1. pass[p].names \subseteq Nat
  BY BoundsAssumption DEF Key
<1>2. PICK x \in pass[p].names: \A y \in pass[p].names: ~(<<y, x>> \in OpToRel(<, Nat))
  BY <1>1, NatLessThanWellFounded, WFMin
<1>3. \A y \in pass[p].names: ~(y < x)
  BY <1>1, <1>2 DEF OpToRel
<1>4. \A y \in pass[p].names: x =< y
  BY <1>1, <1>3
<1>5. QED
  BY <1>4 DEF NextName, Min

LEMMA KeyFinite == IsFiniteSet(Passes \X Verifiers)
BY BoundsAssumption, FS_AddElement, FS_Product DEF Passes

---------------------------------------------------------------------------
(* What a step changes *)

Apart(p) ==
  \A q \in Passes \ {p}: pass'[q] = pass[q] /\ vf'[q] = vf[q] /\ seen'[q] = seen[q]

WalkEffect(p) ==
  LET r == pass[p]  e == pass'[p]  k == NextName(p) IN
  /\ UNCHANGED <<obj, vf, life, repairs, queue, stats, seen>> /\ Apart(p)
  /\ r.pc = "run" /\ e.pc = "run" /\ e.cancelled = r.cancelled
  /\ \/ /\ r.walk = "read" /\ e.walk = "visit"
        /\ e.names = {j \in Key: obj[j] # "absent"} /\ e.jobs = r.jobs /\ e.err = r.err
     \/ /\ r.walk = "visit" /\ e.walk = "closed" /\ r.names = {}
        /\ e.names = r.names /\ e.jobs = r.jobs /\ e.err = r.err
     \/ /\ r.walk = "visit" /\ e.walk = "visit" /\ k \in r.names
        /\ e.names = r.names \ {k} /\ e.jobs = r.jobs
        /\ (obj[k] = "absent" /\ e.err) \/ (obj[k] = "dir" /\ e.err = r.err)
     \/ /\ r.walk = "visit" /\ e.walk = "send" /\ r.names # {}
        /\ e.names = r.names /\ e.jobs = r.jobs /\ e.err = r.err
     \/ /\ r.walk = "send" /\ e.walk = "visit" /\ k \in r.names /\ Len(r.jobs) < JobCap
        /\ e.names = r.names \ {k} /\ e.jobs = Append(r.jobs, k) /\ e.err = r.err
     \/ /\ r.walk = "send" /\ e.walk = "closed" /\ r.cancelled
        /\ e.names = r.names /\ e.jobs = r.jobs /\ e.err = r.err

LEMMA PassUpdate ==
  ASSUME TypeOK, NEW p \in Passes, NEW e \in PassRec, Len(e.jobs) <= JobCap,
         pass' = [pass EXCEPT ![p] = e]
  PROVE  /\ pass' \in [Passes -> PassRec] /\ pass'[p] = e
         /\ \A q \in Passes: Len(pass'[q].jobs) <= JobCap
         /\ \A q \in Passes \ {p}: pass'[q] = pass[q]
BY DEF TypeOK, PassRec

LEMMA SetWalk ==
  ASSUME NEW r \in PassRec, NEW w \in {"read", "visit", "send", "closed"}
  PROVE  LET e == [r EXCEPT !.walk = w] IN
         /\ e \in PassRec /\ e.walk = w /\ e.pc = r.pc /\ e.cancelled = r.cancelled
         /\ e.names = r.names /\ e.jobs = r.jobs /\ e.err = r.err
BY DEF PassRec

LEMMA SetNames ==
  ASSUME NEW r \in PassRec, NEW S \in SUBSET Key
  PROVE  LET e == [r EXCEPT !.names = S] IN
         /\ e \in PassRec /\ e.names = S /\ e.pc = r.pc /\ e.cancelled = r.cancelled
         /\ e.walk = r.walk /\ e.jobs = r.jobs /\ e.err = r.err
BY DEF PassRec

LEMMA SetJobs ==
  ASSUME NEW r \in PassRec, NEW s \in Seq(Key)
  PROVE  LET e == [r EXCEPT !.jobs = s] IN
         /\ e \in PassRec /\ e.jobs = s /\ e.pc = r.pc /\ e.cancelled = r.cancelled
         /\ e.walk = r.walk /\ e.names = r.names /\ e.err = r.err
BY DEF PassRec

LEMMA SetErr ==
  ASSUME NEW r \in PassRec
  PROVE  LET e == [r EXCEPT !.err = TRUE] IN
         /\ e \in PassRec /\ e.err /\ e.pc = r.pc /\ e.cancelled = r.cancelled
         /\ e.walk = r.walk /\ e.names = r.names /\ e.jobs = r.jobs
BY DEF PassRec

LEMMA WalkEffects ==
  ASSUME ShapeInv, NEW p \in Passes, Walk(p)
  PROVE  WalkEffect(p) /\ pass' \in [Passes -> PassRec]
                       /\ \A q \in Passes: Len(pass'[q].jobs) <= JobCap
<1> DEFINE r == pass[p]
           k == NextName(p)
<1>1. /\ TypeOK /\ r \in PassRec /\ r.jobs \in Seq(Key) /\ Len(r.jobs) <= JobCap
      /\ r.names \subseteq Key /\ JobCap \in Nat
      /\ r.walk = "send" => r.names # {}
  BY BoundsAssumption DEF ShapeInv, Shape, TypeOK, PassRec
<1>2. r.names # {} => k \in r.names /\ k \in Key
  BY <1>1, NextNameIn
<1> HIDE DEF k
<1>3. CASE WalkRead(p)
  <2> DEFINE S == {j \in Key: obj[j] # "absent"}
             e1 == [r EXCEPT !.walk = "visit"]
  <2> HIDE DEF S
  <2>1. /\ e1 \in PassRec /\ e1.walk = "visit" /\ e1.pc = r.pc /\ e1.cancelled = r.cancelled
        /\ e1.jobs = r.jobs /\ e1.err = r.err
    BY <1>1, SetWalk
  <2> DEFINE e == [e1 EXCEPT !.names = S]
  <2>2. pass' = [pass EXCEPT ![p] = e]
    BY <1>3 DEF WalkRead, S
  <2> HIDE DEF e1
  <2>3. S \subseteq Key
    BY DEF S
  <2>4. /\ e \in PassRec /\ e.names = S /\ e.pc = r.pc /\ e.cancelled = r.cancelled
        /\ e.walk = "visit" /\ e.jobs = r.jobs /\ e.err = r.err
    BY <2>1, <2>3, SetNames
  <2> HIDE DEF e
  <2>5. /\ pass' \in [Passes -> PassRec] /\ pass'[p] = e
        /\ \A q \in Passes: Len(pass'[q].jobs) <= JobCap
        /\ \A q \in Passes \ {p}: pass'[q] = pass[q]
    BY <1>1, <2>2, <2>4, PassUpdate
  <2>6. QED
    BY <1>3, <2>4, <2>5 DEF WalkRead, Walking, WalkOnly, WalkEffect, Apart, S
<1>4. CASE WalkVisit(p) /\ r.names = {}
  <2> DEFINE e == [r EXCEPT !.walk = "closed"]
  <2>1. pass' = [pass EXCEPT ![p] = e]
    BY <1>4 DEF WalkVisit
  <2>2. /\ e \in PassRec /\ e.walk = "closed" /\ e.pc = r.pc /\ e.cancelled = r.cancelled
        /\ e.names = r.names /\ e.jobs = r.jobs /\ e.err = r.err
    BY <1>1, SetWalk
  <2> HIDE DEF e
  <2>3. /\ pass' \in [Passes -> PassRec] /\ pass'[p] = e
        /\ \A q \in Passes: Len(pass'[q].jobs) <= JobCap
        /\ \A q \in Passes \ {p}: pass'[q] = pass[q]
    BY <1>1, <2>1, <2>2, PassUpdate
  <2>4. QED
    BY <1>4, <2>2, <2>3 DEF WalkVisit, Walking, WalkOnly, WalkEffect, Apart
<1>5. CASE WalkVisit(p) /\ r.names # {} /\ obj[k] \in {"absent", "dir"}
  <2> DEFINE S == r.names \ {k}
             e1 == IF obj[k] = "absent" THEN [r EXCEPT !.err = TRUE] ELSE r
             e == [e1 EXCEPT !.names = S]
  <2>1. /\ e1 \in PassRec /\ e1.walk = r.walk /\ e1.pc = r.pc /\ e1.cancelled = r.cancelled
        /\ e1.names = r.names /\ e1.jobs = r.jobs
        /\ e1.err = IF obj[k] = "absent" THEN TRUE ELSE r.err
    BY <1>1, SetErr
  <2>2. pass' = [pass EXCEPT ![p] = e]
    <3>1. CASE obj[k] = "absent"
      <4>1. pass' = [pass EXCEPT ![p] = [[r EXCEPT !.err = TRUE] EXCEPT !.names = S]]
        BY <1>5, <3>1, <2>1, SetErr, <1>1 DEF WalkVisit, k
      <4>2. QED
        BY <3>1, <4>1
    <3>2. CASE obj[k] = "dir"
      BY <1>5, <3>2 DEF WalkVisit, k
    <3>3. QED
      BY <1>5, <3>1, <3>2
  <2> HIDE DEF e1
  <2>3. S \subseteq Key
    BY <1>1
  <2> HIDE DEF S
  <2>4. /\ e \in PassRec /\ e.names = S /\ e.pc = r.pc /\ e.cancelled = r.cancelled
        /\ e.walk = r.walk /\ e.jobs = r.jobs /\ e.err = e1.err
    BY <2>1, <2>3, SetNames
  <2> HIDE DEF e
  <2>5. /\ pass' \in [Passes -> PassRec] /\ pass'[p] = e
        /\ \A q \in Passes: Len(pass'[q].jobs) <= JobCap
        /\ \A q \in Passes \ {p}: pass'[q] = pass[q]
    BY <1>1, <2>2, <2>4, PassUpdate
  <2>6. QED
    BY <1>2, <1>5, <2>1, <2>4, <2>5 DEF WalkVisit, Walking, WalkOnly, WalkEffect, Apart, S, k
<1>6. CASE WalkVisit(p) /\ r.names # {} /\ obj[k] \notin {"absent", "dir"}
  <2> DEFINE e == [r EXCEPT !.walk = "send"]
  <2>1. pass' = [pass EXCEPT ![p] = e]
    BY <1>6 DEF WalkVisit, k
  <2>2. /\ e \in PassRec /\ e.walk = "send" /\ e.pc = r.pc /\ e.cancelled = r.cancelled
        /\ e.names = r.names /\ e.jobs = r.jobs /\ e.err = r.err
    BY <1>1, SetWalk
  <2> HIDE DEF e
  <2>3. /\ pass' \in [Passes -> PassRec] /\ pass'[p] = e
        /\ \A q \in Passes: Len(pass'[q].jobs) <= JobCap
        /\ \A q \in Passes \ {p}: pass'[q] = pass[q]
    BY <1>1, <2>1, <2>2, PassUpdate
  <2>4. QED
    BY <1>6, <2>2, <2>3 DEF WalkVisit, Walking, WalkOnly, WalkEffect, Apart
<1>7. CASE WalkSend(p)
  <2> DEFINE S == r.names \ {k}
             s == Append(r.jobs, k)
             e1 == [r EXCEPT !.walk = "visit"]
  <2>1. S \subseteq Key /\ s \in Seq(Key) /\ Len(s) <= JobCap
    BY <1>1, <1>2, <1>7 DEF WalkSend, Walking
  <2> HIDE DEF S, s
  <2>2. /\ e1 \in PassRec /\ e1.walk = "visit" /\ e1.pc = r.pc /\ e1.cancelled = r.cancelled
        /\ e1.names = r.names /\ e1.jobs = r.jobs /\ e1.err = r.err
    BY <1>1, SetWalk
  <2> DEFINE e2 == [e1 EXCEPT !.names = S]
  <2> DEFINE e == [e2 EXCEPT !.jobs = s]
  <2>3. pass' = [pass EXCEPT ![p] = e]
    BY <1>7 DEF WalkSend, S, s, k
  <2> HIDE DEF e1
  <2>4. /\ e2 \in PassRec /\ e2.names = S /\ e2.pc = r.pc /\ e2.cancelled = r.cancelled
        /\ e2.walk = "visit" /\ e2.jobs = r.jobs /\ e2.err = r.err
    BY <2>1, <2>2, SetNames
  <2> HIDE DEF e2
  <2>5. /\ e \in PassRec /\ e.jobs = s /\ e.pc = r.pc /\ e.cancelled = r.cancelled
        /\ e.walk = "visit" /\ e.names = S /\ e.err = r.err
    BY <2>1, <2>4, SetJobs
  <2> HIDE DEF e
  <2>6. /\ pass' \in [Passes -> PassRec] /\ pass'[p] = e
        /\ \A q \in Passes: Len(pass'[q].jobs) <= JobCap
        /\ \A q \in Passes \ {p}: pass'[q] = pass[q]
    BY <1>1, <2>1, <2>3, <2>5, PassUpdate
  <2>7. QED
    BY <1>1, <1>2, <1>7, <2>5, <2>6 DEF WalkSend, Walking, WalkOnly, WalkEffect, Apart, S, s, k
<1>8. CASE WalkStop(p)
  <2> DEFINE e == [r EXCEPT !.walk = "closed"]
  <2>1. pass' = [pass EXCEPT ![p] = e]
    BY <1>8 DEF WalkStop
  <2>2. /\ e \in PassRec /\ e.walk = "closed" /\ e.pc = r.pc /\ e.cancelled = r.cancelled
        /\ e.names = r.names /\ e.jobs = r.jobs /\ e.err = r.err
    BY <1>1, SetWalk
  <2> HIDE DEF e
  <2>3. /\ pass' \in [Passes -> PassRec] /\ pass'[p] = e
        /\ \A q \in Passes: Len(pass'[q].jobs) <= JobCap
        /\ \A q \in Passes \ {p}: pass'[q] = pass[q]
    BY <1>1, <2>1, <2>2, PassUpdate
  <2>4. QED
    BY <1>8, <2>2, <2>3 DEF WalkStop, Walking, WalkOnly, WalkEffect, Apart
<1>9. QED
  BY <1>3, <1>4, <1>5, <1>6, <1>7, <1>8 DEF Walk, WalkVisit

(* A verifying goroutine, as v goes from r to e *)
VerifyEffect(p, v) ==
  LET r == vf[p][v]  e == vf'[p][v]  h == seen[p]  g == seen'[p]  k == Head(pass[p].jobs) IN
  /\ UNCHANGED <<obj, life, repairs>> /\ Apart(p) /\ pass[p].pc = "run"
  /\ \A w \in Verifiers \ {v}: vf'[p][w] = vf[p][w]
  /\ g.steady = h.steady
  /\ \/ /\ r.pc = "idle" /\ pass[p].jobs # <<>> /\ pass'[p].jobs = Tail(pass[p].jobs)
        /\ /\ pass'[p].pc = "run" /\ pass'[p].cancelled = pass[p].cancelled
           /\ pass'[p].walk = pass[p].walk /\ pass'[p].names = pass[p].names
           /\ pass'[p].err = pass[p].err
        /\ \/ /\ obj[k] \in {"good", "bad"} /\ e.pc = "check" /\ e.key = k /\ ~e.stale
              /\ g.verified = [h.verified EXCEPT ![k] = @ + 1]
              /\ g.failed = h.failed /\ g.asked = h.asked
           \/ obj[k] \notin {"good", "bad"} /\ e = r /\ g = h
        /\ stats' = stats
     \/ /\ r.pc = "check" /\ "fails" \in Outcomes(p, v)
        /\ e.pc = (IF repairs = "none" THEN "count" ELSE "enqueue") /\ e.key = r.key
        /\ g.verified = h.verified /\ g.failed = h.failed \cup {r.key} /\ g.asked = h.asked
        /\ stats'.errors = stats.errors + 1 /\ stats'.scanned = stats.scanned
        /\ pass' = pass
     \/ /\ r.pc = "check" /\ "passes" \in Outcomes(p, v) /\ e.pc = "count"
        /\ g = h /\ UNCHANGED <<stats, pass>>
     \/ /\ r.pc = "enqueue" /\ e.pc = "count"
        /\ g.verified = h.verified /\ g.failed = h.failed
        /\ \/ g.asked = h.asked \cup {r.key}
           \/ pass[p].cancelled /\ g.asked = h.asked
        /\ UNCHANGED <<stats, pass>>
     \/ /\ r.pc = "count" /\ e = Waiting /\ g = h
        /\ stats'.errors = stats.errors /\ stats'.scanned = stats.scanned + 1
        /\ pass' = pass
     \/ /\ r.pc = "idle" /\ e.pc = "exited" /\ g = h
        /\ pass[p].walk = "closed" /\ pass[p].jobs = <<>>
        /\ UNCHANGED <<stats, pass>>

VerifierTable == [Passes -> [Verifiers -> VerifierRec]]
StatsRec == [scanned: Nat, errors: Nat, lastError: BOOLEAN]

LEMMA VerifierUpdate ==
  ASSUME vf \in VerifierTable, NEW p \in Passes, NEW v \in Verifiers, NEW e \in VerifierRec,
         vf' = [vf EXCEPT ![p][v] = e]
  PROVE  /\ vf' \in VerifierTable /\ vf'[p][v] = e
         /\ \A w \in Verifiers \ {v}: vf'[p][w] = vf[p][w]
         /\ \A q \in Passes \ {p}: vf'[q] = vf[q]
BY DEF VerifierTable

LEMMA VerifierStep ==
  ASSUME vf \in VerifierTable, NEW p \in Passes, NEW v \in Verifiers,
         NEW to \in {"idle", "check", "enqueue", "count", "exited"}, Step(p, v, to)
  PROVE  /\ vf' \in VerifierTable /\ vf'[p][v].pc = to /\ vf'[p][v].key = vf[p][v].key
         /\ \A w \in Verifiers \ {v}: vf'[p][w] = vf[p][w]
         /\ \A q \in Passes \ {p}: vf'[q] = vf[q]
<1> DEFINE r == vf[p][v]
           e == [r EXCEPT !.pc = to]
<1>0. r \in VerifierRec
  BY DEF VerifierTable
<1>2. vf' = [vf EXCEPT ![p][v] = e]
  BY DEF Step
<1>3. r.key = vf[p][v].key
  OBVIOUS
<1> HIDE DEF r
<1>1. e \in VerifierRec /\ e.pc = to /\ e.key = r.key
  BY <1>0 DEF VerifierRec
<1> HIDE DEF e
<1>4. /\ vf' \in VerifierTable /\ vf'[p][v] = e
      /\ \A w \in Verifiers \ {v}: vf'[p][w] = vf[p][w]
      /\ \A q \in Passes \ {p}: vf'[q] = vf[q]
  BY <1>1, <1>2, VerifierUpdate
<1>5. QED
  BY <1>1, <1>3, <1>4

LEMMA SeenUpdate ==
  ASSUME seen \in [Passes -> SeenRec], NEW p \in Passes, NEW g \in SeenRec,
         seen' = [seen EXCEPT ![p] = g]
  PROVE  /\ seen' \in [Passes -> SeenRec] /\ seen'[p] = g
         /\ \A q \in Passes \ {p}: seen'[q] = seen[q]
OBVIOUS

LEMMA VerifyEffects ==
  ASSUME ShapeInv, NEW p \in Passes, NEW v \in Verifiers, Verify(p, v)
  PROVE  /\ VerifyEffect(p, v)
         /\ pass' \in [Passes -> PassRec] /\ vf' \in VerifierTable /\ seen' \in [Passes -> SeenRec]
         /\ \A q \in Passes: Len(pass'[q].jobs) <= JobCap
         /\ queue' \in 0..QueueCap /\ stats' \in StatsRec
<1> DEFINE r == vf[p][v]
           h == seen[p]
<1>1. /\ TypeOK /\ pass \in [Passes -> PassRec] /\ vf \in VerifierTable /\ seen \in [Passes -> SeenRec]
      /\ pass[p] \in PassRec /\ r \in VerifierRec /\ h \in SeenRec /\ stats \in StatsRec
      /\ \A q \in Passes: Len(pass[q].jobs) <= JobCap
      /\ queue \in 0..QueueCap /\ QueueCap \in Nat /\ JobCap \in Nat
      /\ r.pc \in {"check", "enqueue"} => r.key \in Key
  BY BoundsAssumption DEF ShapeInv, Shape, TypeOK, PassRec, VerifierTable, VerifierRec, SeenRec, StatsRec
<1>2. CASE VerifyTake(p, v)
  <2> DEFINE k == Head(pass[p].jobs)
             s == Tail(pass[p].jobs)
             x == [pass[p] EXCEPT !.jobs = s]
             e == [pc |-> "check", key |-> k, stale |-> FALSE]
             c == [h.verified EXCEPT ![k] = @ + 1]
             g == [h EXCEPT !.verified = c]
  <2>1. pass[p].jobs \in Seq(Key) /\ pass[p].jobs # <<>> /\ Len(pass[p].jobs) <= JobCap
    BY <1>1, <1>2 DEF VerifyTake, PassRec
  <2>2. k \in Key /\ s \in Seq(Key) /\ Len(s) <= JobCap
    BY <1>1, <2>1, HeadTailProperties
  <2>3. pass' = [pass EXCEPT ![p] = x]
    BY <1>2 DEF VerifyTake
  <2> HIDE DEF s
  <2>4. /\ x \in PassRec /\ x.jobs = s /\ x.pc = pass[p].pc /\ x.cancelled = pass[p].cancelled
        /\ x.walk = pass[p].walk /\ x.names = pass[p].names /\ x.err = pass[p].err
    BY <1>1, <2>2, SetJobs
  <2> HIDE DEF x
  <2>5. /\ pass' \in [Passes -> PassRec] /\ pass'[p] = x
        /\ \A q \in Passes: Len(pass'[q].jobs) <= JobCap
        /\ \A q \in Passes \ {p}: pass'[q] = pass[q]
    BY <1>1, <2>2, <2>3, <2>4, PassUpdate
  <2>6. CASE obj[k] \in {"good", "bad"}
    <3>1. vf' = [vf EXCEPT ![p][v] = e] /\ seen' = [seen EXCEPT ![p] = g]
      BY <1>2, <2>6 DEF VerifyTake
    <3> HIDE DEF k
    <3>2. e \in VerifierRec /\ e.pc = "check" /\ e.key = k /\ ~e.stale
      BY <2>2 DEF VerifierRec
    <3> HIDE DEF e
    <3>3. /\ vf' \in VerifierTable /\ vf'[p][v] = e
          /\ \A w \in Verifiers \ {v}: vf'[p][w] = vf[p][w]
          /\ \A q \in Passes \ {p}: vf'[q] = vf[q]
      BY <1>1, <3>1, <3>2, VerifierUpdate
    <3>4. c \in [Key -> Nat]
      BY <1>1, <2>2 DEF SeenRec
    <3>5. c = [h.verified EXCEPT ![k] = @ + 1]
      OBVIOUS
    <3> HIDE DEF c
    <3>6. /\ g \in SeenRec /\ g.verified = c /\ g.steady = h.steady
          /\ g.failed = h.failed /\ g.asked = h.asked
      BY <1>1, <3>4 DEF SeenRec
    <3> HIDE DEF g
    <3>7. /\ seen' \in [Passes -> SeenRec] /\ seen'[p] = g
          /\ \A q \in Passes \ {p}: seen'[q] = seen[q]
      BY <1>1, <3>1, <3>6, SeenUpdate
    <3>8. QED
      BY <1>1, <1>2, <2>1, <2>4, <2>5, <2>6, <3>2, <3>3, <3>5, <3>6, <3>7
      DEF VerifyTake, Verifying, VerifyEffect, Apart, s, k
  <2>7. CASE obj[k] \notin {"good", "bad"}
    <3>1. UNCHANGED <<vf, seen>>
      BY <1>2, <2>7 DEF VerifyTake
    <3>2. QED
      BY <1>1, <1>2, <2>1, <2>4, <2>5, <2>7, <3>1
      DEF VerifyTake, Verifying, VerifyEffect, Apart, s
  <2>8. QED
    BY <2>6, <2>7
<1>3. CASE VerifyShard(p, v)
  <2>1. CASE /\ "fails" \in Outcomes(p, v)
             /\ stats' = [stats EXCEPT !.errors = @ + 1]
             /\ seen' = [seen EXCEPT ![p].failed = @ \cup {vf[p][v].key}]
             /\ Step(p, v, IF repairs = "none" THEN "count" ELSE "enqueue")
    <3> DEFINE S == h.failed \cup {r.key}
               g == [h EXCEPT !.failed = S]
    <3>1. S \subseteq Key
      BY <1>1, <1>3 DEF VerifyShard, Verifying, SeenRec
    <3>2. seen' = [seen EXCEPT ![p] = g]
      BY <2>1
    <3>3. S = h.failed \cup {r.key}
      OBVIOUS
    <3> HIDE DEF S
    <3>4. /\ g \in SeenRec /\ g.verified = h.verified /\ g.steady = h.steady
          /\ g.failed = S /\ g.asked = h.asked
      BY <1>1, <3>1 DEF SeenRec
    <3> HIDE DEF g
    <3>5. /\ seen' \in [Passes -> SeenRec] /\ seen'[p] = g
          /\ \A q \in Passes \ {p}: seen'[q] = seen[q]
      BY <1>1, <3>2, <3>4, SeenUpdate
    <3>6. /\ stats' \in StatsRec /\ stats'.errors = stats.errors + 1
          /\ stats'.scanned = stats.scanned
      BY <1>1, <2>1 DEF StatsRec
    <3>7. /\ vf' \in VerifierTable
          /\ vf'[p][v].pc = (IF repairs = "none" THEN "count" ELSE "enqueue")
          /\ vf'[p][v].key = vf[p][v].key
          /\ \A w \in Verifiers \ {v}: vf'[p][w] = vf[p][w]
          /\ \A q \in Passes \ {p}: vf'[q] = vf[q]
      BY <1>1, <2>1, VerifierStep
    <3>8. QED
      BY <1>1, <1>3, <2>1, <3>3, <3>4, <3>5, <3>6, <3>7
      DEF VerifyShard, Verifying, VerifyEffect, Apart
  <2>2. CASE /\ "passes" \in Outcomes(p, v)
             /\ Step(p, v, "count") /\ UNCHANGED <<stats, seen>>
    <3>1. /\ vf' \in VerifierTable /\ vf'[p][v].pc = "count"
          /\ \A w \in Verifiers \ {v}: vf'[p][w] = vf[p][w]
          /\ \A q \in Passes \ {p}: vf'[q] = vf[q]
      BY <1>1, <2>2, VerifierStep
    <3>2. QED
      BY <1>1, <1>3, <2>2, <3>1 DEF VerifyShard, Verifying, VerifyEffect, Apart
  <2>3. QED
    BY <1>3, <2>1, <2>2 DEF VerifyShard
<1>4. CASE VerifyEnqueue(p, v) \/ VerifyEnqueueCancelled(p, v)
  <2>1. Step(p, v, "count") /\ Verifying(p, v, "enqueue") /\ UNCHANGED <<obj, pass, life, repairs, stats>>
    BY <1>4 DEF VerifyEnqueue, VerifyEnqueueCancelled
  <2>2. /\ vf' \in VerifierTable /\ vf'[p][v].pc = "count"
        /\ \A w \in Verifiers \ {v}: vf'[p][w] = vf[p][w]
        /\ \A q \in Passes \ {p}: vf'[q] = vf[q]
    BY <1>1, <2>1, VerifierStep
  <2>3. CASE VerifyEnqueue(p, v)
    <3> DEFINE S == h.asked \cup {r.key}
               g == [h EXCEPT !.asked = S]
    <3>1. S \subseteq Key
      BY <1>1, <2>1 DEF Verifying, SeenRec
    <3>2. seen' = [seen EXCEPT ![p] = g]
      BY <2>3 DEF VerifyEnqueue
    <3>3. S = h.asked \cup {r.key}
      OBVIOUS
    <3> HIDE DEF S
    <3>4. /\ g \in SeenRec /\ g.verified = h.verified /\ g.steady = h.steady
          /\ g.failed = h.failed /\ g.asked = S
      BY <1>1, <3>1 DEF SeenRec
    <3> HIDE DEF g
    <3>5. /\ seen' \in [Passes -> SeenRec] /\ seen'[p] = g
          /\ \A q \in Passes \ {p}: seen'[q] = seen[q]
      BY <1>1, <3>2, <3>4, SeenUpdate
    <3>6. queue' \in 0..QueueCap
      BY <1>1, <2>3 DEF VerifyEnqueue
    <3>7. QED
      BY <1>1, <2>1, <2>2, <3>3, <3>4, <3>5, <3>6 DEF Verifying, VerifyEffect, Apart
  <2>4. CASE VerifyEnqueueCancelled(p, v)
    BY <1>1, <2>1, <2>2, <2>4 DEF VerifyEnqueueCancelled, Verifying, VerifyEffect, Apart
  <2>5. QED
    BY <1>4, <2>3, <2>4
<1>5. CASE VerifyCount(p, v)
  <2>1. stats' \in StatsRec /\ stats'.errors = stats.errors /\ stats'.scanned = stats.scanned + 1
    BY <1>1, <1>5 DEF VerifyCount, StatsRec
  <2>2. Waiting \in VerifierRec
    BY DEF Waiting, VerifierRec
  <2>3. /\ vf' \in VerifierTable /\ vf'[p][v] = Waiting
        /\ \A w \in Verifiers \ {v}: vf'[p][w] = vf[p][w]
        /\ \A q \in Passes \ {p}: vf'[q] = vf[q]
    BY <1>1, <1>5, <2>2, VerifierUpdate DEF VerifyCount
  <2>4. QED
    BY <1>1, <1>5, <2>1, <2>3 DEF VerifyCount, Verifying, VerifyEffect, Apart
<1>6. CASE VerifyExit(p, v)
  <2>1. /\ vf' \in VerifierTable /\ vf'[p][v].pc = "exited"
        /\ \A w \in Verifiers \ {v}: vf'[p][w] = vf[p][w]
        /\ \A q \in Passes \ {p}: vf'[q] = vf[q]
    BY <1>1, <1>6, VerifierStep DEF VerifyExit
  <2>2. QED
    BY <1>1, <1>6, <2>1 DEF VerifyExit, Verifying, VerifyEffect, Apart
<1>7. QED
  BY <1>2, <1>3, <1>4, <1>5, <1>6 DEF Verify

(* A pass begins, is cancelled, ends and is forgotten.                        *)
BeginEffect(p) ==
  /\ UNCHANGED <<obj, vf, stop, repairs, queue, stats>> /\ Apart(p)
  /\ pass[p].pc = "off" /\ pass'[p].pc = "run" /\ ~pass'[p].cancelled /\ ~pass'[p].err
  /\ pass'[p].walk = "read" /\ pass'[p].names = {} /\ pass'[p].jobs = <<>>
  /\ seen'[p].steady = Key /\ seen'[p].verified = [k \in Key |-> 0]
  /\ seen'[p].failed = {} /\ seen'[p].asked = {}
  /\ (p \in Audits /\ loop' = loop) \/ (p = Loop /\ loop = "wait" /\ loop' = "run")

EndEffect(p) ==
  LET r == pass[p]  e == pass'[p] IN
  /\ UNCHANGED <<obj, vf, life, repairs, queue, seen>> /\ Apart(p)
  /\ e.names = r.names /\ e.jobs = r.jobs /\ e.walk = r.walk /\ e.err = r.err
  /\ r.pc = "run" /\ e.pc \in {"run", "ended"} /\ (r.cancelled => e.cancelled)
  /\ e.pc = "ended" => \A v \in Verifiers: vf[p][v].pc = "exited"
  /\ stats'.errors = stats.errors /\ stats'.scanned = stats.scanned

ReturnEffect(p) ==
  /\ UNCHANGED <<obj, stop, events, repairs, queue, stats>> /\ Apart(p)
  /\ pass[p].pc = "ended" /\ pass'[p] = NoPass /\ seen'[p] = Nothing
  /\ vf'[p] = [v \in Verifiers |-> Waiting]
  /\ (p \in Audits /\ loop' = loop) \/ (p = Loop /\ loop' = "wait")

ChangeEffect(k) ==
  /\ UNCHANGED <<pass, loop, stop, repairs, queue, stats>>
  /\ \A j \in Key \ {k}: obj'[j] = obj[j]
  /\ \A p \in Passes:
       /\ \A v \in Verifiers:
            /\ vf'[p][v].pc = vf[p][v].pc /\ vf'[p][v].key = vf[p][v].key
            /\ ~(vf[p][v].pc = "check" /\ vf[p][v].key = k) => vf'[p][v] = vf[p][v]
       /\ seen'[p].steady = seen[p].steady \ {k} /\ seen'[p].verified = seen[p].verified
       /\ seen'[p].failed = seen[p].failed /\ seen'[p].asked = seen[p].asked

(* Stop, and a repair worker, touch no pass.                                  *)
Aside ==
  /\ UNCHANGED <<obj, pass, vf, repairs, stats, seen>>
  /\ \/ UNCHANGED <<loop, stop>>
     \/ stop' # "ok" /\ (loop' = loop \/ (loop = "wait" /\ loop' = "exited"))
     \/ stop' = "ok" /\ loop = "exited" /\ loop' = loop

Types ==
  /\ obj \in [Key -> Object]
  /\ pass \in [Passes -> PassRec] /\ \A p \in Passes: Len(pass[p].jobs) <= JobCap
  /\ vf \in VerifierTable
  /\ loop \in {"run", "wait", "exited"} /\ stop \in {"no", "wait", "ok", "expired"}
  /\ repairs \in {"none", "queue", "worker"} /\ queue \in 0..QueueCap
  /\ stats \in StatsRec /\ events \in 0..MaxEvents /\ seen \in [Passes -> SeenRec]

LEMMA TypeParts == (TypeOK <=> Types) /\ (TypeOK' <=> Types')
BY DEF Types, TypeOK, PassRec, VerifierTable, VerifierRec, StatsRec, SeenRec

LEMMA Blank == NoPass \in PassRec /\ Len(NoPass.jobs) = 0 /\ Nothing \in SeenRec
                 /\ [v \in Verifiers |-> Waiting] \in [Verifiers -> VerifierRec]
<1>1. NoPass \in PassRec
  BY EmptySeq DEF NoPass, PassRec
<1>2. Len(NoPass.jobs) = 0
  BY DEF NoPass
<1>3. Nothing \in SeenRec
  BY DEF Nothing, SeenRec
<1>4. QED
  BY <1>1, <1>2, <1>3 DEF Waiting, VerifierRec

LEMMA SetPassPc ==
  ASSUME NEW r \in PassRec, NEW c \in {"off", "run", "ended"}
  PROVE  LET e == [r EXCEPT !.pc = c] IN
         /\ e \in PassRec /\ e.pc = c /\ e.walk = r.walk /\ e.cancelled = r.cancelled
         /\ e.names = r.names /\ e.jobs = r.jobs /\ e.err = r.err
BY DEF PassRec

LEMMA BeginEffects ==
  ASSUME ShapeInv, NEW p \in Passes, RunOnce(p) \/ (p = Loop /\ LoopTick)
  PROVE  BeginEffect(p) /\ TypeOK'
<1>1. Begin(p) /\ UNCHANGED <<obj, vf, stop, repairs, queue, stats>> /\ p \in Passes
  BY DEF RunOnce, LoopTick
<1>2. /\ TypeOK /\ pass[p] = NoPass /\ seen[p] = Nothing
      /\ pass \in [Passes -> PassRec] /\ seen \in [Passes -> SeenRec]
  BY <1>1, TypeParts DEF Types, ShapeInv, Shape, Begin
<1> DEFINE e == [NoPass EXCEPT !.pc = "run"]
           g == [Nothing EXCEPT !.steady = Key]
<1>3. pass' = [pass EXCEPT ![p] = e] /\ seen' = [seen EXCEPT ![p] = g]
  BY <1>1, <1>2 DEF Begin
<1>4. /\ e \in PassRec /\ e.pc = "run" /\ e.walk = NoPass.walk /\ e.cancelled = NoPass.cancelled
      /\ e.names = NoPass.names /\ e.jobs = NoPass.jobs /\ e.err = NoPass.err
  BY Blank, SetPassPc
<1>5. /\ g \in SeenRec /\ g.steady = Key /\ g.verified = [k \in Key |-> 0]
      /\ g.failed = {} /\ g.asked = {}
  BY DEF Nothing, SeenRec
<1> HIDE DEF e, g
<1>6. Len(e.jobs) <= JobCap
  BY <1>4, Blank, BoundsAssumption
<1>7. /\ pass' \in [Passes -> PassRec] /\ pass'[p] = e
      /\ \A q \in Passes: Len(pass'[q].jobs) <= JobCap
      /\ \A q \in Passes \ {p}: pass'[q] = pass[q]
  BY <1>2, <1>3, <1>4, <1>6, PassUpdate
<1>8. /\ seen' \in [Passes -> SeenRec] /\ seen'[p] = g
      /\ \A q \in Passes \ {p}: seen'[q] = seen[q]
  BY <1>2, <1>3, <1>5, SeenUpdate
<1>9. events' \in 0..MaxEvents
  BY <1>1, BoundsAssumption DEF ShapeInv, TypeOK, Begin
<1>10. loop' \in {"run", "wait", "exited"}
       /\ ((p \in Audits /\ loop' = loop) \/ (p = Loop /\ loop = "wait" /\ loop' = "run"))
  BY DEF RunOnce, LoopTick, ShapeInv, TypeOK
<1>11. TypeOK'
  BY <1>1, <1>2, <1>7, <1>8, <1>9, <1>10, TypeParts DEF Types
<1>12. /\ ~e.cancelled /\ ~e.err /\ e.walk = "read" /\ e.names = {} /\ e.jobs = <<>>
  BY <1>4 DEF NoPass
<1>13. BeginEffect(p)
  BY <1>1, <1>2, <1>4, <1>5, <1>7, <1>8, <1>10, <1>12 DEF BeginEffect, Apart, Begin
<1>14. QED
  BY <1>11, <1>13

LEMMA EndEffects ==
  ASSUME ShapeInv, NEW p \in Passes, End(p) \/ Cancel(p)
  PROVE  EndEffect(p) /\ TypeOK'
<1> DEFINE r == pass[p]
<1>1. TypeOK /\ pass \in [Passes -> PassRec] /\ r \in PassRec /\ Len(r.jobs) <= JobCap
  BY TypeParts DEF Types, ShapeInv
<1>2. CASE End(p)
  <2> DEFINE e == [r EXCEPT !.pc = "ended"]
  <2>1. pass' = [pass EXCEPT ![p] = e]
    BY <1>2 DEF End
  <2>2. /\ e \in PassRec /\ e.pc = "ended" /\ e.walk = r.walk /\ e.cancelled = r.cancelled
        /\ e.names = r.names /\ e.jobs = r.jobs /\ e.err = r.err
    BY <1>1, SetPassPc
  <2> HIDE DEF e
  <2>3. /\ pass' \in [Passes -> PassRec] /\ pass'[p] = e
        /\ \A q \in Passes: Len(pass'[q].jobs) <= JobCap
        /\ \A q \in Passes \ {p}: pass'[q] = pass[q]
    BY <1>1, <2>1, <2>2, PassUpdate
  <2>4. stats' \in StatsRec /\ stats'.errors = stats.errors /\ stats'.scanned = stats.scanned
    <3> DEFINE b == stats.lastError \/ r.err
    <3>1. stats' = [stats EXCEPT !.lastError = b]
      BY <1>2 DEF End
    <3>2. b \in BOOLEAN
      OBVIOUS
    <3> HIDE DEF b
    <3>3. QED
      BY <1>1, <3>1, <3>2 DEF TypeOK, StatsRec
  <2>5. TypeOK'
    BY <1>1, <1>2, <2>3, <2>4, TypeParts DEF Types, End, life
  <2>6. QED
    BY <1>2, <2>2, <2>3, <2>4, <2>5 DEF End, EndEffect, Apart
<1>3. CASE Cancel(p)
  <2> DEFINE e == [r EXCEPT !.cancelled = TRUE]
  <2>1. pass' = [pass EXCEPT ![p] = e]
    BY <1>3 DEF Cancel
  <2>2. /\ e \in PassRec /\ e.pc = r.pc /\ e.walk = r.walk /\ e.cancelled
        /\ e.names = r.names /\ e.jobs = r.jobs /\ e.err = r.err
    BY <1>1 DEF PassRec
  <2> HIDE DEF e
  <2>3. /\ pass' \in [Passes -> PassRec] /\ pass'[p] = e
        /\ \A q \in Passes: Len(pass'[q].jobs) <= JobCap
        /\ \A q \in Passes \ {p}: pass'[q] = pass[q]
    BY <1>1, <2>1, <2>2, PassUpdate
  <2>4. TypeOK'
    BY <1>1, <1>3, <2>3, TypeParts DEF Types, Cancel, life
  <2>5. QED
    BY <1>3, <2>2, <2>3, <2>4 DEF Cancel, EndEffect, Apart
<1>4. QED
  BY <1>2, <1>3

LEMMA ReturnEffects ==
  ASSUME ShapeInv, NEW p \in Passes, Return(p)
  PROVE  ReturnEffect(p) /\ TypeOK'
<1>1. TypeOK /\ pass \in [Passes -> PassRec] /\ seen \in [Passes -> SeenRec] /\ vf \in VerifierTable
  BY TypeParts DEF Types, ShapeInv
<1>2. Len(NoPass.jobs) <= JobCap
  BY Blank, BoundsAssumption
<1>3. /\ pass' \in [Passes -> PassRec] /\ pass'[p] = NoPass
      /\ \A q \in Passes: Len(pass'[q].jobs) <= JobCap
      /\ \A q \in Passes \ {p}: pass'[q] = pass[q]
  BY <1>1, <1>2, Blank, PassUpdate DEF Return
<1>4. /\ seen' \in [Passes -> SeenRec] /\ seen'[p] = Nothing
      /\ \A q \in Passes \ {p}: seen'[q] = seen[q]
  BY <1>1, Blank, SeenUpdate DEF Return
<1> DEFINE w == [v \in Verifiers |-> Waiting]
<1>5. vf' = [vf EXCEPT ![p] = w] /\ w \in [Verifiers -> VerifierRec]
  BY Blank DEF Return
<1> HIDE DEF w
<1>6. vf' \in VerifierTable /\ vf'[p] = w /\ \A q \in Passes \ {p}: vf'[q] = vf[q]
  BY <1>1, <1>5 DEF VerifierTable
<1>7. loop' \in {"run", "wait", "exited"}
      /\ ((p \in Audits /\ loop' = loop) \/ (p = Loop /\ loop' = "wait"))
  BY NamesAssumption DEF Return, ShapeInv, TypeOK, Passes
<1>8. TypeOK'
  BY <1>1, <1>3, <1>4, <1>6, <1>7, TypeParts DEF Types, Return
<1>9. QED
  BY <1>3, <1>4, <1>6, <1>7, <1>8 DEF Return, ReturnEffect, Apart, w

LEMMA ChangeEffects ==
  ASSUME ShapeInv, NEW k \in Key, Change(k)
  PROVE  ChangeEffect(k) /\ TypeOK'
<1>1. TypeOK /\ pass \in [Passes -> PassRec] /\ seen \in [Passes -> SeenRec] /\ vf \in VerifierTable
  BY TypeParts DEF Types, ShapeInv
<1>2. obj' \in [Key -> Object] /\ \A j \in Key \ {k}: obj'[j] = obj[j]
  BY <1>1 DEF Change, TypeOK
<1>3. ASSUME NEW p \in Passes
      PROVE  /\ seen'[p] \in SeenRec
             /\ seen'[p].steady = seen[p].steady \ {k} /\ seen'[p].verified = seen[p].verified
             /\ seen'[p].failed = seen[p].failed /\ seen'[p].asked = seen[p].asked
  <2> DEFINE S == seen[p].steady \ {k}
             h == seen[p]
  <2>1. seen'[p] = [h EXCEPT !.steady = S]
    BY DEF Change
  <2>2. S \subseteq Key /\ h \in SeenRec
    BY <1>1 DEF SeenRec
  <2>3. S = seen[p].steady \ {k}
    OBVIOUS
  <2> HIDE DEF S
  <2>4. /\ [h EXCEPT !.steady = S] \in SeenRec /\ [h EXCEPT !.steady = S].steady = S
        /\ [h EXCEPT !.steady = S].verified = h.verified
        /\ [h EXCEPT !.steady = S].failed = h.failed
        /\ [h EXCEPT !.steady = S].asked = h.asked
    BY <2>2 DEF SeenRec
  <2>5. QED
    BY <2>1, <2>3, <2>4
<1>4. ASSUME NEW p \in Passes, NEW v \in Verifiers
      PROVE  /\ vf'[p][v] \in VerifierRec
             /\ vf'[p][v].pc = vf[p][v].pc /\ vf'[p][v].key = vf[p][v].key
             /\ ~(vf[p][v].pc = "check" /\ vf[p][v].key = k) => vf'[p][v] = vf[p][v]
  <2> DEFINE r == vf[p][v]
             e == [r EXCEPT !.stale = TRUE]
  <2>1. vf'[p][v] = IF r.pc = "check" /\ r.key = k THEN e ELSE r
    BY DEF Change
  <2>2. r \in VerifierRec
    BY <1>1 DEF VerifierTable
  <2>3. e \in VerifierRec /\ e.pc = r.pc /\ e.key = r.key
    BY <2>2 DEF VerifierRec
  <2> HIDE DEF e
  <2>4. QED
    BY <2>1, <2>2, <2>3
<1>5. seen' \in [Passes -> SeenRec]
  <2>1. seen' = [p \in Passes |-> seen'[p]]
    BY DEF Change
  <2>2. QED
    BY <1>3, <2>1
<1>6. vf' \in VerifierTable
  <2>1. vf' = [p \in Passes |-> [v \in Verifiers |-> vf'[p][v]]]
    BY DEF Change
  <2>2. QED
    BY <1>4, <2>1 DEF VerifierTable
<1>7. events' \in 0..MaxEvents
  BY <1>1, BoundsAssumption DEF TypeOK, Change
<1>8. TypeOK'
  BY <1>1, <1>2, <1>5, <1>6, <1>7, TypeParts DEF Types, Change
<1>9. QED
  BY <1>2, <1>3, <1>4, <1>8 DEF Change, ChangeEffect

LEMMA AsideEffects ==
  ASSUME ShapeInv, StopSignal \/ StopReturns \/ Drain
  PROVE  Aside /\ TypeOK'
<1>1. CASE StopSignal \/ StopReturns
  BY <1>1, TypeParts DEF Types, ShapeInv, StopSignal, StopReturns, Aside
<1>2. CASE Drain
  <2>1. queue' \in 0..QueueCap
    BY <1>2, BoundsAssumption DEF ShapeInv, TypeOK, Drain
  <2>2. QED
    BY <1>2, <2>1, TypeParts DEF Types, ShapeInv, Drain, Aside, life
<1>3. QED
  BY <1>1, <1>2

---------------------------------------------------------------------------
(* The invariants *)

Pending == {pv \in Passes \X Verifiers: vf[pv[1]][pv[2]].pc \in {"enqueue", "count"}}

CountInv == stats.errors <= stats.scanned + Cardinality(Pending)

(* The loop has a pass exactly while it runs one.                             *)
LoopInv ==
  /\ loop = "run" <=> pass[Loop].pc # "off"
  /\ stop = "ok" => loop = "exited"

Elements(s) == {s[i]: i \in 1..Len(s)}
Distinct(s) == \A i, j \in 1..Len(s): s[i] = s[j] => i = j
Queued(p) == Elements(pass[p].jobs)

(* A key is either still to be visited, queued once or verified.              *)
Once(p) ==
  /\ Distinct(pass[p].jobs)
  /\ Queued(p) \cap pass[p].names = {}
  /\ \A k \in Key: seen[p].verified[k] \in 0..1
  /\ \A k \in Key: seen[p].verified[k] = 1 =>
       k \notin pass[p].names /\ k \notin Queued(p) /\ pass[p].walk # "read"

(* No object that stays is missed.                                            *)
Reached(p) ==
  /\ pass[p].walk = "closed" => pass[p].names = {} \/ pass[p].cancelled
  /\ pass[p].walk # "read" =>
       \A k \in seen[p].steady: obj[k] \in {"good", "bad"} =>
         k \in pass[p].names \cup Queued(p) \/ seen[p].verified[k] = 1
  /\ \A k \in pass[p].names \cap seen[p].steady: obj[k] # "absent"
  /\ pass[p].err => seen[p].steady # Key

OnceInv == \A p \in Passes: Once(p) /\ Reached(p)

VerifierAt(p, v, k, pc) == vf[p][v].pc = pc /\ vf[p][v].key = k

(* What was found of an object that stays is what it is, and a repair was     *)
(* asked for it.                                                             *)
Found(p) ==
  /\ \A v \in Verifiers, k \in seen[p].steady:
       VerifierAt(p, v, k, "check") => ~vf[p][v].stale /\ obj[k] \in {"good", "bad"}
  /\ \A k \in seen[p].steady \cap seen[p].failed: obj[k] = "bad"
  /\ \A k \in seen[p].steady: seen[p].verified[k] = 1 /\ obj[k] = "bad" =>
       k \in seen[p].failed \/ \E v \in Verifiers: VerifierAt(p, v, k, "check")
  /\ \A k \in seen[p].failed:
       \/ repairs = "none" \/ k \in seen[p].asked \/ pass[p].cancelled
       \/ \E v \in Verifiers: VerifierAt(p, v, k, "enqueue")

FoundInv == \A p \in Passes: Found(p)

---------------------------------------------------------------------------
(* Every step keeps the shape, and has one of the effects.                    *)

LEMMA Effects ==
  ASSUME ShapeInv, Next
  PROVE  /\ TypeOK'
         /\ \/ \E p \in Passes: WalkEffect(p)
            \/ \E p \in Passes, v \in Verifiers: VerifyEffect(p, v)
            \/ \E p \in Passes: BeginEffect(p) \/ EndEffect(p) \/ ReturnEffect(p)
            \/ \E k \in Key: ChangeEffect(k)
            \/ Aside
<1>0. TypeOK /\ Types /\ Loop \in Passes
  BY TypeParts DEF ShapeInv, Passes
<1>1. CASE \E p \in Passes: Walk(p)
  <2>1. PICK p \in Passes: Walk(p)
    BY <1>1
  <2>2. WalkEffect(p) /\ pass' \in [Passes -> PassRec] /\ \A q \in Passes: Len(pass'[q].jobs) <= JobCap
    BY <2>1, WalkEffects
  <2>3. UNCHANGED <<obj, vf, life, repairs, queue, stats, seen>>
    BY <2>2 DEF WalkEffect
  <2>4. Types'
    BY <1>0, <2>2, <2>3 DEF Types, life
  <2>5. QED
    BY <2>2, <2>4, TypeParts
<1>2. CASE \E p \in Passes, v \in Verifiers: Verify(p, v)
  <2>1. PICK p \in Passes, v \in Verifiers: Verify(p, v)
    BY <1>2
  <2>2. /\ VerifyEffect(p, v)
        /\ pass' \in [Passes -> PassRec] /\ vf' \in VerifierTable /\ seen' \in [Passes -> SeenRec]
        /\ \A q \in Passes: Len(pass'[q].jobs) <= JobCap
        /\ queue' \in 0..QueueCap /\ stats' \in StatsRec
    BY <2>1, VerifyEffects
  <2>3. UNCHANGED <<obj, life, repairs>>
    BY <2>2 DEF VerifyEffect
  <2>4. Types'
    BY <1>0, <2>2, <2>3 DEF Types, life
  <2>5. QED
    BY <2>2, <2>4, TypeParts
<1>3. CASE \E p \in Passes: RunOnce(p)
  BY <1>3, BeginEffects
<1>4. CASE LoopTick
  BY <1>0, <1>4, BeginEffects
<1>5. CASE \E p \in Passes: End(p) \/ Cancel(p)
  BY <1>5, EndEffects
<1>6. CASE \E p \in Passes: Return(p)
  BY <1>6, ReturnEffects
<1>7. CASE \E k \in Key: Change(k)
  BY <1>7, ChangeEffects
<1>8. CASE StopSignal \/ StopReturns \/ Drain
  BY <1>8, AsideEffects
<1>9. QED
  BY <1>1, <1>2, <1>3, <1>4, <1>5, <1>6, <1>7, <1>8 DEF Next

LEMMA ShapeKept ==
  ASSUME ShapeInv, TypeOK', NEW p \in Passes, Apart(p), Shape(p)'
  PROVE  ShapeInv'
<1>1. ASSUME NEW q \in Passes \ {p} PROVE Shape(q)'
  BY DEF ShapeInv, Shape, Apart
<1>2. QED
  BY <1>1 DEF ShapeInv

LEMMA ShapeNext == ShapeInv /\ [Next]_vars => ShapeInv'
<1> SUFFICES ASSUME ShapeInv, [Next]_vars PROVE ShapeInv'
  OBVIOUS
<1>1. CASE Next
  <2>0. TypeOK'
    BY <1>1, Effects
  <2>1. ASSUME NEW p \in Passes, WalkEffect(p) PROVE ShapeInv'
    <3>1. \A v \in Verifiers: vf[p][v].pc # "exited"
      BY <2>1 DEF ShapeInv, Shape, WalkEffect
    <3>2. vf' = vf /\ Apart(p) /\ pass'[p].pc = "run" /\ pass'[p].walk # "read"
      BY <2>1 DEF WalkEffect
    <3>3. pass'[p].walk = "send" => pass'[p].names # {}
      BY <2>1 DEF WalkEffect
    <3>4. Shape(p)'
      BY <3>1, <3>2, <3>3 DEF ShapeInv, Shape
    <3>5. QED
      BY <2>0, <3>2, <3>4, ShapeKept
  <2>2. ASSUME NEW p \in Passes, NEW v \in Verifiers, VerifyEffect(p, v) PROVE ShapeInv'
    <3>1. /\ pass'[p].pc = "run" /\ pass'[p].walk = pass[p].walk /\ pass'[p].names = pass[p].names
          /\ \/ pass[p].jobs # <<>>
             \/ pass'[p].jobs = pass[p].jobs
      BY <2>2 DEF VerifyEffect
    <3>2. Apart(p) /\ \A w \in Verifiers \ {v}: vf'[p][w] = vf[p][w]
      BY <2>2 DEF VerifyEffect
    <3>3. pass[p].jobs # <<>> => Head(pass[p].jobs) \in Key
      BY HeadTailProperties DEF ShapeInv, TypeOK
    <3>4. /\ vf'[p][v].pc \in {"check", "enqueue"} => vf'[p][v].key \in Key
          /\ vf'[p][v].pc = "exited" => pass'[p].walk = "closed" /\ pass'[p].jobs = <<>>
      BY <2>2, <3>1, <3>3 DEF VerifyEffect, ShapeInv, Shape, Waiting
    <3>5. Shape(p)'
      BY <3>1, <3>2, <3>4 DEF ShapeInv, Shape
    <3>6. QED
      BY <2>0, <3>2, <3>5, ShapeKept
  <2>3. ASSUME NEW p \in Passes, BeginEffect(p) PROVE ShapeInv'
    <3>1. vf'[p] = [v \in Verifiers |-> Waiting] /\ Apart(p)
      BY <2>3 DEF BeginEffect, ShapeInv, Shape
    <3>2. Shape(p)'
      BY <2>3, <3>1 DEF BeginEffect, Shape, Waiting
    <3>3. QED
      BY <2>0, <3>1, <3>2, ShapeKept
  <2>4. ASSUME NEW p \in Passes, EndEffect(p) PROVE ShapeInv'
    BY <2>0, <2>4, ShapeKept DEF EndEffect, ShapeInv, Shape
  <2>5. ASSUME NEW p \in Passes, ReturnEffect(p) PROVE ShapeInv'
    <3>1. Shape(p)' /\ Apart(p)
      BY <2>5 DEF ReturnEffect, Shape, NoPass, Waiting
    <3>2. QED
      BY <2>0, <3>1, ShapeKept
  <2>6. ASSUME NEW k \in Key, ChangeEffect(k) PROVE ShapeInv'
    <3>1. ASSUME NEW p \in Passes PROVE Shape(p)'
      <4>1. ASSUME pass[p].pc = "off"
            PROVE  vf'[p] = [v \in Verifiers |-> Waiting] /\ seen'[p] = Nothing
        <5>1. vf[p] = [v \in Verifiers |-> Waiting] /\ seen[p] = Nothing
          BY <4>1 DEF ShapeInv, Shape
        <5>2. ASSUME NEW v \in Verifiers PROVE vf'[p][v] = vf[p][v]
          <6>1. vf[p][v].pc = "idle"
            BY <5>1 DEF Waiting
          <6>2. QED
            BY <2>6, <6>1 DEF ChangeEffect
        <5>3. vf' \in VerifierTable /\ seen' \in [Passes -> SeenRec]
          BY <2>0, TypeParts DEF Types
        <5>4. vf'[p] = vf[p]
          BY <5>1, <5>2, <5>3 DEF VerifierTable
        <5>5. /\ seen'[p].steady = {} /\ seen'[p].verified = Nothing.verified
              /\ seen'[p].failed = {} /\ seen'[p].asked = {}
          BY <2>6, <5>1 DEF ChangeEffect, Nothing
        <5>6. seen'[p] = Nothing
          BY <5>3, <5>5 DEF SeenRec, Nothing
        <5>7. QED
          BY <5>1, <5>4, <5>6
      <4>2. QED
        BY <2>6, <4>1 DEF ChangeEffect, ShapeInv, Shape
    <3>2. QED
      BY <2>0, <3>1 DEF ShapeInv
  <2>7. CASE Aside
    BY <2>0, <2>7 DEF Aside, ShapeInv, Shape
  <2>8. QED
    BY <1>1, <2>1, <2>2, <2>3, <2>4, <2>5, <2>6, <2>7, Effects
<1>2. CASE UNCHANGED vars
  BY <1>2 DEF vars, ShapeInv, TypeOK, Shape
<1>3. QED
  BY <1>1, <1>2

(* Each pass goes from its walk to its end in the order of scanAll: while a    *)
(* verifier has left, the channel is closed and empty; when a pass is over    *)
(* all have left; a verifier that checks or enqueues has a key.              *)
THEOREM ScrubberShape == Spec => []ShapeInv
<1>1. Init => ShapeInv
  <2> SUFFICES ASSUME Init PROVE ShapeInv
    OBVIOUS
  <2>1. Types
    BY Blank, BoundsAssumption DEF Init, Types, VerifierTable, StatsRec
  <2>2. \A p \in Passes: Shape(p)
    BY DEF Init, Shape, NoPass, Waiting
  <2>3. QED
    BY <2>1, <2>2, TypeParts DEF ShapeInv
<1>2. QED
  BY <1>1, ShapeNext, PTL DEF Spec

(* Every variable keeps its type: the job channel and the repair queue never  *)
(* hold more than their capacity, whoever sends.                             *)
THEOREM ScrubberTypeCorrect == Spec => []TypeOK
<1>1. ShapeInv => TypeOK
  BY DEF ShapeInv
<1>2. QED
  BY <1>1, ScrubberShape, PTL

---------------------------------------------------------------------------
(* The counters and the loop *)

LEMMA PendingFinite == IsFiniteSet(Pending) /\ Cardinality(Pending) \in Nat
BY KeyFinite, FS_Subset, FS_CardinalityType DEF Pending

LEMMA PendingSame ==
  ASSUME \A p \in Passes, v \in Verifiers:
           vf'[p][v].pc \in {"enqueue", "count"} <=> vf[p][v].pc \in {"enqueue", "count"}
  PROVE  Pending' = Pending
BY DEF Pending

LEMMA PendingVerify ==
  ASSUME NEW p \in Passes, NEW v \in Verifiers, VerifyEffect(p, v)
  PROVE  LET was == vf[p][v].pc \in {"enqueue", "count"}
             is == vf'[p][v].pc \in {"enqueue", "count"}
         IN  /\ was /\ ~is => Cardinality(Pending') = Cardinality(Pending) - 1
             /\ ~was /\ is => Cardinality(Pending') = Cardinality(Pending) + 1
             /\ (was <=> is) => Cardinality(Pending') = Cardinality(Pending)
<1>1. \A q \in Passes, w \in Verifiers: <<q, w>> # <<p, v>> => vf'[q][w] = vf[q][w]
  BY DEF VerifyEffect, Apart
<1>2. <<p, v>> \in Pending <=> vf[p][v].pc \in {"enqueue", "count"}
  BY DEF Pending
<1>3. Pending' = IF vf'[p][v].pc \in {"enqueue", "count"}
                   THEN Pending \cup {<<p, v>>} ELSE Pending \ {<<p, v>>}
  BY <1>1 DEF Pending
<1>4. QED
  BY <1>2, <1>3, PendingFinite, FS_AddElement, FS_RemoveElement

LEMMA CountNext == ShapeInv /\ CountInv /\ [Next]_vars => CountInv'
<1> SUFFICES ASSUME ShapeInv, CountInv, [Next]_vars PROVE CountInv'
  OBVIOUS
<1>0. stats.errors \in Nat /\ stats.scanned \in Nat /\ Cardinality(Pending) \in Nat
  BY PendingFinite DEF ShapeInv, TypeOK
<1>1. CASE Next
  <2>1. ASSUME NEW p \in Passes, WalkEffect(p) PROVE CountInv'
    BY <1>0, <2>1, PendingSame DEF WalkEffect, CountInv
  <2>2. ASSUME NEW p \in Passes, NEW v \in Verifiers, VerifyEffect(p, v) PROVE CountInv'
    <3>1. CASE vf[p][v].pc = "check" /\ stats'.errors = stats.errors + 1
      <4>1. stats'.scanned = stats.scanned /\ vf'[p][v].pc \in {"enqueue", "count"}
        BY <1>0, <2>2, <3>1 DEF VerifyEffect
      <4>2. QED
        BY <1>0, <2>2, <3>1, <4>1, PendingVerify DEF CountInv
    <3>2. CASE vf[p][v].pc = "count"
      <4>1. /\ stats'.scanned = stats.scanned + 1 /\ stats'.errors = stats.errors
            /\ vf'[p][v].pc = "idle"
        BY <2>2, <3>2 DEF VerifyEffect, Waiting
      <4>2. QED
        BY <1>0, <2>2, <3>2, <4>1, PendingVerify DEF CountInv
    <3>3. CASE vf[p][v].pc # "count" /\ stats' = stats
      <4>1. vf[p][v].pc = "enqueue" => vf'[p][v].pc = "count"
        BY <2>2 DEF VerifyEffect
      <4>2. QED
        BY <1>0, <2>2, <3>3, <4>1, PendingVerify DEF CountInv
    <3>4. QED
      BY <2>2, <3>1, <3>2, <3>3 DEF VerifyEffect
  <2>3. ASSUME NEW p \in Passes, BeginEffect(p) PROVE CountInv'
    BY <1>0, <2>3, PendingSame DEF BeginEffect, CountInv
  <2>4. ASSUME NEW p \in Passes, EndEffect(p) PROVE CountInv'
    BY <1>0, <2>4, PendingSame DEF EndEffect, CountInv
  <2>5. ASSUME NEW p \in Passes, ReturnEffect(p) PROVE CountInv'
    <3>1. \A v \in Verifiers: vf[p][v].pc = "exited" /\ vf'[p][v].pc = "idle"
      BY <2>5 DEF ReturnEffect, ShapeInv, Shape, Waiting
    <3>2. QED
      BY <1>0, <2>5, <3>1, PendingSame DEF ReturnEffect, Apart, CountInv
  <2>6. ASSUME NEW k \in Key, ChangeEffect(k) PROVE CountInv'
    BY <1>0, <2>6, PendingSame DEF ChangeEffect, CountInv
  <2>7. CASE Aside
    BY <1>0, <2>7, PendingSame DEF Aside, CountInv
  <2>8. QED
    BY <1>1, <2>1, <2>2, <2>3, <2>4, <2>5, <2>6, <2>7, Effects
<1>2. CASE UNCHANGED vars
  BY <1>0, <1>2, PendingSame DEF vars, CountInv
<1>3. QED
  BY <1>1, <1>2

(* The errors in Stats never exceed the objects scanned, but for those between *)
(* the two counters of verifyObject, however many passes count at once.      *)
THEOREM CountersAgree == Spec => []ErrorsAreScanned
<1>1. Init => CountInv
  BY PendingFinite DEF Init, CountInv
<1>2. CountInv => ErrorsAreScanned
  BY DEF CountInv, Pending, ErrorsAreScanned
<1>3. QED
  BY <1>1, <1>2, CountNext, ScrubberShape, PTL DEF Spec

LEMMA LoopNext == ShapeInv /\ LoopInv /\ [Next]_vars => LoopInv'
<1> SUFFICES ASSUME ShapeInv, LoopInv, [Next]_vars PROVE LoopInv'
  OBVIOUS
<1>0. Loop \in Passes /\ Loop \notin Audits
  BY NamesAssumption DEF Passes
<1>1. CASE Next
  <2>1. ASSUME NEW p \in Passes, WalkEffect(p) PROVE LoopInv'
    <3>1. pass'[Loop].pc = pass[Loop].pc
      BY <1>0, <2>1 DEF WalkEffect, Apart
    <3>2. QED
      BY <2>1, <3>1 DEF WalkEffect, life, LoopInv
  <2>2. ASSUME NEW p \in Passes, NEW v \in Verifiers, VerifyEffect(p, v) PROVE LoopInv'
    <3>1. pass'[Loop].pc = pass[Loop].pc
      BY <1>0, <2>2 DEF VerifyEffect, Apart
    <3>2. QED
      BY <2>2, <3>1 DEF VerifyEffect, life, LoopInv
  <2>3. ASSUME NEW p \in Passes, BeginEffect(p) PROVE LoopInv'
    BY <1>0, <2>3 DEF BeginEffect, Apart, LoopInv
  <2>4. ASSUME NEW p \in Passes, EndEffect(p) PROVE LoopInv'
    BY <1>0, <2>4 DEF EndEffect, Apart, life, LoopInv
  <2>5. ASSUME NEW p \in Passes, ReturnEffect(p) PROVE LoopInv'
    BY <1>0, <2>5 DEF ReturnEffect, Apart, NoPass, LoopInv
  <2>6. ASSUME NEW k \in Key, ChangeEffect(k) PROVE LoopInv'
    BY <2>6 DEF ChangeEffect, LoopInv
  <2>7. CASE Aside
    BY <2>7 DEF Aside, LoopInv
  <2>8. QED
    BY <1>1, <2>1, <2>2, <2>3, <2>4, <2>5, <2>6, <2>7, Effects
<1>2. CASE UNCHANGED vars
  BY <1>2 DEF vars, LoopInv
<1>3. QED
  BY <1>1, <1>2

(* Once Stop answered that the scrubber stopped, the loop has no pass and     *)
(* will not begin one, although Stop's signal may have found it busy.        *)
THEOREM StopIsFinal == Spec => []StoppedIsQuiet
<1>1. Init => LoopInv
  BY DEF Init, LoopInv, NoPass, Passes
<1>2. ShapeInv /\ LoopInv => StoppedIsQuiet
  BY DEF ShapeInv, Shape, LoopInv, StoppedIsQuiet, Passes
<1>3. QED
  BY <1>1, <1>2, LoopNext, ScrubberShape, PTL DEF Spec

---------------------------------------------------------------------------
(* What becomes of each key *)

LEMMA ElementsAppend ==
  ASSUME NEW s \in Seq(Key), NEW k \in Key
  PROVE  /\ Elements(Append(s, k)) = Elements(s) \cup {k}
         /\ Distinct(s) /\ k \notin Elements(s) => Distinct(Append(s, k))
<1>1. /\ Len(s) \in Nat /\ Len(Append(s, k)) = Len(s) + 1
      /\ \A i \in 1..Len(s): Append(s, k)[i] = s[i]
      /\ Append(s, k)[Len(s) + 1] = k
  BY LenProperties, AppendProperties
<1>2. \A i \in 1..Len(s) + 1: i \in 1..Len(s) \/ i = Len(s) + 1
  BY <1>1
<1>3. 1..Len(s) \subseteq 1..Len(s) + 1 /\ Len(s) + 1 \in 1..Len(s) + 1
  BY <1>1
<1>4. Elements(Append(s, k)) = Elements(s) \cup {k}
  BY <1>1, <1>2, <1>3 DEF Elements
<1>5. Distinct(s) /\ k \notin Elements(s) => Distinct(Append(s, k))
  BY <1>1, <1>2 DEF Elements, Distinct
<1>6. QED
  BY <1>4, <1>5

LEMMA ElementsTail ==
  ASSUME NEW s \in Seq(Key), s # <<>>, Distinct(s)
  PROVE  /\ Head(s) \in Elements(s) /\ Head(s) \in Key
         /\ Elements(Tail(s)) = Elements(s) \ {Head(s)}
         /\ Distinct(Tail(s))
<1>1. /\ Head(s) \in Key /\ Head(s) = s[1] /\ Len(s) \in Nat \ {0}
      /\ Len(Tail(s)) = Len(s) - 1 /\ \A i \in 1..Len(s) - 1: Tail(s)[i] = s[i + 1]
  BY HeadTailProperties, EmptySeq
<1>2. \A i \in 1..Len(s) - 1: i + 1 \in 1..Len(s) /\ i + 1 # 1
  BY <1>1
<1>3. \A i \in 1..Len(s): i = 1 \/ (i - 1 \in 1..Len(s) - 1 /\ (i - 1) + 1 = i)
  BY <1>1
<1>4. Head(s) \in Elements(s)
  BY <1>1 DEF Elements
<1>5. ASSUME NEW x \in Elements(Tail(s)) PROVE x \in Elements(s) /\ x # Head(s)
  <2>1. PICK i \in 1..Len(s) - 1: x = s[i + 1]
    BY <1>1, <1>5 DEF Elements
  <2>2. QED
    BY <1>1, <1>2, <2>1 DEF Elements, Distinct
<1>6. ASSUME NEW x \in Elements(s), x # Head(s) PROVE x \in Elements(Tail(s))
  <2>1. PICK i \in 1..Len(s): x = s[i] /\ i # 1
    BY <1>1, <1>6 DEF Elements
  <2>2. i - 1 \in 1..Len(s) - 1 /\ x = Tail(s)[i - 1]
    BY <1>1, <1>3, <2>1
  <2>3. QED
    BY <1>1, <2>2 DEF Elements
<1>7. Distinct(Tail(s))
  <2> SUFFICES ASSUME NEW i \in 1..Len(s) - 1, NEW j \in 1..Len(s) - 1, s[i + 1] = s[j + 1]
               PROVE  i = j
    BY <1>1 DEF Distinct
  <2>1. i + 1 = j + 1
    BY <1>2 DEF Distinct
  <2>2. QED
    BY <1>1, <2>1
<1>8. QED
  BY <1>1, <1>4, <1>5, <1>6, <1>7

LEMMA ElementsEmpty == Elements(<<>>) = {} /\ Distinct(<<>>)
<1>1. Len(<<>>) = 0
  OBVIOUS
<1>2. QED
  BY <1>1 DEF Elements, Distinct

LEMMA OnceWalk ==
  ASSUME ShapeInv, OnceInv, NEW p \in Passes, WalkEffect(p)
  PROVE  Once(p)' /\ Reached(p)'
<1> DEFINE r == pass[p]
           e == pass'[p]
           k == NextName(p)
<1>1. /\ Once(p) /\ Reached(p) /\ Shape(p) /\ r.jobs \in Seq(Key) /\ r.names \subseteq Key
      /\ seen[p].steady \subseteq Key
  BY DEF OnceInv, ShapeInv, TypeOK
<1>2. seen' = seen /\ obj' = obj /\ e.cancelled = r.cancelled
  BY DEF WalkEffect
<1> HIDE DEF k
<1>3. CASE /\ r.walk = "read" /\ e.walk = "visit"
           /\ e.names = {j \in Key: obj[j] # "absent"} /\ e.jobs = r.jobs /\ e.err = r.err
  <2>1. Queued(p)' = {} /\ Queued(p) = {} /\ Distinct(e.jobs)
    BY <1>1, <1>3, ElementsEmpty DEF Shape, Queued
  <2>2. \A j \in Key: seen[p].verified[j] = 0
    BY <1>1, <1>3 DEF Once
  <2>3. Once(p)'
    BY <1>2, <1>3, <2>1, <2>2 DEF Once
  <2>4. QED
    BY <1>1, <1>2, <1>3, <2>1, <2>3 DEF Reached
<1>4. CASE e.names = r.names /\ e.jobs = r.jobs /\ e.err = r.err /\ r.walk \in {"visit", "send"}
           /\ (e.walk = "closed" => r.names = {} \/ r.cancelled) /\ e.walk # "read"
  <2>1. Queued(p)' = Queued(p)
    BY <1>4 DEF Queued
  <2>2. Once(p)'
    BY <1>1, <1>2, <1>4, <2>1 DEF Once
  <2>3. QED
    BY <1>1, <1>2, <1>4, <2>1, <2>2 DEF Reached
<1>5. CASE /\ r.walk = "visit" /\ e.walk = "visit" /\ k \in r.names
           /\ e.names = r.names \ {k} /\ e.jobs = r.jobs
           /\ (obj[k] = "absent" /\ e.err) \/ (obj[k] = "dir" /\ e.err = r.err)
  <2>1. Queued(p)' = Queued(p)
    BY <1>5 DEF Queued
  <2>2. Once(p)'
    BY <1>1, <1>2, <1>5, <2>1 DEF Once
  <2>3. e.err => seen[p].steady # Key
    BY <1>1, <1>5 DEF Reached
  <2>4. QED
    BY <1>1, <1>2, <1>5, <2>1, <2>2, <2>3 DEF Reached
<1>6. CASE /\ r.walk = "send" /\ e.walk = "visit" /\ k \in r.names
           /\ e.names = r.names \ {k} /\ e.jobs = Append(r.jobs, k) /\ e.err = r.err
  <2>1. k \in Key /\ k \notin Queued(p) /\ Distinct(r.jobs) /\ seen[p].verified[k] # 1
    BY <1>1, <1>6 DEF Once
  <2>2. Queued(p)' = Queued(p) \cup {k} /\ Distinct(e.jobs)
    BY <1>1, <1>6, <2>1, ElementsAppend DEF Queued
  <2>3. Once(p)'
    BY <1>1, <1>2, <1>6, <2>1, <2>2 DEF Once
  <2>4. QED
    BY <1>1, <1>2, <1>6, <2>2, <2>3 DEF Reached
<1>7. QED
  BY <1>3, <1>4, <1>5, <1>6 DEF WalkEffect, k

LEMMA OnceVerify ==
  ASSUME ShapeInv, OnceInv, NEW p \in Passes, NEW v \in Verifiers, VerifyEffect(p, v)
  PROVE  Once(p)' /\ Reached(p)'
<1> DEFINE k == Head(pass[p].jobs)
<1>1. /\ Once(p) /\ Reached(p) /\ Shape(p) /\ pass[p].jobs \in Seq(Key)
      /\ seen[p].verified \in [Key -> Nat] /\ seen[p].steady \subseteq Key
  BY DEF OnceInv, ShapeInv, TypeOK
<1>2. obj' = obj /\ seen'[p].steady = seen[p].steady
  BY DEF VerifyEffect
<1>3. CASE pass' = pass /\ seen'[p].verified = seen[p].verified
  <2>1. Queued(p)' = Queued(p)
    BY <1>3 DEF Queued
  <2>2. QED
    BY <1>1, <1>2, <1>3, <2>1 DEF Once, Reached
<1>4. CASE /\ pass[p].jobs # <<>> /\ pass'[p].jobs = Tail(pass[p].jobs)
           /\ pass'[p].cancelled = pass[p].cancelled /\ pass'[p].walk = pass[p].walk
           /\ pass'[p].names = pass[p].names /\ pass'[p].err = pass[p].err
           /\ \/ /\ obj[k] \in {"good", "bad"}
                 /\ seen'[p].verified = [seen[p].verified EXCEPT ![k] = @ + 1]
              \/ obj[k] \notin {"good", "bad"} /\ seen'[p] = seen[p]
  <2>1. /\ k \in Queued(p) /\ k \in Key /\ Queued(p)' = Queued(p) \ {k}
        /\ Distinct(pass'[p].jobs)
    BY <1>1, <1>4, ElementsTail DEF Once, Queued
  <2>2. seen[p].verified[k] = 0 /\ k \notin pass[p].names /\ pass[p].walk # "read"
    BY <1>1, <1>4, <2>1 DEF Once, Shape
  <2> HIDE DEF k
  <2>3. CASE seen'[p].verified = [seen[p].verified EXCEPT ![k] = @ + 1]
    <3>1. seen'[p].verified[k] = 1 /\ \A j \in Key \ {k}: seen'[p].verified[j] = seen[p].verified[j]
      BY <1>1, <2>1, <2>2, <2>3
    <3>2. Once(p)'
      BY <1>1, <1>4, <2>1, <2>2, <3>1 DEF Once
    <3>3. QED
      BY <1>1, <1>2, <1>4, <2>1, <3>1, <3>2 DEF Reached
  <2>4. CASE obj[k] \notin {"good", "bad"} /\ seen'[p] = seen[p]
    <3>1. Once(p)'
      BY <1>1, <1>4, <2>1, <2>4 DEF Once
    <3>2. QED
      BY <1>1, <1>2, <1>4, <2>1, <2>4, <3>1 DEF Reached
  <2>5. QED
    BY <1>4, <2>3, <2>4
<1>5. QED
  BY <1>3, <1>4 DEF VerifyEffect

LEMMA OnceKept ==
  ASSUME OnceInv, NEW p \in Passes, Apart(p), UNCHANGED obj, Once(p)' /\ Reached(p)'
  PROVE  OnceInv'
<1>1. ASSUME NEW q \in Passes \ {p} PROVE Once(q)' /\ Reached(q)'
  <2>1. pass'[q] = pass[q] /\ seen'[q] = seen[q] /\ Once(q) /\ Reached(q)
    BY DEF Apart, OnceInv
  <2>2. Queued(q)' = Queued(q)
    BY <2>1 DEF Queued
  <2>3. QED
    BY <2>1, <2>2 DEF Once, Reached
<1>2. QED
  BY <1>1 DEF OnceInv

LEMMA OnceNext == ShapeInv /\ OnceInv /\ [Next]_vars => OnceInv'
<1> SUFFICES ASSUME ShapeInv, OnceInv, [Next]_vars PROVE OnceInv'
  OBVIOUS
<1>1. CASE Next
  <2>1. ASSUME NEW p \in Passes, WalkEffect(p) PROVE OnceInv'
    BY <2>1, OnceWalk, OnceKept DEF WalkEffect
  <2>2. ASSUME NEW p \in Passes, NEW v \in Verifiers, VerifyEffect(p, v) PROVE OnceInv'
    BY <2>2, OnceVerify, OnceKept DEF VerifyEffect
  <2>3. ASSUME NEW p \in Passes, BeginEffect(p) PROVE OnceInv'
    <3>1. Queued(p)' = {} /\ Distinct(pass'[p].jobs)
      BY <2>3, ElementsEmpty DEF BeginEffect, Queued
    <3>2. Once(p)' /\ Reached(p)'
      BY <2>3, <3>1 DEF BeginEffect, Once, Reached
    <3>3. QED
      BY <2>3, <3>2, OnceKept DEF BeginEffect
  <2>4. ASSUME NEW p \in Passes, EndEffect(p) PROVE OnceInv'
    <3>1. Once(p) /\ Reached(p) /\ obj' = obj /\ seen' = seen /\ Apart(p)
      BY <2>4 DEF EndEffect, OnceInv
    <3>2. Queued(p)' = Queued(p)
      BY <2>4 DEF EndEffect, Queued
    <3>3. Once(p)' /\ Reached(p)'
      BY <2>4, <3>1, <3>2 DEF EndEffect, Once, Reached
    <3>4. QED
      BY <3>1, <3>3, OnceKept
  <2>5. ASSUME NEW p \in Passes, ReturnEffect(p) PROVE OnceInv'
    <3>1. Queued(p)' = {} /\ Distinct(pass'[p].jobs)
      BY <2>5, ElementsEmpty DEF ReturnEffect, NoPass, Queued
    <3>2. Once(p)' /\ Reached(p)'
      BY <2>5, <3>1 DEF ReturnEffect, NoPass, Nothing, Once, Reached
    <3>3. QED
      BY <2>5, <3>2, OnceKept DEF ReturnEffect
  <2>6. ASSUME NEW k \in Key, ChangeEffect(k) PROVE OnceInv'
    <3>1. ASSUME NEW p \in Passes PROVE Once(p)' /\ Reached(p)'
      <4>1. /\ Once(p) /\ Reached(p) /\ pass'[p] = pass[p]
            /\ seen'[p].verified = seen[p].verified
            /\ seen'[p].steady = seen[p].steady \ {k} /\ seen[p].steady \subseteq Key
            /\ \A j \in Key \ {k}: obj'[j] = obj[j]
        BY <2>6 DEF ChangeEffect, OnceInv, ShapeInv, TypeOK
      <4>2. Queued(p)' = Queued(p)
        BY <4>1 DEF Queued
      <4>3. QED
        BY <4>1, <4>2 DEF Once, Reached
    <3>2. QED
      BY <3>1 DEF OnceInv
  <2>7. CASE Aside
    BY <2>7 DEF Aside, OnceInv, Once, Reached, Queued
  <2>8. QED
    BY <1>1, <2>1, <2>2, <2>3, <2>4, <2>5, <2>6, <2>7, Effects
<1>2. CASE UNCHANGED vars
  BY <1>2 DEF vars, OnceInv, Once, Reached, Queued
<1>3. QED
  BY <1>1, <1>2

LEMMA OnceInit == Init => OnceInv
<1> SUFFICES ASSUME Init, NEW p \in Passes PROVE Once(p) /\ Reached(p)
  BY DEF OnceInv
<1>1. pass[p] = NoPass /\ seen[p] = Nothing
  BY DEF Init
<1>2. Queued(p) = {} /\ Distinct(pass[p].jobs)
  BY <1>1, ElementsEmpty DEF NoPass, Queued
<1>3. QED
  BY <1>1, <1>2 DEF NoPass, Nothing, Once, Reached

(* No pass verifies an object twice, and one whose client stays verifies every *)
(* object that was there and unchanged all through it, whatever the walk, the *)
(* channel and the other passes do meanwhile.                                *)
THEOREM PassesCover == Spec => []PassCovers
<1>1. ShapeInv /\ OnceInv => PassCovers
  <2> SUFFICES ASSUME ShapeInv, OnceInv, NEW p \in Passes
               PROVE  /\ \A k \in Key: seen[p].verified[k] <= 1
                      /\ Ended(p) /\ ~pass[p].cancelled =>
                           \A k \in seen[p].steady: obj[k] \in {"good", "bad"} =>
                             seen[p].verified[k] = 1
    BY DEF PassCovers
  <2>1. Once(p) /\ Reached(p) /\ Shape(p)
    BY DEF ShapeInv, OnceInv
  <2>2. \A k \in Key: seen[p].verified[k] <= 1
    BY <2>1 DEF Once
  <2>3. ASSUME Ended(p), ~pass[p].cancelled
        PROVE  pass[p].walk = "closed" /\ pass[p].names = {} /\ Queued(p) = {}
    BY <2>1, <2>3, BoundsAssumption, ElementsEmpty DEF Ended, Shape, Reached, Queued
  <2>4. QED
    BY <2>1, <2>2, <2>3 DEF Reached
<1>2. QED
  BY <1>1, OnceInit, OnceNext, ScrubberShape, PTL DEF Spec

---------------------------------------------------------------------------
(* What a pass finds *)

LEMMA FoundVerify ==
  ASSUME ShapeInv, OnceInv, FoundInv, NEW p \in Passes, NEW v \in Verifiers, VerifyEffect(p, v)
  PROVE  Found(p)'
<1> DEFINE r == vf[p][v]
           e == vf'[p][v]
           k == Head(pass[p].jobs)
<1>1. /\ Found(p) /\ Once(p) /\ Shape(p) /\ pass[p].jobs \in Seq(Key)
      /\ seen[p].verified \in [Key -> Nat] /\ seen[p].steady \subseteq Key /\ seen[p].failed \subseteq Key
      /\ obj \in [Key -> Object]
  BY DEF FoundInv, OnceInv, ShapeInv, TypeOK
<1>2. /\ obj' = obj /\ repairs' = repairs /\ seen'[p].steady = seen[p].steady
      /\ \A w \in Verifiers \ {v}: vf'[p][w] = vf[p][w]
      /\ pass'[p].cancelled = pass[p].cancelled
  BY DEF VerifyEffect
<1>3. CASE /\ r.pc = "idle" /\ pass[p].jobs # <<>>
           /\ obj[k] \in {"good", "bad"} /\ e.pc = "check" /\ e.key = k /\ ~e.stale
           /\ seen'[p].verified = [seen[p].verified EXCEPT ![k] = @ + 1]
           /\ seen'[p].failed = seen[p].failed /\ seen'[p].asked = seen[p].asked
  <2>1. k \in Key
    BY <1>1, <1>3, ElementsTail DEF Once
  <2>2. \A j \in Key \ {k}: seen'[p].verified[j] = seen[p].verified[j]
    BY <1>1, <1>3, <2>1
  <2> HIDE DEF k
  <2>3. /\ \A j: \A w \in Verifiers: VerifierAt(p, w, j, "check")' <=>
             (w # v /\ VerifierAt(p, w, j, "check")) \/ (w = v /\ j = k)
        /\ \A j: \A w \in Verifiers: VerifierAt(p, w, j, "enqueue")' <=> VerifierAt(p, w, j, "enqueue")
    BY <1>2, <1>3 DEF VerifierAt
  <2>4. ~VerifierAt(p, v, k, "check") /\ \A j: ~VerifierAt(p, v, j, "check")
    BY <1>3 DEF VerifierAt
  <2>5. \A w \in Verifiers, j \in seen'[p].steady:
          VerifierAt(p, w, j, "check")' => ~vf'[p][w].stale /\ obj'[j] \in {"good", "bad"}
    BY <1>1, <1>2, <1>3, <2>3 DEF Found
  <2>6. \A j \in seen'[p].steady: seen'[p].verified[j] = 1 /\ obj'[j] = "bad" =>
          j \in seen'[p].failed \/ \E w \in Verifiers: VerifierAt(p, w, j, "check")'
    BY <1>1, <1>2, <1>3, <2>2, <2>3, <2>4 DEF Found
  <2>7. \A j \in seen'[p].failed:
          \/ repairs' = "none" \/ j \in seen'[p].asked \/ pass'[p].cancelled
          \/ \E w \in Verifiers: VerifierAt(p, w, j, "enqueue")'
    BY <1>1, <1>2, <1>3, <2>3 DEF Found
  <2>8. \A j \in seen'[p].steady \cap seen'[p].failed: obj'[j] = "bad"
    BY <1>1, <1>2, <1>3 DEF Found
  <2>9. QED
    BY <2>5, <2>6, <2>7, <2>8 DEF Found
<1>4. CASE /\ r.pc = "check" /\ "fails" \in Outcomes(p, v)
           /\ e.pc = (IF repairs = "none" THEN "count" ELSE "enqueue") /\ e.key = r.key
           /\ seen'[p].verified = seen[p].verified
           /\ seen'[p].failed = seen[p].failed \cup {r.key} /\ seen'[p].asked = seen[p].asked
  <2>1. /\ \A j: \A w \in Verifiers: VerifierAt(p, w, j, "check")' <=> w # v /\ VerifierAt(p, w, j, "check")
        /\ \A j: \A w \in Verifiers: VerifierAt(p, w, j, "enqueue") => VerifierAt(p, w, j, "enqueue")'
        /\ \A w \in Verifiers: \A j: VerifierAt(p, w, j, "check")' => vf'[p][w] = vf[p][w]
    BY <1>2, <1>4 DEF VerifierAt
  <2>2. r.key \in Key /\ (r.key \in seen[p].steady => obj[r.key] = "bad")
    <3>1. r.key \in Key
      BY <1>1, <1>4 DEF Shape
    <3>2. r.key \in seen[p].steady => ~r.stale /\ obj[r.key] \in {"good", "bad"}
      BY <1>1, <1>4 DEF Found, VerifierAt
    <3>3. QED
      BY <1>4, <3>1, <3>2 DEF Outcomes
  <2>3. \A j \in seen'[p].steady \cap seen'[p].failed: obj'[j] = "bad"
    BY <1>1, <1>2, <1>4, <2>2 DEF Found
  <2>4. \A j \in seen'[p].steady: seen'[p].verified[j] = 1 /\ obj'[j] = "bad" =>
          j \in seen'[p].failed \/ \E w \in Verifiers: VerifierAt(p, w, j, "check")'
    <3> SUFFICES ASSUME NEW j \in seen[p].steady, seen[p].verified[j] = 1, obj[j] = "bad",
                        j \notin seen[p].failed, j # r.key
                 PROVE  \E w \in Verifiers: VerifierAt(p, w, j, "check")'
      BY <1>2, <1>4
    <3>1. PICK w \in Verifiers: VerifierAt(p, w, j, "check")
      BY <1>1 DEF Found
    <3>2. w # v
      BY <3>1 DEF VerifierAt
    <3>3. QED
      BY <2>1, <3>1, <3>2
  <2>5. \A j \in seen'[p].failed:
          \/ repairs' = "none" \/ j \in seen'[p].asked \/ pass'[p].cancelled
          \/ \E w \in Verifiers: VerifierAt(p, w, j, "enqueue")'
    <3> SUFFICES ASSUME NEW j \in seen'[p].failed, repairs # "none", j \notin seen[p].asked,
                        ~pass[p].cancelled
                 PROVE  \E w \in Verifiers: VerifierAt(p, w, j, "enqueue")'
      BY <1>2, <1>4
    <3>1. CASE j = r.key
      BY <1>4, <3>1 DEF VerifierAt
    <3>2. CASE j # r.key
      BY <1>1, <1>4, <2>1, <3>2 DEF Found
    <3>3. QED
      BY <3>1, <3>2
  <2>6. \A w \in Verifiers, j \in seen'[p].steady:
          VerifierAt(p, w, j, "check")' => ~vf'[p][w].stale /\ obj'[j] \in {"good", "bad"}
    BY <1>1, <1>2, <2>1 DEF Found
  <2>7. QED
    BY <2>3, <2>4, <2>5, <2>6 DEF Found
<1>5. CASE r.pc = "check" /\ "passes" \in Outcomes(p, v) /\ e.pc = "count" /\ seen'[p] = seen[p]
  <2>1. /\ \A j: \A w \in Verifiers: VerifierAt(p, w, j, "check")' <=> w # v /\ VerifierAt(p, w, j, "check")
        /\ \A j: \A w \in Verifiers: VerifierAt(p, w, j, "enqueue")' <=> VerifierAt(p, w, j, "enqueue")
        /\ \A w \in Verifiers: \A j: VerifierAt(p, w, j, "check")' => vf'[p][w] = vf[p][w]
    BY <1>2, <1>5 DEF VerifierAt
  <2>2. r.key \in seen[p].steady => obj[r.key] # "bad"
    <3>1. r.key \in seen[p].steady => ~r.stale /\ obj[r.key] \in {"good", "bad"}
      BY <1>1, <1>5 DEF Found, VerifierAt
    <3>2. QED
      BY <1>5, <3>1 DEF Outcomes
  <2>3. \A j: VerifierAt(p, v, j, "check") => j = r.key
    BY DEF VerifierAt
  <2>4. QED
    BY <1>1, <1>2, <1>5, <2>1, <2>2, <2>3 DEF Found
<1>6. CASE /\ r.pc = "enqueue" /\ e.pc = "count"
           /\ seen'[p].verified = seen[p].verified /\ seen'[p].failed = seen[p].failed
           /\ \/ seen'[p].asked = seen[p].asked \cup {r.key}
              \/ pass[p].cancelled /\ seen'[p].asked = seen[p].asked
  <2>1. /\ \A j: \A w \in Verifiers: VerifierAt(p, w, j, "check")' <=> VerifierAt(p, w, j, "check")
        /\ \A j: \A w \in Verifiers: VerifierAt(p, w, j, "enqueue")' <=> w # v /\ VerifierAt(p, w, j, "enqueue")
        /\ \A w \in Verifiers: \A j: VerifierAt(p, w, j, "check")' => vf'[p][w] = vf[p][w]
    BY <1>2, <1>6 DEF VerifierAt
  <2>2. \A j: VerifierAt(p, v, j, "enqueue") => j = r.key
    BY DEF VerifierAt
  <2>3. QED
    BY <1>1, <1>2, <1>6, <2>1, <2>2 DEF Found
<1>7. CASE r.pc \in {"idle", "count"} /\ e.pc \in {"idle", "exited"} /\ seen'[p] = seen[p]
  <2>1. /\ \A j: \A w \in Verifiers: VerifierAt(p, w, j, "check")' <=> VerifierAt(p, w, j, "check")
        /\ \A j: \A w \in Verifiers: VerifierAt(p, w, j, "enqueue")' <=> VerifierAt(p, w, j, "enqueue")
        /\ \A w \in Verifiers: \A j: VerifierAt(p, w, j, "check")' => vf'[p][w] = vf[p][w]
    BY <1>2, <1>7 DEF VerifierAt
  <2>2. QED
    BY <1>1, <1>2, <1>7, <2>1 DEF Found
<1>8. QED
  BY <1>3, <1>4, <1>5, <1>6, <1>7 DEF VerifyEffect, Waiting

LEMMA FoundNext == ShapeInv /\ OnceInv /\ FoundInv /\ [Next]_vars => FoundInv'
<1> SUFFICES ASSUME ShapeInv, OnceInv, FoundInv, [Next]_vars PROVE FoundInv'
  OBVIOUS
<1>0. ASSUME NEW p \in Passes, UNCHANGED <<obj, repairs>>, seen'[p] = seen[p], vf'[p] = vf[p],
             pass[p].cancelled => pass'[p].cancelled
      PROVE  Found(p)'
  <2>1. Found(p)
    BY DEF FoundInv
  <2>2. QED
    BY <1>0, <2>1 DEF Found, VerifierAt
<1>1. CASE Next
  <2>1. ASSUME NEW p \in Passes, WalkEffect(p) PROVE FoundInv'
    BY <1>0, <2>1 DEF WalkEffect, Apart, FoundInv
  <2>2. ASSUME NEW p \in Passes, NEW v \in Verifiers, VerifyEffect(p, v) PROVE FoundInv'
    BY <1>0, <2>2, FoundVerify DEF VerifyEffect, Apart, FoundInv
  <2>3. ASSUME NEW p \in Passes, BeginEffect(p) PROVE FoundInv'
    <3>1. \A v \in Verifiers: vf'[p][v].pc = "idle"
      BY <2>3 DEF BeginEffect, ShapeInv, Shape, Waiting
    <3>2. \A k \in seen'[p].steady: seen'[p].verified[k] = 0
      BY <2>3 DEF BeginEffect
    <3>3. Found(p)'
      BY <2>3, <3>1, <3>2 DEF BeginEffect, Found, VerifierAt
    <3>4. QED
      BY <1>0, <2>3, <3>3 DEF BeginEffect, Apart, FoundInv
  <2>4. ASSUME NEW p \in Passes, EndEffect(p) PROVE FoundInv'
    BY <1>0, <2>4 DEF EndEffect, Apart, FoundInv
  <2>5. ASSUME NEW p \in Passes, ReturnEffect(p) PROVE FoundInv'
    <3>1. Found(p)'
      BY <2>5 DEF ReturnEffect, Nothing, Found
    <3>2. QED
      BY <1>0, <2>5, <3>1 DEF ReturnEffect, Apart, FoundInv
  <2>6. ASSUME NEW k \in Key, ChangeEffect(k) PROVE FoundInv'
    <3> SUFFICES ASSUME NEW p \in Passes PROVE Found(p)'
      BY DEF FoundInv
    <3>1. /\ Found(p) /\ seen[p].steady \subseteq Key /\ seen'[p].steady = seen[p].steady \ {k}
          /\ seen'[p].verified = seen[p].verified /\ seen'[p].failed = seen[p].failed
          /\ seen'[p].asked = seen[p].asked /\ repairs' = repairs /\ pass' = pass
          /\ \A j \in seen'[p].steady: j \in seen[p].steady /\ obj'[j] = obj[j]
      BY <2>6 DEF ChangeEffect, FoundInv, ShapeInv, TypeOK
    <3>2. \A w \in Verifiers: \A j, pc: VerifierAt(p, w, j, pc)' <=> VerifierAt(p, w, j, pc)
      BY <2>6 DEF ChangeEffect, VerifierAt
    <3>3. \A w \in Verifiers, j \in seen'[p].steady: VerifierAt(p, w, j, "check") => vf'[p][w] = vf[p][w]
      BY <2>6, <3>1 DEF ChangeEffect, VerifierAt
    <3>4. QED
      BY <3>1, <3>2, <3>3 DEF Found
  <2>7. CASE Aside
    BY <1>0, <2>7 DEF Aside, FoundInv
  <2>8. QED
    BY <1>1, <2>1, <2>2, <2>3, <2>4, <2>5, <2>6, <2>7, Effects
<1>2. CASE UNCHANGED vars
  BY <1>0, <1>2 DEF vars, FoundInv
<1>3. QED
  BY <1>1, <1>2

(* Of the objects that did not change during it, a pass reports exactly the   *)
(* damaged ones and asks a repair of each when there is a queue, however full *)
(* the queue was and whoever else was verifying; and it fails only when its  *)
(* walk met a directory that had gone.                                       *)
THEOREM PassesAreSound == Spec => []PassSound
<1>1. Init => FoundInv
  BY DEF Init, FoundInv, Found, Nothing
<1>2. ShapeInv /\ OnceInv /\ FoundInv => PassSound
  <2> SUFFICES ASSUME ShapeInv, OnceInv, FoundInv, NEW p \in Passes, Ended(p)
               PROVE  /\ \A k \in seen[p].steady \cap seen[p].failed: obj[k] = "bad"
                      /\ pass[p].err => seen[p].steady # Key
                      /\ ~pass[p].cancelled =>
                           \A k \in seen[p].steady: obj[k] = "bad" =>
                             k \in seen[p].failed /\ (repairs # "none" => k \in seen[p].asked)
    BY DEF PassSound
  <2>1. Once(p) /\ Reached(p) /\ Shape(p) /\ Found(p) /\ seen[p].steady \subseteq Key
    BY DEF ShapeInv, TypeOK, OnceInv, FoundInv
  <2>2. \A v \in Verifiers: vf[p][v].pc = "exited"
    BY <2>1 DEF Ended, Shape
  <2>3. ~pass[p].cancelled => pass[p].walk = "closed" /\ pass[p].names = {} /\ Queued(p) = {}
    BY <2>1, <2>2, BoundsAssumption, ElementsEmpty DEF Shape, Reached, Queued
  <2>4. \A k, pc: \A v \in Verifiers: pc # "exited" => ~VerifierAt(p, v, k, pc)
    BY <2>2 DEF VerifierAt
  <2>5. ASSUME ~pass[p].cancelled, NEW k \in seen[p].steady, obj[k] = "bad"
        PROVE  k \in seen[p].failed /\ (repairs # "none" => k \in seen[p].asked)
    <3>1. seen[p].verified[k] = 1
      BY <2>1, <2>3, <2>5 DEF Reached
    <3>2. k \in seen[p].failed
      BY <2>1, <2>4, <2>5, <3>1 DEF Found
    <3>3. QED
      BY <2>1, <2>4, <2>5, <3>2 DEF Found
  <2>6. QED
    BY <2>1, <2>5 DEF Found, Reached
<1>3. QED
  BY <1>1, <1>2, OnceInit, OnceNext, FoundNext, ScrubberShape, PTL DEF Spec
=============================================================================
